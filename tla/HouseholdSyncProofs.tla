------------------------- MODULE HouseholdSyncProofs -------------------------
(***************************************************************************)
(* Theorems about HouseholdSync, for every set of users, households,       *)
(* devices and records: the databases stay well-formed and no edit loses   *)
(* its operation, whatever users and the server do, and however a device   *)
(* comes to another household in the middle of a run of its engine; and a  *)
(* record leaves its household only by adoption.                           *)
(***************************************************************************)
EXTENDS HouseholdSync, SyncEngineProofs

-----------------------------------------------------------------------------
(* The versions of rows.                                                   *)

\* A live row has a version.
Aged(D) == \A i \in Id : LiveRow(D, i) => D.row[i].ver >= 1

\* A step that rewrites one record keeps it so if the row it writes is so.
LEMMA TouchedAged ==
  ASSUME NEW d, NEW D, NEW E, Aged(D), NEW i \in Id, NEW r, NEW c, NEW A,
         Touched(D, E, d, i, r, c, A),
         r.data # NoData /\ ~ r.deleted => r.ver >= 1
  PROVE  Aged(E)
BY DEF Aged, Touched, LiveRow, HasRow

\* Aged looks at the rows alone.
LEMMA SameRowsAged ==
  ASSUME NEW D, NEW E, Aged(D), E.row = D.row
  PROVE  Aged(E)
BY DEF Aged, LiveRow, HasRow

\* The operations of the repositories keep it.
LEMMA CreateAged ==
  ASSUME NEW d, NEW D, Fine(D, d), Aged(D), NEW i \in Id, NEW data \in PayloadOf(i)
  PROVE  Aged(LocalCreate(D, i, data))
<1> DEFINE new == [data EXCEPT !.archived = FALSE]
           r == [ver |-> 1, sv |-> 0, deleted |-> FALSE, data |-> new]
           E == LocalCreate(D, i, data)
<1>1. new \in PayloadOf(i)
  BY NewPayload
<1>2. new \in Payload \cup {NoData} /\ "upsert" \in {"upsert", "delete"} /\ FALSE \in BOOLEAN
      /\ 0 \in Nat
  BY <1>1 DEF PayloadOf
<1>3. E = Enqueued(WithRow(D, i, r), i, "upsert", new, FALSE, 0)
  BY DEF LocalCreate
<1> HIDE DEF new, E
<1>4. r \in LocalRow /\ r.ver = 1
  BY <1>2 DEF LocalRow
<1>5. D \in DeviceState(d)
  BY DEF Fine
<1> HIDE DEF r
<1>6. Touched(D, E, d, i, r, D.conf[i], FirstIds(E, i))
  BY <1>2, <1>3, <1>4, <1>5, WrittenTouched
<1>7. Aged(E)
  BY <1>4, <1>6, TouchedAged
<1> QED  BY <1>7 DEF E

LEMMA UpdateAged ==
  ASSUME NEW d, NEW D, Fine(D, d), Aged(D), NEW i \in Id, LiveRow(D, i),
         NEW data \in PayloadOf(i)
  PROVE  Aged(LocalUpdate(D, i, data))
<1> DEFINE r == [D.row[i] EXCEPT !.ver = @ + 1, !.data = data]
           v == D.row[i].sv
           E == LocalUpdate(D, i, data)
<1>1. /\ D.row[i] \in LocalRow /\ D.row[i].ver \in Nat /\ v \in Nat
      /\ D \in DeviceState(d)
  BY RowOf
<1>2. data \in Payload \cup {NoData} /\ "upsert" \in {"upsert", "delete"} /\ FALSE \in BOOLEAN
  BY DEF PayloadOf
<1>3. r \in LocalRow /\ r.ver = D.row[i].ver + 1
  <2> DEFINE q == D.row[i]
             w == q.ver + 1
  <2>1. r = [q EXCEPT !.ver = w, !.data = data] /\ w \in Nat /\ q \in LocalRow
    BY <1>1
  <2> HIDE DEF r, q, w
  <2>2. r \in LocalRow /\ r.ver = w
    BY <1>2, <2>1 DEF LocalRow
  <2> QED  BY <2>2 DEF q, w
<1>4. E = Enqueued(WithRow(D, i, r), i, "upsert", data, FALSE, v)
  BY DEF LocalUpdate
<1> HIDE DEF r, E, v
<1>5. Touched(D, E, d, i, r, D.conf[i], FirstIds(E, i))
  BY <1>1, <1>2, <1>3, <1>4, WrittenTouched
<1>6. r.ver >= 1
  BY <1>1, <1>3
<1>7. Aged(E)
  BY <1>5, <1>6, TouchedAged
<1> QED  BY <1>7 DEF E

\* A cascade changes no version.
LEMMA SweptAged ==
  ASSUME NEW d, NEW D \in DeviceState(d), Aged(D), NEW R \in SUBSET Id, NEW gone
  PROVE  Aged(Swept(D, R, gone))
<1> DEFINE rows == [j \in Id |-> IF j \notin R THEN D.row[j]
                                 ELSE IF j \in gone THEN NoRow ELSE Buried(D.row[j])]
           q == Kept(D.out, {k \in DOMAIN D.out : D.out[k].id \notin R})
           E == Swept(D, R, gone)
<1>1. E.row = rows
  <2>1. E = [D EXCEPT !.row = rows, !.out = q]
    BY DEF Swept, DeviceState
  <2> HIDE DEF rows, q
  <2> QED  BY <2>1 DEF DeviceState
<1> HIDE DEF E
<1>2. ASSUME NEW j \in Id, LiveRow(E, j)  PROVE E.row[j].ver >= 1
  <2>1. CASE j \notin R
    <3>1. E.row[j] = D.row[j]
      BY <1>1, <2>1
    <3> QED  BY <1>2, <3>1 DEF Aged, LiveRow, HasRow
  <2>2. CASE j \in R
    <3>1. E.row[j] = IF j \in gone THEN NoRow ELSE Buried(D.row[j])
      BY <1>1, <2>2
    <3>2. Buried(D.row[j]).deleted
      BY BuriedRow DEF DeviceState
    <3> QED  BY <1>2, <3>1, <3>2, NoRowFacts DEF LiveRow, HasRow
  <2> QED  BY <2>1, <2>2
<1> QED  BY <1>2 DEF Aged, E

LEMMA RemoveAged ==
  ASSUME NEW d, NEW D, Fine(D, d), Aged(D), NEW i \in Id, LiveRow(D, i),
         NEW cascade \in BOOLEAN
  PROVE  Aged(LocalRemove(D, i, cascade))
<1> DEFINE R == IF i \in Category THEN Referencing(D, i) ELSE {}
           r == Buried(D.row[i])
           v == D.row[i].sv
           E == Enqueued(WithRow(D, i, r), i, "delete", NoData, cascade, v)
           G == {j \in R : Unborn(D, j)}
           H == LocalRemove(D, i, cascade)
<1>0. /\ D \in DeviceState(d) /\ D.row[i] \in LocalRow /\ v \in Nat
      /\ NoData \in Payload \cup {NoData} /\ "delete" \in {"upsert", "delete"}
  BY RowOf
<1>1. R \in SUBSET Id /\ {i} \cup R \in SUBSET Id
  BY DEF Referencing, Id
<1>2. H = IF Unborn(D, i) THEN Swept(D, {i} \cup R, {i} \cup R)
          ELSE IF cascade THEN Swept(E, R, G) ELSE E
  BY DEF LocalRemove
<1>3. r \in LocalRow /\ r.deleted
  BY <1>0, BuriedRow
<1> HIDE DEF H, R, r, G, v
<1>4. Touched(D, E, d, i, r, D.conf[i], FirstIds(E, i))
  BY <1>0, <1>3, WrittenTouched
<1> HIDE DEF E
<1>5. Aged(E) /\ E \in DeviceState(d)
  BY <1>3, <1>4, TouchedAged DEF Touched
<1>6. Aged(Swept(D, {i} \cup R, {i} \cup R)) /\ Aged(Swept(E, R, G))
  BY <1>0, <1>1, <1>5, SweptAged
<1> QED  BY <1>2, <1>5, <1>6 DEF H

\* Settling a conflict either way keeps it.
LEMMA ResolvedAged ==
  ASSUME NEW d, NEW D \in DeviceState(d), Aged(D), NEW i \in Id
  PROVE  Aged(Resolved(D, i))
<1>1. Resolved(D, i).row = D.row
  BY DEF Resolved, DeviceState
<1> QED  BY <1>1, SameRowsAged

LEMMA KeepLocalAged ==
  ASSUME NEW d, NEW D, Fine(D, d), Aged(D), NEW i \in Id
  PROVE  Aged(KeepLocal(D, i))
<1> DEFINE v == D.conf[i].state.ver
           r == [D.row[i] EXCEPT !.sv = v, !.ver = MaxOf(@, v + 1)]
           E == DropOps(D, i)
           act == IF D.row[i].deleted THEN "delete" ELSE "upsert"
           data == IF D.row[i].deleted THEN NoData ELSE D.row[i].data
           A == Enqueued(WithRow(E, i, r), i, act, data, FALSE, v)
           G == IF HasRow(D, i) THEN A ELSE E
<1>1. /\ D \in DeviceState(d) /\ D.row[i] \in LocalRow /\ v \in Nat
      /\ D.row[i].deleted \in BOOLEAN /\ act \in {"upsert", "delete"}
      /\ data \in Payload \cup {NoData}
  BY RowOf DEF Fine, DeviceState, LocalRow, ConflictRow, Row
<1>2. KeepLocal(D, i) = Resolved(G, i)
  <2>1. E.row[i] = D.row[i]
    BY <1>1, DropTouched DEF Touched
  <2>2. KeepLocal(D, i) =
          Resolved(IF ~ HasRow(D, i) THEN E
                   ELSE IF D.row[i].deleted
                        THEN Enqueued(WithRow(E, i, r), i, "delete", NoData, FALSE, v)
                        ELSE Enqueued(WithRow(E, i, r), i, "upsert", D.row[i].data, FALSE, v), i)
    BY <2>1 DEF KeepLocal
  <2> QED  BY <1>1, <2>2
<1>3. r \in LocalRow /\ r.ver >= 1
  <2>1. r = Based(D.row[i], v)
    BY DEF Based
  <2> HIDE DEF v, r
  <2> QED  BY <1>1, <2>1, BasedRow
<1>4. Touched(D, A, d, i, r, D.conf[i], FirstIds(A, i))
  <2> HIDE DEF r, v, act, data
  <2> QED  BY <1>1, <1>3, AgainTouched
<1>5. Touched(D, E, d, i, D.row[i], D.conf[i], {})
  BY <1>1, DropTouched
<1>6. Aged(A) /\ A \in DeviceState(d)
  <2> HIDE DEF A, r
  <2> QED  BY <1>3, <1>4, TouchedAged DEF Touched
<1>7. Aged(E) /\ E \in DeviceState(d)
  <2> HIDE DEF E
  <2>1. D.row[i].data # NoData /\ ~ D.row[i].deleted => D.row[i].ver >= 1
    BY DEF Aged, LiveRow, HasRow
  <2> QED  BY <1>5, <2>1, TouchedAged DEF Touched
<1>8. Aged(Resolved(G, i))
  <2> HIDE DEF A, E
  <2> QED  BY <1>6, <1>7, ResolvedAged
<1> QED  BY <1>2, <1>8

LEMMA TakeServerAged ==
  ASSUME NEW d, NEW D, Fine(D, d), Aged(D), NEW i \in Id
  PROVE  Aged(TakeServer(D, i))
<1> DEFINE s == D.conf[i].state
           q == IF s.ver = 0 THEN NoRow
                ELSE IF s.deleted \/ s.data = NoData
                THEN [ver |-> s.ver, sv |-> s.ver, deleted |-> TRUE, data |-> D.row[i].data]
                ELSE [ver |-> s.ver, sv |-> s.ver, deleted |-> FALSE, data |-> s.data]
           r == IF HasRow(D, i) THEN q ELSE D.row[i]
           G == DropOps(IF HasRow(D, i) THEN WithRow(D, i, q) ELSE D, i)
<1>1. /\ D \in DeviceState(d) /\ D.row[i] \in LocalRow /\ s \in Row
      /\ D.row[i].data \in Payload \cup {NoData}
  BY RowOf DEF Fine, DeviceState, LocalRow, ConflictRow
<1>2. TakeServer(D, i) = Resolved(G, i)
  BY DEF TakeServer
<1> HIDE DEF s
<1>3. q \in LocalRow /\ (q.data # NoData => q.ver >= 1)
  <2>1. s.ver \in Nat /\ s.data \in Payload \cup {NoData}
    BY <1>1 DEF Row
  <2>2. CASE s.ver = 0
    <3>1. q = NoRow
      BY <2>2
    <3> HIDE DEF q
    <3> QED  BY <3>1, NoRowFacts
  <2>3. CASE s.ver # 0
    <3>1. q \in LocalRow /\ q.ver = s.ver
      BY <1>1, <2>1, <2>3 DEF LocalRow
    <3> HIDE DEF q
    <3> QED  BY <2>1, <2>3, <3>1
  <2> QED  BY <2>2, <2>3
<1>4. Touched(D, G, d, i, r, D.conf[i], {})
  <2>1. CASE HasRow(D, i)
    <3> HIDE DEF q
    <3> QED  BY <1>1, <1>3, <2>1, SettledTouched
  <2>2. CASE ~ HasRow(D, i)
    <3>1. G = DropOps(D, i)
      BY <2>2
    <3> HIDE DEF G
    <3>2. Touched(D, G, d, i, D.row[i], D.conf[i], {})
      BY <1>1, <3>1, DropTouched
    <3> QED  BY <2>2, <3>2
  <2> QED  BY <2>1, <2>2
<1>5. r.data # NoData /\ ~ r.deleted => r.ver >= 1
  <2> HIDE DEF q
  <2> QED  BY <1>3 DEF Aged, LiveRow, HasRow
<1> HIDE DEF G, r
<1>6. Aged(G) /\ G \in DeviceState(d)
  BY <1>4, <1>5, TouchedAged DEF Touched
<1> QED  BY <1>2, <1>6, ResolvedAged

\* A row written over another, as push results and pulled changes do.
LEMMA WithRowAged ==
  ASSUME NEW d, NEW D \in DeviceState(d), Aged(D), NEW i \in Id, NEW r \in LocalRow,
         r.data # NoData /\ ~ r.deleted => r.ver >= 1
  PROVE  Aged(WithRow(D, i, r)) /\ Aged(DropOps(WithRow(D, i, r), i))
<1>1. /\ Touched(D, WithRow(D, i, r), d, i, r, D.conf[i], FirstIds(D, i))
      /\ Touched(D, DropOps(WithRow(D, i, r), i), d, i, r, D.conf[i], {})
  BY WithRowTouched, SettledTouched
<1>2. Aged(WithRow(D, i, r))
  BY <1>1, TouchedAged
<1>3. Aged(DropOps(WithRow(D, i, r), i))
  BY <1>1, TouchedAged
<1> QED  BY <1>2, <1>3

LEMMA RecordingAged ==
  ASSUME NEW d, NEW D \in DeviceState(d), Aged(D), NEW i, NEW kind, NEW state, NEW local
  PROVE  Aged(Recording(D, i, kind, state, local))
<1>1. Recording(D, i, kind, state, local).row = D.row
  BY DEF Recording, DeviceState
<1> QED  BY <1>1, SameRowsAged

LEMMA DeleteWinsAged ==
  ASSUME NEW d, NEW D, Fine(D, d), Aged(D), NEW i \in Id, NEW v \in Nat
  PROVE  Aged(DeleteWins(D, i, v))
<1> DEFINE c == [kind |-> "deleted", state |-> [ver |-> v, deleted |-> TRUE, data |-> NoData],
                 local |-> D.row[i].data]
<1>1. PICK r : /\ Touched(D, DeleteWins(D, i, v), d, i, r, c, {})
               /\ HasRow(D, i) => r.deleted
               /\ ~ HasRow(D, i) => r = D.row[i]
  BY DeleteWinsTouched
<1> HIDE DEF c
<1>2. r.data # NoData /\ ~ r.deleted => r.ver >= 1
  BY <1>1 DEF HasRow
<1> QED  BY <1>1, <1>2, TouchedAged

LEMMA LocalDeleteWinsAged ==
  ASSUME NEW d, NEW D, Fine(D, d), Aged(D), NEW i \in Id, D.row[i].deleted,
         NEW state \in Row
  PROVE  Aged(LocalDeleteWins(D, i, state))
<1> DEFINE c == [kind |-> "deleted", state |-> state, local |-> state.data]
<1>1. PICK r : /\ Touched(D, LocalDeleteWins(D, i, state), d, i, r, c, {})
               /\ r.deleted
  BY LocalDeleteWinsTouched
<1> HIDE DEF c
<1> QED  BY <1>1, TouchedAged

\* A pulled change has a version, and so has the row it becomes.
LEMMA ChangeAged ==
  ASSUME NEW d, NEW D, Fine(D, d), Aged(D), NEW ch \in PulledChange, ch.ver >= 1
  PROVE  Aged(ChangeTakenIn(D, ch))
<1> DEFINE i == ch.id
           r == D.row[i]
           E == ChangeTakenIn(D, ch)
           up == [ver |-> ch.ver, sv |-> ch.ver, deleted |-> FALSE, data |-> ch.data]
           dead == [ver |-> ch.ver, sv |-> ch.ver, deleted |-> TRUE, data |-> r.data]
           bad == [r EXCEPT !.ver = ch.ver, !.sv = ch.ver]
           state == StateOf(ch)
<1>1. /\ i \in Id /\ ch.ver \in Nat /\ ch.data \in Payload \cup {NoData}
      /\ r \in LocalRow /\ r.data \in Payload \cup {NoData} /\ D \in DeviceState(d)
  BY RowOf, NoRowFacts DEF PulledChange
<1>2. up \in LocalRow /\ up.ver >= 1 /\ dead \in LocalRow /\ dead.ver >= 1
  BY <1>1 DEF LocalRow
<1>3. bad \in LocalRow /\ bad.ver >= 1
  <2> HIDE DEF r
  <2> QED  BY <1>1 DEF LocalRow
<1>4. state \in Row
  BY <1>1 DEF StateOf, Row
<1>5. \/ E = D \/ E = WithRow(D, i, up) \/ E = WithRow(D, i, dead)
      \/ E = Recording(D, i, "version", state, r.data)
      \/ E = DropOps(WithRow(D, i, bad), i)
      \/ E = DeleteWins(D, i, ch.ver)
      \/ r.deleted /\ E = LocalDeleteWins(D, i, state)
  BY DEF ChangeTakenIn
<1> HIDE DEF up, dead, bad, state, i, E
<1>6. Aged(DeleteWins(D, i, ch.ver))
  BY <1>1, DeleteWinsAged
<1>7. /\ Aged(WithRow(D, i, up)) /\ Aged(WithRow(D, i, dead))
      /\ Aged(DropOps(WithRow(D, i, bad), i))
  BY <1>1, <1>2, <1>3, WithRowAged
<1>8. r.deleted => Aged(LocalDeleteWins(D, i, state))
  BY <1>1, <1>4, LocalDeleteWinsAged
<1>9. Aged(Recording(D, i, "version", state, r.data))
  BY <1>1, RecordingAged
<1>10. Aged(E)
  BY <1>5, <1>6, <1>7, <1>8, <1>9
<1> QED  BY <1>10 DEF E

\* A conflicting answer leaves a row of the version it had, or tells its own.
LEMMA ConflictedAged ==
  ASSUME NEW d, NEW D, Fine(D, d), Aged(D), NEW w, NEW a, w.id \in Id, a.state \in Row
  PROVE  Aged(Conflicted(D, w, a))
<1> DEFINE i == w.id
           v == a.state.ver
           r == [ver |-> v, sv |-> v, deleted |-> FALSE, data |-> a.state.data]
           G == Recording(D, i, "version", a.state, D.row[i].data)
<1>1. v \in Nat /\ D \in DeviceState(d) /\ a.state.data \in Payload \cup {NoData}
  BY DEF Row, Fine
<1>2. Aged(DeleteWins(D, i, v)) /\ Aged(G)
  BY <1>1, DeleteWinsAged, RecordingAged
<1>3. CASE Adoptable(w, a)
  <2>1. r \in LocalRow /\ r.ver >= 1
    BY <1>1, <1>3 DEF Adoptable, LocalRow
  <2>2. Conflicted(D, w, a) = DropOps(IF HasRow(D, i) THEN WithRow(D, i, r) ELSE D, i)
    BY <1>3 DEF Conflicted
  <2> HIDE DEF r
  <2>3. Aged(DropOps(WithRow(D, i, r), i))
    BY <1>1, <2>1, WithRowAged
  <2>4. Aged(DropOps(D, i))
    <3>1. DropOps(D, i).row = D.row
      BY <1>1 DEF DropOps, DeviceState
    <3> QED  BY <3>1, SameRowsAged
  <2> QED  BY <2>2, <2>3, <2>4
<1>4. CASE ~ Adoptable(w, a)
  <2>1. Conflicted(D, w, a) \in {DeleteWins(D, i, v), G}
    BY <1>4 DEF Conflicted
  <2> HIDE DEF G
  <2> QED  BY <1>2, <2>1
<1> QED  BY <1>3, <1>4

\* A confirmation sets the version after the base of the operation.
LEMMA ConfirmedAged ==
  ASSUME NEW d, NEW D, Fine(D, d), Aged(D), NEW opId, NEW v \in Nat,
         \A k \in DOMAIN D.out : D.out[k].opId = opId =>
           /\ D.out[k].sent
           /\ D.out[k].action = "upsert" => v = D.out[k].base + 1
  PROVE  Aged(Confirmed(D, opId, v))
<1>1. CASE ~ \E k \in DOMAIN D.out : D.out[k].opId = opId
  BY <1>1 DEF Confirmed
<1>2. CASE \E k \in DOMAIN D.out : D.out[k].opId = opId
  <2> DEFINE k == CHOOSE k \in DOMAIN D.out : D.out[k].opId = opId
             i == D.out[k].id
             K == {j \in DOMAIN D.out : D.out[j].opId # opId}
             E == Without(D, K)
             r == [D.row[i] EXCEPT !.sv = v, !.ver = IF OpsOf(E, i) = {} THEN v ELSE @]
             G == WithRow(E, i, r)
  <2>1. Confirmed(D, opId, v) = IF ~ HasRow(D, i) THEN E ELSE G
    BY <1>2 DEF Confirmed, Without
  <2>2. k \in DOMAIN D.out /\ D.out[k].opId = opId
    BY <1>2
  <2> HIDE DEF k
  <2>3. D \in DeviceState(d) /\ D.out[k] \in PendingOp(d) /\ i \in Id
    BY <2>2, OutFacts DEF Fine, PendingOp
  <2> HIDE DEF i
  <2>4. k \in OpsOf(D, i)
    BY <2>2 DEF OpsOf, i
  <2>5. Sound(D, i) /\ D.row[i] \in LocalRow /\ D.row[i].ver \in Nat
    BY <2>3, RowOf
  <2>6. v >= 1 \/ D.row[i].deleted
    <3>1. CASE D.out[k].action = "upsert"
      <4>1. D.out[k].base \in Nat /\ v = D.out[k].base + 1
        BY <2>2, <2>3, <3>1 DEF PendingOp
      <4> QED  BY <4>1
    <3>2. CASE D.out[k].action = "delete"
      BY <2>4, <2>5, <3>2 DEF Sound
    <3> QED  BY <2>3, <3>1, <3>2 DEF PendingOp
  <2>7. K \in SUBSET (DOMAIN D.out)
    OBVIOUS
  <2> HIDE DEF K
  <2>8. Thinned(D, E, d, K)
    BY <2>3, <2>7, WithoutFacts
  <2> HIDE DEF E
  <2>9. E \in DeviceState(d) /\ E.row = D.row /\ Aged(E)
    BY <2>8, SameRowsAged DEF Thinned
  <2>10. /\ r \in LocalRow /\ r.data = D.row[i].data /\ r.deleted = D.row[i].deleted
         /\ r.ver \in {v, D.row[i].ver}
    <3> DEFINE m == IF OpsOf(E, i) = {} THEN v ELSE D.row[i].ver
               q == D.row[i]
    <3>1. m \in Nat /\ q \in LocalRow /\ m \in {v, q.ver}
      BY <2>5
    <3>2. r = [q EXCEPT !.sv = v, !.ver = m]
      OBVIOUS
    <3> HIDE DEF m, q, r
    <3>3. r \in LocalRow /\ r.ver = m /\ r.data = q.data /\ r.deleted = q.deleted
      BY <3>1, <3>2 DEF LocalRow
    <3> QED  BY <3>1, <3>3 DEF q
  <2> HIDE DEF r
  <2>11. r.data # NoData /\ ~ r.deleted => r.ver >= 1
    BY <2>3, <2>6, <2>10 DEF Aged, LiveRow, HasRow
  <2>12. Aged(G)
    BY <2>3, <2>9, <2>10, <2>11, WithRowAged
  <2> HIDE DEF G
  <2> QED  BY <2>1, <2>9, <2>12
<1> QED  BY <1>1, <1>2

\* The folds.
LEMMA PushTakenInAged ==
  ASSUME NEW d, NEW D, Fine(D, d), Aged(D), NEW batch, NEW answers, NEW n \in Nat,
         DOMAIN batch = 1..n,
         \A k \in 1..n :
           /\ batch[k].id \in Id /\ batch[k].opId[2] <= D.made
           /\ answers[k].ver \in Nat
           /\ answers[k].state \in Row /\ answers[k].state.data \in Data(batch[k].id)
           /\ answers[k].status = "applied" =>
                \A j \in DOMAIN D.out : D.out[j].opId = batch[k].opId =>
                  /\ D.out[j].sent
                  /\ D.out[j].action = "upsert" => answers[k].ver = D.out[j].base + 1
  PROVE  Aged(PushTakenIn(D, batch, answers))
<1> DEFINE X == {E \in DeviceState(d) : Leads(D, E, d, {}) /\ E.made = D.made /\ Aged(E)}
<1>1. D \in X /\ D \in DeviceState(d)
  BY LeadsSelf DEF Fine
<1>2. ASSUME NEW E \in X, NEW F, Leads(E, F, d, {}), F.made = E.made, Aged(F)  PROVE F \in X
  <2>1. Leads(D, F, d, {})
    BY <1>2, LeadsOn
  <2> QED  BY <1>2, <2>1 DEF Leads, Fine
<1>3. ASSUME NEW E \in X  PROVE Fine(E, d) /\ Follows(D, E) /\ Aged(E)
  BY DEF Leads
<1>x. Aged(PushTakenIn(D, batch, answers)) \/ PushTakenIn(D, batch, answers) \notin X
  OBVIOUS
<1> HIDE DEF X
<1>4. AllConflicted(D, batch, answers) \in X
  <2>1. ASSUME NEW E \in X, NEW k \in 1..n
        PROVE  Conflicted(E, batch[k], answers[k]) \in X
    <3>1. Aged(Conflicted(E, batch[k], answers[k]))
      BY <1>3, ConflictedAged
    <3> QED  BY <1>2, <1>3, <3>1, ConflictedFine, AnswerMakesNone DEF Fine
  <2> QED  BY <1>1, <2>1, ConflictsKeep
<1>5. \A E \in X : AllConfirmed(E, batch, answers) \in X
  <2>1. ASSUME NEW E \in X, NEW k \in 1..n, answers[k].status = "applied"
        PROVE  Confirmed(E, batch[k].opId, answers[k].ver) \in X
    <3>1. ASSUME NEW m \in DOMAIN E.out, E.out[m].opId = batch[k].opId
          PROVE  /\ E.out[m].sent
                 /\ E.out[m].action = "upsert" => answers[k].ver = E.out[m].base + 1
      <4>1. batch[k].opId[2] <= D.made /\ D.made \in Nat
        BY <1>1 DEF DeviceState
      <4>2. E \in DeviceState(d)
        BY <1>3 DEF Fine
      <4>3. E.out[m] \in PendingOp(d)
        BY <4>2, OutFacts
      <4>4. E.out[m].opId[2] \in Nat
        BY <4>3 DEF PendingOp
      <4>5. ~ (E.out[m].opId[2] > D.made)
        BY <3>1, <4>1, <4>4
      <4>6. PICK j \in DOMAIN D.out : SameOp(E.out[m], D.out[j])
        BY <1>3, <4>5 DEF Follows
      <4>7. D.out[j].opId = batch[k].opId
        BY <3>1, <4>6 DEF SameOp
      <4>8. /\ D.out[j].sent
            /\ D.out[j].action = "upsert" => answers[k].ver = D.out[j].base + 1
        BY <2>1, <4>7
      <4>9. D.out[j] \in PendingOp(d)
        BY <1>1, OutFacts
      <4>10. D.out[j].sent \in BOOLEAN /\ E.out[m].sent \in BOOLEAN
        BY <4>3, <4>9 DEF PendingOp
      <4> QED  BY <4>6, <4>8, <4>10 DEF SameOp
    <3>2. Leads(E, Confirmed(E, batch[k].opId, answers[k].ver), d, {})
      BY <1>3, <3>1, ConfirmedFine
    <3>3. Aged(Confirmed(E, batch[k].opId, answers[k].ver))
      BY <1>3, <3>1, ConfirmedAged
    <3>4. Confirmed(E, batch[k].opId, answers[k].ver).made = E.made
      BY <1>3, AnswerMakesNone DEF Fine
    <3> QED  BY <3>2, <3>3, <3>4, <1>2
  <2> QED  BY <2>1, ConfirmsKeep
<1>6. PushTakenIn(D, batch, answers) \in X
  BY <1>4, <1>5, InTwoPasses
<1> QED  BY <1>6, <1>x

\* A page, change by change.
LEMMA PageTakenInAged ==
  ASSUME NEW d, NEW D, Fine(D, d), Aged(D), NEW page, NEW n \in Nat, DOMAIN page = 1..n,
         \A k \in 1..n : /\ page[k] \in PulledChange /\ page[k].data \in Data(page[k].id)
                         /\ page[k].ver >= 1
  PROVE  Aged(PageTakenIn(D, page))
<1> DEFINE X == {E \in DeviceState(d) : Fine(E, d) /\ Aged(E)}
<1>1. D \in X
  BY DEF Fine
<1>2. ASSUME NEW E \in X, NEW k \in 1..n  PROVE ChangeTakenIn(E, page[k]) \in X
  <2>1. Leads(E, ChangeTakenIn(E, page[k]), d, {page[k].id})
    BY ChangeTakenInFine
  <2>2. Aged(ChangeTakenIn(E, page[k]))
    BY ChangeAged
  <2> QED  BY <2>1, <2>2 DEF Leads, Fine
<1>3. PageTakenIn(D, page) \in X
  <2> HIDE DEF X
  <2> QED  BY <1>1, <1>2, PageKeeps
<1> QED  BY <1>3

-----------------------------------------------------------------------------
(* The households on the server.                                           *)

\* Each is in order, and knows of ids in B only.
HouseholdsOK(S, B) ==
  /\ S \in [Household -> ServerState]
  /\ \A h \in Household : ServerOK(S[h]) /\ Counted(S[h]) /\ KnownTo(S[h]) \subseteq B

\* The row adoption deletes leaves a well-formed household.
LEMMA PurgedOK ==
  ASSUME NEW s, ServerOK(s), Counted(s), NEW D, NEW t, t = Purged(s, D)
  PROVE  /\ ServerOK(t) /\ Counted(t) /\ t.applied = s.applied
         /\ KnownTo(t) \subseteq KnownTo(s)
<1>0. /\ s.rec \in [Id -> Row] /\ s.log \in SUBSET Entry /\ s.seq \in Nat
      /\ s.applied \in [OpId -> Int] /\ IsFiniteSet(s.log)
  BY DEF ServerOK, ServerState
<1>1. /\ t.rec = [i \in Id |-> IF i \in D THEN Absent ELSE s.rec[i]]
      /\ t.log = s.log /\ t.seq = s.seq /\ t.applied = s.applied
      /\ t = [rec |-> t.rec, log |-> t.log, seq |-> t.seq, applied |-> t.applied]
  BY DEF Purged
<1>2. Absent \in Row /\ \A i \in Id : Absent.data \in Data(i)
  BY NoRowFacts DEF Absent
<1>3. \A i \in Id : t.rec[i] \in Row /\ t.rec[i].data \in Data(i)
  BY <1>0, <1>1, <1>2 DEF ServerOK
<1>4. t.rec \in [Id -> Row]
  BY <1>1, <1>3
<1>5. t \in ServerState
  BY <1>0, <1>1, <1>4 DEF ServerState
<1>6. KnownTo(t) \subseteq KnownTo(s)
  <2>1. \A i \in Id : Found(t, i) => Found(s, i)
    BY <1>1 DEF Found, Absent
  <2> QED  BY <1>1, <2>1 DEF KnownTo
<1> QED  BY <1>0, <1>1, <1>3, <1>5, <1>6 DEF ServerOK, Counted

\* One operation, without the record of operation ids, as others push it.
LEMMA PerformFine ==
  ASSUME NEW s, ServerOK(s), Counted(s), NEW w, Sensible(w), NEW order \in Orders,
         NEW o, o = Perform(s, w, order)
  PROVE  /\ ServerOK(o.srv) /\ Counted(o.srv) /\ o.srv.applied = s.applied
         /\ Answers(o.answer, w) /\ KnownTo(o.srv) \subseteq KnownTo(s) \cup {w.id}
<1>1. Moves(s, o.srv, {w.id}) /\ Answers(o.answer, w)
  BY UpsertMoves, DeleteMoves DEF Perform, Sensible
<1>2. Counted(o.srv)
  BY UpsertCounts, DeleteCounts DEF Perform, Sensible
<1> QED  BY <1>1, <1>2 DEF Moves

\* An operation that is replayed or applied logs versions from 1.
LEMMA ApplyCounts ==
  ASSUME NEW s, ServerOK(s), Counted(s), NEW w, Valid(w), NEW order \in Orders
  PROVE  Counted(Apply(s, w, order).srv)
<1> DEFINE o == Perform(s, w, order)
<1>1. Counted(o.srv)
  BY PerformFine DEF Valid, Sensible
<1>2. \/ Apply(s, w, order).srv \in {s, o.srv}
      \/ Apply(s, w, order).srv = Recorded(o.srv, w.opId, o.answer.ver)
  BY DEF Apply, Outcome
<1>3. Recorded(o.srv, w.opId, o.answer.ver).log = o.srv.log
  BY DEF Recorded
<1> HIDE DEF o
<1> QED  BY <1>1, <1>2, <1>3 DEF Counted

\* A batch on its way through the server.
Underway ==
  [srv : [Household -> ServerState], answers : Seq(Answer), ok : BOOLEAN,
   blocked : BOOLEAN, robbed : SUBSET Household]

\* What one operation w adds to it, of which the household h itself would make
\* the outcome o.
Adds(a, r, h, w, o, B) ==
  /\ r \in Underway /\ HouseholdsOK(r.srv, B)
  /\ \A g \in Household \ {h} : r.srv[g].applied = a.srv[g].applied
  /\ r.srv[h].applied \in {a.srv[h].applied, o.srv.applied}
  /\ ~ a.ok => r = a
  /\ a.ok /\ r.ok => \E x : Answers(x, w) /\ r.answers = Append(a.answers, x)

\* What a create of a record of another household is answered is an answer.
LEMMA BlockedAnswers ==
  ASSUME NEW s, ServerOK(s), NEW w, Sensible(w)
  PROVE  Answers(Blocked(s, w.id), w)
<1> DEFINE st == [s.rec[w.id] EXCEPT !.data = NoData]
<1>1. w.id \in Id /\ s.rec[w.id] \in Row /\ NoData \in Data(w.id)
  BY NoRowFacts DEF Sensible, ServerOK, ServerState
<1>2. st \in Row /\ st.data = NoData
  <2> DEFINE q == s.rec[w.id]
  <2>1. q \in Row /\ st = [q EXCEPT !.data = NoData]
    BY <1>1
  <2> HIDE DEF q, st
  <2> QED  BY <2>1 DEF Row
<1>3. Blocked(s, w.id) =
        [status |-> "conflict", code |-> "SYNC_ALREADY_EXISTS", ver |-> 0, state |-> st]
  BY DEF Blocked
<1> HIDE DEF st
<1>4. Blocked(s, w.id) \in Answer
  BY <1>2, <1>3 DEF Answer
<1> QED  BY <1>1, <1>2, <1>3, <1>4 DEF Answers

\* Applied, blocked, adopted or refused: a batch goes on well-formed, and only the
\* household it is for records operation ids.
LEMMA PushedAdds ==
  ASSUME NEW B, NEW a \in Underway, HouseholdsOK(a.srv, B), NEW h \in Household,
         NEW w, Sensible(w), NEW o, ServerOK(o.srv), Counted(o.srv), Answers(o.answer, w),
         KnownTo(o.srv) \subseteq B, NEW r, r = Pushed(a, h, w, o)
  PROVE  Adds(a, r, h, w, o, B)
<1> DEFINE S == a.srv
           E == IF w.action = "upsert" /\ ~ Found(S[h], w.id) /\ Found(o.srv, w.id)
                THEN Elsewhere(S, h, w.id) ELSE {}
           g == CHOOSE g \in E : TRUE
           T == [S EXCEPT ![h] = o.srv]
           P == Purged(S[g], {w.id})
           U == [S EXCEPT ![h] = o.srv, ![g] = Purged(@, {w.id})]
           held == Blocked(S[g], w.id)
           Answered(V, x) == [a EXCEPT !.srv = V, !.answers = Append(@, x)]
<1>1. r = IF ~ a.ok THEN a
          ELSE IF E = {} THEN Answered(T, o.answer)
          ELSE IF Keeps(g) THEN [Answered(S, held) EXCEPT !.blocked = TRUE]
          ELSE IF Referred(S, w.id) THEN [a EXCEPT !.ok = FALSE]
          ELSE [Answered(U, o.answer) EXCEPT !.robbed = @ \cup {g}]
  BY DEF Pushed
<1>2. /\ S \in [Household -> ServerState] /\ a.answers \in Seq(Answer)
      /\ a.ok \in BOOLEAN /\ a.blocked \in BOOLEAN /\ a.robbed \in SUBSET Household
      /\ a = [srv |-> S, answers |-> a.answers, ok |-> a.ok, blocked |-> a.blocked,
              robbed |-> a.robbed]
  BY DEF Underway
<1>3. E # {} => g \in E /\ g \in Household /\ g # h
  BY DEF Elsewhere
<1> HIDE DEF S, E, g
<1>4. T \in [Household -> ServerState] /\ HouseholdsOK(T, B)
      /\ (\A x \in Household : T[x] = IF x = h THEN o.srv ELSE S[x])
  BY <1>2 DEF HouseholdsOK, ServerOK, S
<1>5. ASSUME E # {}
      PROVE  /\ U \in [Household -> ServerState] /\ HouseholdsOK(U, B)
             /\ \A x \in Household : U[x].applied = IF x = h THEN o.srv.applied ELSE S[x].applied
  <2>1. ServerOK(P) /\ Counted(P) /\ P.applied = S[g].applied /\ KnownTo(P) \subseteq B
    BY <1>3, <1>5, PurgedOK DEF HouseholdsOK, S
  <2>2. U = [T EXCEPT ![g] = P]
    BY <1>2, <1>3, <1>5
  <2> HIDE DEF P, T, U
  <2>3. \A x \in Household : U[x] = IF x = g THEN P ELSE T[x]
    BY <1>4, <2>2
  <2>4. U \in [Household -> ServerState]
    BY <1>4, <2>1, <2>2 DEF ServerOK
  <2> QED  BY <1>3, <1>4, <1>5, <2>1, <2>3, <2>4 DEF HouseholdsOK
<1>6. E # {} => Answers(held, w)
  BY <1>3, BlockedAnswers DEF HouseholdsOK, S
<1>7. o.answer \in Answer /\ (E # {} => held \in Answer)
  BY <1>6 DEF Answers
<1>8. HouseholdsOK(S, B)
  BY DEF S
<1> HIDE DEF T, U, held
<1>9. CASE ~ a.ok
  BY <1>1, <1>8, <1>9 DEF Adds, S
<1>10. CASE a.ok /\ E = {}
  <2>1. /\ r = [srv |-> T, answers |-> Append(a.answers, o.answer), ok |-> a.ok,
                blocked |-> a.blocked, robbed |-> a.robbed]
    BY <1>1, <1>2, <1>10
  <2>2. r \in Underway
    BY <1>2, <1>4, <1>7, <2>1 DEF Underway
  <2>3. r.srv = T /\ r.answers = Append(a.answers, o.answer)
    BY <2>1
  <2>4. r.srv[h].applied = o.srv.applied /\ \A x \in Household \ {h} : r.srv[x] = S[x]
    BY <1>4, <2>3
  <2> QED  BY <1>4, <1>10, <2>2, <2>3, <2>4 DEF Adds, S
<1>11. CASE a.ok /\ E # {} /\ Keeps(g)
  <2>1. r = [srv |-> S, answers |-> Append(a.answers, held), ok |-> a.ok,
             blocked |-> TRUE, robbed |-> a.robbed]
    BY <1>1, <1>2, <1>11
  <2>2. r \in Underway
    BY <1>2, <1>7, <1>11, <2>1 DEF Underway
  <2>3. r.srv = S /\ r.answers = Append(a.answers, held)
    BY <2>1
  <2> QED  BY <1>6, <1>8, <1>11, <2>2, <2>3 DEF Adds, S
<1>12. CASE a.ok /\ E # {} /\ ~ Keeps(g) /\ Referred(S, w.id)
  <2>0. r = [a EXCEPT !.ok = FALSE]
    BY <1>1, <1>12
  <2>1. FALSE \in BOOLEAN
    OBVIOUS
  <2>2. r \in Underway
    BY <2>0, <2>1 DEF Underway
  <2>3. r.srv = S /\ ~ r.ok
    BY <2>0 DEF Underway, S
  <2> QED  BY <1>8, <1>12, <2>2, <2>3 DEF Adds, S
<1>13. CASE a.ok /\ E # {} /\ ~ Keeps(g) /\ ~ Referred(S, w.id)
  <2>1. r = [srv |-> U, answers |-> Append(a.answers, o.answer), ok |-> a.ok,
             blocked |-> a.blocked, robbed |-> a.robbed \cup {g}]
    BY <1>1, <1>2, <1>13
  <2>2. r \in Underway
    BY <1>2, <1>3, <1>5, <1>7, <1>13, <2>1 DEF Underway
  <2>3. r.srv = U /\ r.answers = Append(a.answers, o.answer)
    BY <2>1
  <2>4. r.srv[h].applied = o.srv.applied
        /\ \A x \in Household \ {h} : r.srv[x].applied = S[x].applied
    BY <1>5, <1>13, <2>3
  <2> QED  BY <1>5, <1>13, <2>2, <2>3, <2>4 DEF Adds, S
<1> QED  BY <1>2, <1>9, <1>10, <1>11, <1>12, <1>13

\* What a batch, or the first operations of one, has made of the households S.
Serves(S, T, batch, n) ==
  \A h \in Household :
    /\ \A o \in OpId :
         (\A k \in 1..n : batch[k].opId # o) => T[h].applied[o] = S[h].applied[o]
    /\ \A k \in 1..n : batch[k].action = "upsert" => AppliedTo(T[h], batch[k])

\* The operations of a batch, well-formed, of known records, those under one id
\* the same.
Sendable(batch, n, B) ==
  /\ n \in Nat /\ DOMAIN batch = 1..n
  /\ \A k \in 1..n : Valid(batch[k]) /\ batch[k].id \in B
  /\ \A j, k \in 1..n : batch[j].opId = batch[k].opId =>
       /\ batch[j].id = batch[k].id /\ batch[j].action = batch[k].action
       /\ batch[j].base = batch[k].base

\* What the operation w makes of a batch on its way.
Grows(S, a, r, w, batch, n, B) ==
  /\ r \in Underway /\ HouseholdsOK(r.srv, B) /\ Serves(S, r.srv, batch, n)
  /\ ~ a.ok => r = a
  /\ a.ok /\ r.ok => \E x : Answers(x, w) /\ r.answers = Append(a.answers, x)

\* The same for an operation of the batch itself.
LEMMA PushedServes ==
  ASSUME NEW S, NEW B, NEW a \in Underway, HouseholdsOK(a.srv, B), NEW h \in Household,
         NEW batch, NEW n, Sendable(batch, n, B), Serves(S, a.srv, batch, n),
         NEW k \in 1..n, NEW order \in Orders,
         NEW o, o = Apply(a.srv[h], batch[k], order), NEW r, r = Pushed(a, h, batch[k], o)
  PROVE  Grows(S, a, r, batch[k], batch, n, B)
<1> DEFINE w == batch[k]
           s == a.srv[h]
<1>1. /\ Valid(w) /\ w.id \in B /\ ServerOK(s) /\ Counted(s) /\ KnownTo(s) \subseteq B
      /\ w.action = "upsert" => AppliedTo(s, w)
  BY DEF Sendable, HouseholdsOK, Serves
<1>2. ApplyMoves(s, o.srv, o.answer, w) /\ Counted(o.srv)
  BY <1>1, ApplyFine, ApplyCounts
<1>3. ServerOK(o.srv) /\ Answers(o.answer, w) /\ KnownTo(o.srv) \subseteq B /\ Sensible(w)
  BY <1>1, <1>2 DEF ApplyMoves, Valid, Sensible
<1>4. Adds(a, r, h, w, o, B)
  BY <1>2, <1>3, PushedAdds
<1>5. ASSUME NEW g \in Household
      PROVE  \/ r.srv[g].applied = a.srv[g].applied
             \/ g = h /\ r.srv[g].applied = o.srv.applied
  BY <1>4 DEF Adds
<1>6. ASSUME NEW x \in OpId, x # w.opId
      PROVE  o.srv.applied[x] = s.applied[x]
  BY <1>2, <1>6 DEF ApplyMoves
<1>7. ASSUME NEW g \in Household, NEW x \in OpId, \A j \in 1..n : batch[j].opId # x
      PROVE  r.srv[g].applied[x] = S[g].applied[x]
  <2>1. a.srv[g].applied[x] = S[g].applied[x] /\ x # w.opId
    BY <1>7 DEF Serves
  <2> HIDE DEF w
  <2> QED  BY <2>1, <1>5, <1>6
<1>8. ASSUME NEW g \in Household, NEW j \in 1..n, batch[j].action = "upsert"
      PROVE  AppliedTo(r.srv[g], batch[j])
  <2>1. AppliedTo(a.srv[g], batch[j]) /\ batch[j].opId \in OpId
    BY <1>8 DEF Serves, Sendable, Valid
  <2>2. CASE r.srv[g].applied = a.srv[g].applied
    BY <2>1, <2>2 DEF AppliedTo
  <2>3. CASE g = h /\ r.srv[g].applied = o.srv.applied
    <3>1. CASE batch[j].opId = w.opId
      <4>1. w.action = "upsert" /\ w.base = batch[j].base
        BY <3>1, <1>8 DEF Sendable
      <4>2. AppliedTo(o.srv, w)
        BY <4>1, <1>2 DEF ApplyMoves
      <4> QED  BY <2>3, <3>1, <4>1, <4>2 DEF AppliedTo
    <3>2. CASE batch[j].opId # w.opId
      <4>1. o.srv.applied[batch[j].opId] = s.applied[batch[j].opId]
        BY <2>1, <3>2, <1>6
      <4> QED  BY <2>1, <2>3, <4>1 DEF AppliedTo
    <3> QED  BY <3>1, <3>2
  <2> QED  BY <2>2, <2>3, <1>5
<1>9. Serves(S, r.srv, batch, n)
  BY <1>7, <1>8 DEF Serves
<1> QED  BY <1>4, <1>9 DEF Adds, Grows

\* The answers a, as far as there are any, are answers to the operations.
Answering(a, batch) ==
  a \in Seq(Answer) /\ \A j \in 1..Len(a) : Answers(a[j], batch[j])

\* One answer more.
LEMMA AnsweringOn ==
  ASSUME NEW a, NEW batch, Answering(a, batch), NEW x, Answers(x, batch[Len(a) + 1])
  PROVE  Answering(Append(a, x), batch) /\ Len(Append(a, x)) = Len(a) + 1
<1>1. a \in Seq(Answer) /\ x \in Answer /\ Len(a) \in Nat
  BY DEF Answering, Answers
<1> DEFINE b == Append(a, x)
<1>2. b \in Seq(Answer) /\ Len(b) = Len(a) + 1 /\ (\A j \in 1..Len(a) : b[j] = a[j])
      /\ b[Len(a) + 1] = x
  BY <1>1
<1> HIDE DEF b
<1>3. \A j \in 1..Len(b) : j \in 1..Len(a) \/ j = Len(a) + 1
  BY <1>1, <1>2
<1>4. Answering(b, batch)
  BY <1>2, <1>3 DEF Answering
<1> QED  BY <1>2, <1>4 DEF b

\* A batch before its first operation, and after one that failed.
LEMMA UntouchedFacts ==
  ASSUME NEW B, HouseholdsOK(srv, B), robbed \subseteq Household
  PROVE  /\ Untouched \in Underway /\ Untouched.srv = srv /\ Untouched.answers = <<>>
         /\ [Untouched EXCEPT !.ok = FALSE] \in Underway
         /\ [Untouched EXCEPT !.ok = FALSE].srv = srv
         /\ ~ [Untouched EXCEPT !.ok = FALSE].ok
<1>1. srv \in [Household -> ServerState] /\ robbed \in SUBSET Household
      /\ <<>> \in Seq(Answer)
  BY DEF HouseholdsOK
<1> QED  BY <1>1 DEF Untouched, Underway

\* A batch is as its operations leave it, one after the other: what each of the
\* sets X and Y[k] is closed under holds of it, or of nothing done at all.
LEMMA BatchClimbs ==
  ASSUME NEW h, NEW batch, NEW n \in Nat, DOMAIN batch = 1..n, NEW order,
         NEW X, NEW Y, Untouched \in X, Untouched \in Y[0],
         \A a \in X : \A k \in 1..n :
           LET r == Pushed(a, h, batch[k], Apply(a.srv[h], batch[k], order))
           IN  r \in X /\ (a \in Y[k - 1] => r \in Y[k])
  PROVE  \/ Batch(h, batch, order) = [Untouched EXCEPT !.ok = FALSE]
         \/ /\ Batch(h, batch, order).ok
            /\ Batch(h, batch, order) \in X /\ Batch(h, batch, order) \in Y[n]
<1> DEFINE base == Untouched
           op(a, w) == Pushed(a, h, w, Apply(a.srv[h], w, order))
           step == [p \in X \X (1..n) |-> op(p[1], batch[p[2]])]
           Iter(g) == g = [t \in SUBSET (DOMAIN batch) |->
                             IF t = {} THEN base ELSE op(g[t \ {Max(t)}], batch[Max(t)])]
           iter == CHOOSE g : Iter(g)
           all == FoldLeft(LAMBDA b, w : Pushed(b, h, w, Apply(b.srv[h], w, order)),
                           Untouched, batch)
<1>1. all = iter[DOMAIN batch]
  BY DEF FoldLeft, MapThenFoldSet
<1>2. base \in X /\ base \in Y[0]
  OBVIOUS
<1>3. ASSUME NEW a \in X, NEW k \in 1..n
      PROVE  op(a, batch[k]) \in X /\ (a \in Y[k - 1] => op(a, batch[k]) \in Y[k])
  OBVIOUS
<1>12. Batch(h, batch, order) = IF all.ok THEN all ELSE [base EXCEPT !.ok = FALSE]
  BY DEF Batch, all, base
<1> HIDE DEF base, op, all
<1>4. step \in [X \X (1..n) -> X] /\ \A a \in X : \A k \in 1..n :
        step[<<a, k>>] = op(a, batch[k])
  BY <1>3
<1> HIDE DEF step
<1>5. \E g : Iter(g)
  <2>1. PICK f \in [SUBSET (1..n) -> X] : Iterates(f, n, base, step)
    BY <1>2, <1>4, IterExists
  <2>2. \A t \in SUBSET (1..n) :
          f[t] = IF t = {} THEN base ELSE step[<<f[t \ {Max(t)}], Max(t)>>]
    BY <2>1 DEF Iterates
  <2>3. ASSUME NEW t \in SUBSET (1..n), t # {}
        PROVE  step[<<f[t \ {Max(t)}], Max(t)>>] = op(f[t \ {Max(t)}], batch[Max(t)])
    <3>1. Max(t) \in 1..n
      BY <2>3, MaxFacts
    <3>2. f[t \ {Max(t)}] \in X
      BY <2>1
    <3> QED  BY <3>1, <3>2, <1>4
  <2>4. \A t \in SUBSET (1..n) :
          f[t] = IF t = {} THEN base ELSE op(f[t \ {Max(t)}], batch[Max(t)])
    BY <2>2, <2>3
  <2>5. f = [t \in SUBSET (1..n) |-> f[t]]
    BY <2>1
  <2>6. f = [t \in SUBSET (DOMAIN batch) |->
               IF t = {} THEN base ELSE op(f[t \ {Max(t)}], batch[Max(t)])]
    BY <2>4, <2>5
  <2>7. Iter(f)
    BY <2>6
  <2> QED
    <3> HIDE DEF Iter
    <3> QED  BY <2>7
<1>6. Iter(iter)
  <2> HIDE DEF Iter
  <2> QED  BY <1>5
<1> HIDE DEF iter
<1>7. \A t \in SUBSET (1..n) :
        iter[t] = IF t = {} THEN base ELSE op(iter[t \ {Max(t)}], batch[Max(t)])
  BY <1>6
<1> DEFINE Z == [k \in 0..n |-> X \cap Y[k]]
<1>8. iter[{}] \in Z[0]
  <2>1. {} \in SUBSET (1..n) /\ 0 \in 0..n
    OBVIOUS
  <2>2. iter[{}] = base
    BY <1>7, <2>1
  <2> QED  BY <2>1, <2>2, <1>2
<1>9. ASSUME NEW k \in Nat, k + 1 <= n, iter[1..k] \in Z[k]
      PROVE  iter[1..(k + 1)] \in Z[k + 1]
  <2>1. /\ 1..(k + 1) \in SUBSET (1..n) /\ 1..(k + 1) # {}
        /\ (1..(k + 1)) \ {k + 1} = 1..k /\ k + 1 \in 1..n
        /\ Max(1..(k + 1)) = k + 1
    BY <1>9, Prefix
  <2>2. iter[1..(k + 1)] = op(iter[1..k], batch[k + 1])
    BY <1>7, <2>1
  <2>3. k \in 0..n /\ k + 1 \in 0..n /\ (k + 1) - 1 = k
    BY <1>9
  <2>4. iter[1..k] \in X /\ iter[1..k] \in Y[k]
    BY <1>9, <2>3
  <2>5. op(iter[1..k], batch[k + 1]) \in X /\ op(iter[1..k], batch[k + 1]) \in Y[k + 1]
    BY <1>3, <2>1, <2>3, <2>4
  <2> QED  BY <2>2, <2>3, <2>5
<1>10. iter[1..n] \in Z[n]
  <2> HIDE DEF Z
  <2> QED  BY <1>8, <1>9, Climbs
<1>11. all \in X /\ all \in Y[n]
  BY <1>1, <1>10
<1> QED  BY <1>11, <1>12 DEF base

\* A batch leaves every household well-formed, and answers each operation or
\* none.
LEMMA BatchFine ==
  ASSUME NEW B, HouseholdsOK(srv, B), robbed \subseteq Household, NEW h \in Household,
         NEW batch, NEW n, Sendable(batch, n, B),
         \A g \in Household, k \in 1..n :
           batch[k].action = "upsert" => AppliedTo(srv[g], batch[k]),
         NEW order \in Orders, NEW r, r = Batch(h, batch, order)
  PROVE  /\ r \in Underway /\ HouseholdsOK(r.srv, B) /\ Serves(srv, r.srv, batch, n)
         /\ r.ok => Len(r.answers) = n /\ Answering(r.answers, batch)
<1> DEFINE X == {a \in Underway : HouseholdsOK(a.srv, B) /\ Serves(srv, a.srv, batch, n)}
           Y == [k \in 0..n |-> {a \in X : a.ok => Len(a.answers) = k
                                                   /\ Answering(a.answers, batch)}]
           none == [Untouched EXCEPT !.ok = FALSE]
<1>1. n \in Nat /\ DOMAIN batch = 1..n
  BY DEF Sendable
<1>2. Serves(srv, srv, batch, n)
  BY DEF Serves
<1>3. Untouched \in X /\ Untouched \in Y[0]
  <2>1. <<>> \in Seq(Answer) /\ Len(<<>>) = 0 /\ Answering(<<>>, batch) /\ 0 \in 0..n
    BY <1>1 DEF Answering
  <2> QED  BY <1>2, <2>1, UntouchedFacts
<1>4. ASSUME NEW a \in X, NEW k \in 1..n, NEW o, o = Apply(a.srv[h], batch[k], order),
             NEW c, c = Pushed(a, h, batch[k], o)
      PROVE  c \in X /\ (a \in Y[k - 1] => c \in Y[k])
  <2>1. a \in Underway /\ HouseholdsOK(a.srv, B) /\ Serves(srv, a.srv, batch, n)
    OBVIOUS
  <2> HIDE DEF X
  <2>2. Grows(srv, a, c, batch[k], batch, n, B)
    BY <2>1, <1>4, PushedServes
  <2>3. /\ c \in Underway /\ HouseholdsOK(c.srv, B) /\ Serves(srv, c.srv, batch, n)
        /\ ~ a.ok => c = a
        /\ a.ok /\ c.ok => \E x : Answers(x, batch[k]) /\ c.answers = Append(a.answers, x)
    BY <2>2 DEF Grows
  <2>4. c \in X
    BY <2>3 DEF X
  <2>5. ASSUME a \in Y[k - 1]  PROVE c \in Y[k]
    <3>1. k - 1 \in 0..n /\ k \in 0..n /\ (k - 1) + 1 = k
      BY <1>1
    <3>2. a.ok => Len(a.answers) = k - 1 /\ Answering(a.answers, batch)
      BY <2>5, <3>1
    <3>3. ASSUME c.ok  PROVE Len(c.answers) = k /\ Answering(c.answers, batch)
      <4>1. a.ok
        BY <2>3, <3>3
      <4>2. PICK x : Answers(x, batch[k]) /\ c.answers = Append(a.answers, x)
        BY <2>3, <3>3, <4>1
      <4> QED  BY <3>1, <3>2, <4>1, <4>2, AnsweringOn
    <3> QED  BY <2>4, <3>1, <3>3
  <2> QED  BY <2>4, <2>5
<1>5. r = none \/ (r.ok /\ r \in X /\ r \in Y[n])
  <2>1. \A a \in X : \A k \in 1..n :
          LET c == Pushed(a, h, batch[k], Apply(a.srv[h], batch[k], order))
          IN  c \in X /\ (a \in Y[k - 1] => c \in Y[k])
    <3> HIDE DEF X, Y
    <3> QED  BY <1>4
  <2> HIDE DEF X, Y, none
  <2> QED  BY <1>1, <1>3, <2>1, BatchClimbs DEF none
<1>6. CASE r = none
  BY <1>2, <1>6, UntouchedFacts
<1>7. CASE r.ok /\ r \in X /\ r \in Y[n]
  <2>1. n \in 0..n
    BY <1>1
  <2> QED  BY <1>7, <2>1
<1> QED  BY <1>5, <1>6, <1>7

-----------------------------------------------------------------------------
(* What holds of a device d: its database D, the request N its engine      *)
(* awaits and the late push L, against the households S and the ids b      *)
(* generated so far.                                                       *)

\* The requests of the device d.
RequestOf(d) ==
  [phase : {"idle", "push", "pushed", "refused", "pull", "pulled"},
   batch : Seq(WireOp(d)), answers : Seq(Answer), page : Seq(PulledChange),
   who : User \cup {NoUser}, under : Household \cup {NoHousehold}, cursor : Nat,
   at : Household \cup {NoHousehold}, stale : BOOLEAN]

\* The operations under way.
Wires(N, L) == Range(N.batch) \cup Range(L.batch)

\* An operation under way was sent by the device, and is what the device holds
\* under its id, if it still holds it.
SentAsIs(D, w) ==
  /\ Valid(w) /\ w.opId[2] \in 1..D.made
  /\ \A k \in DOMAIN D.out : D.out[k].opId = w.opId =>
       LET o == D.out[k]
       IN  o.sent /\ o.id = w.id /\ o.action = w.action /\ o.base = w.base

\* Whichever household has applied an upsert of the device has answered it with
\* the version after its base; and none has applied what was never sent.
SeenByServer(d, D, N, L, s) ==
  /\ \A w \in Wires(N, L) : w.action = "upsert" => AppliedTo(s, w)
  /\ \A k \in DOMAIN D.out :
       LET o == D.out[k]
       IN  /\ ~ o.sent => s.applied[o.opId] = NotApplied
           /\ o.sent /\ o.action = "upsert" => AppliedTo(s, o)
  /\ \A n \in 1..MaxOps : n > D.made => s.applied[<<d, n>>] = NotApplied

\* The results of a push answer its operations one by one.
AsAnswered(N) ==
  N.phase = "pushed" =>
    /\ DOMAIN N.answers = DOMAIN N.batch
    /\ \A k \in DOMAIN N.batch : Answers(N.answers[k], N.batch[k])

\* The records the device has, or has sent, are ids that were generated.
Heard(D, N, L, b) ==
  /\ \A i \in Id : HasRow(D, i) => i \in b
  /\ \A w \in Wires(N, L) : w.id \in b

\* A pulled change makes sense.
Tells(ch, b) == ch.id \in b /\ ch.data \in Data(ch.id) /\ ch.ver >= 1

\* The invariant of one device.
DeviceOK(d, D, N, L, S, b) ==
  /\ Fine(D, d) /\ Aged(D) /\ D.made <= MaxOps
  /\ N \in RequestOf(d) /\ L \in RequestOf(d)
  /\ \A k \in DOMAIN N.page : Tells(N.page[k], b)
  /\ \A w \in Wires(N, L) : SentAsIs(D, w)
  /\ \A v, w \in Wires(N, L) : v.opId = w.opId =>
       v.id = w.id /\ v.action = w.action /\ v.base = w.base
  /\ \A h \in Household : SeenByServer(d, D, N, L, S[h])
  /\ AsAnswered(N)
  /\ Heard(D, N, L, b)

\* The device's parts have their types.
LEMMA DeviceParts ==
  ASSUME NEW d \in Device, NEW D, NEW N, NEW L, NEW S, NEW b,
         DeviceOK(d, D, N, L, S, b)
  PROVE  /\ D \in DeviceState(d) /\ D.made \in Nat /\ D.made <= MaxOps /\ Numbered(D)
         /\ \A k \in DOMAIN D.out : /\ D.out[k] \in PendingOp(d)
                                   /\ D.out[k].opId \in OpId
                                   /\ D.out[k].opId[1] = d
                                   /\ D.out[k].opId = <<d, D.out[k].opId[2]>>
                                   /\ D.out[k].opId[2] \in Nat
                                   /\ D.out[k].opId[2] <= D.made
                                   /\ D.out[k].sent \in BOOLEAN
         /\ \A w \in Wires(N, L) : w \in WireOp(d) /\ Valid(w) /\ w.opId[1] = d
<1>1. D \in DeviceState(d) /\ D.made \in Nat /\ D.made <= MaxOps /\ Numbered(D)
  BY DEF DeviceOK, Fine, DeviceState
<1>2. \A k \in DOMAIN D.out : D.out[k] \in PendingOp(d)
  BY <1>1, OutFacts
<1>3. \A w \in Wires(N, L) : w \in WireOp(d) /\ Valid(w)
  BY DEF DeviceOK, RequestOf, Wires, Range, SentAsIs
<1>4. ASSUME NEW k \in DOMAIN D.out
      PROVE  /\ D.out[k].opId \in OpId /\ D.out[k].opId[1] = d
             /\ D.out[k].opId = <<d, D.out[k].opId[2]>>
             /\ D.out[k].opId[2] \in Nat /\ D.out[k].opId[2] <= D.made
             /\ D.out[k].sent \in BOOLEAN
  <2>1. D.out[k].opId \in {d} \X Nat /\ D.out[k].sent \in BOOLEAN
    BY <1>2 DEF PendingOp
  <2>2. D.out[k].opId[2] \in 1..D.made
    BY <1>1 DEF Numbered
  <2> QED  BY <2>1, <2>2, <1>1, OpIdAssumption
<1>5. \A w \in Wires(N, L) : w.opId[1] = d
  BY <1>3 DEF WireOp
<1> QED  BY <1>1, <1>2, <1>3, <1>4, <1>5

\* A step of the server about the operations of other devices.
LEMMA ServerMovesOn ==
  ASSUME NEW d \in Device, NEW D, NEW N, NEW L, NEW S, NEW b,
         DeviceOK(d, D, N, L, S, b), NEW T,
         \A h \in Household, o \in OpId : o[1] = d => T[h].applied[o] = S[h].applied[o],
         NEW a, b \subseteq a
  PROVE  DeviceOK(d, D, N, L, T, a)
<1>1. ASSUME NEW h \in Household  PROVE SeenByServer(d, D, N, L, T[h])
  <2>1. \A w \in Wires(N, L) : w.opId \in OpId /\ w.opId[1] = d
    BY DeviceParts DEF Valid
  <2>2. \A k \in DOMAIN D.out : D.out[k].opId \in OpId /\ D.out[k].opId[1] = d
    BY DeviceParts
  <2>3. \A n \in 1..MaxOps : <<d, n>> \in OpId /\ <<d, n>>[1] = d
    BY OpIdAssumption
  <2>4. SeenByServer(d, D, N, L, S[h])
    BY DEF DeviceOK
  <2> QED  BY <2>1, <2>2, <2>3, <2>4 DEF SeenByServer, AppliedTo
<1>2. Heard(D, N, L, a) /\ \A k \in DOMAIN N.page : Tells(N.page[k], a)
  BY DEF DeviceOK, Heard, Tells
<1> QED  BY <1>1, <1>2 DEF DeviceOK

\* A transaction of the device's own.
LEMMA DeviceLed ==
  ASSUME NEW d \in Device, NEW D, NEW N, NEW L, NEW S, NEW b,
         DeviceOK(d, D, N, L, S, b),
         NEW E, NEW M, Leads(D, E, d, M), Aged(E), E.made <= MaxOps,
         NEW a, b \subseteq a, M \subseteq a
  PROVE  DeviceOK(d, E, N, L, S, a)
<1>0. /\ D.made \in Nat /\ E.made \in Nat /\ D.made <= E.made
      /\ E \in DeviceState(d) /\ Fine(E, d) /\ Follows(D, E)
      /\ \A k \in DOMAIN E.out : E.out[k] \in PendingOp(d)
      /\ \A k \in DOMAIN E.out : E.out[k].opId[2] \in 1..E.made
      /\ \A k \in DOMAIN D.out : D.out[k].sent \in BOOLEAN
  <2>1. E \in DeviceState(d) /\ Fine(E, d) /\ Follows(D, E) /\ Numbered(E)
    BY DEF Leads, Fine
  <2>2. D.made \in Nat /\ E.made \in Nat /\ D.made <= E.made
    BY <2>1, DeviceParts DEF DeviceState, Follows
  <2>3. \A k \in DOMAIN E.out : E.out[k] \in PendingOp(d)
    BY <2>1, OutFacts
  <2> QED  BY <2>1, <2>2, <2>3, DeviceParts DEF Numbered
<1>1. ASSUME NEW k \in DOMAIN E.out
      PROVE  /\ E.out[k].opId = <<d, E.out[k].opId[2]>>
             /\ E.out[k].opId[2] \in 1..MaxOps
             /\ E.out[k].sent \in BOOLEAN
             /\ \/ ~ E.out[k].sent /\ E.out[k].opId[2] > D.made
                \/ \E j \in DOMAIN D.out : SameOp(E.out[k], D.out[j])
  <2>1. E.out[k].opId[2] \in 1..MaxOps
    BY <1>0, OpIdAssumption
  <2> QED  BY <2>1, <1>0 DEF PendingOp, Follows
<1>2. ASSUME NEW w \in Wires(N, L)  PROVE SentAsIs(E, w)
  <2>1. SentAsIs(D, w)
    BY DEF DeviceOK
  <2>2. w.opId[2] \in 1..D.made /\ w.opId[2] \in 1..E.made
    BY <2>1, <1>0 DEF SentAsIs
  <2>3. ASSUME NEW k \in DOMAIN E.out, E.out[k].opId = w.opId
        PROVE  LET o == E.out[k]
               IN  o.sent /\ o.id = w.id /\ o.action = w.action /\ o.base = w.base
    <3>1. PICK j \in DOMAIN D.out : SameOp(E.out[k], D.out[j])
      BY <2>2, <2>3, <1>0, <1>1
    <3>2. D.out[j].opId = w.opId
      BY <3>1, <2>3 DEF SameOp
    <3>3. /\ D.out[j].sent /\ D.out[j].id = w.id /\ D.out[j].action = w.action
          /\ D.out[j].base = w.base
      BY <2>1, <3>2 DEF SentAsIs
    <3>4. E.out[k].sent \in BOOLEAN /\ D.out[j].sent \in BOOLEAN
      BY <1>0, <1>1
    <3> QED  BY <3>1, <3>3, <3>4 DEF SameOp
  <2> QED  BY <2>1, <2>2, <2>3 DEF SentAsIs
<1>3. ASSUME NEW h \in Household  PROVE SeenByServer(d, E, N, L, S[h])
  <2> DEFINE s == S[h]
  <2>0. SeenByServer(d, D, N, L, s)
    BY DEF DeviceOK
  <2> HIDE DEF s
  <2>1. \A w \in Wires(N, L) : w.action = "upsert" => AppliedTo(s, w)
    BY <2>0 DEF SeenByServer
  <2>2. \A n \in 1..MaxOps : n > E.made => s.applied[<<d, n>>] = NotApplied
    <3>1. \A n \in 1..MaxOps : n > E.made => n > D.made
      BY <1>0
    <3> QED  BY <2>0, <3>1 DEF SeenByServer
  <2>3. ASSUME NEW k \in DOMAIN E.out
        PROVE  LET o == E.out[k]
               IN  /\ ~ o.sent => s.applied[o.opId] = NotApplied
                   /\ o.sent /\ o.action = "upsert" => AppliedTo(s, o)
    <3>1. CASE ~ E.out[k].sent /\ E.out[k].opId[2] > D.made
      <4>1. s.applied[<<d, E.out[k].opId[2]>>] = NotApplied
        BY <2>0, <3>1, <1>1 DEF SeenByServer
      <4> QED  BY <3>1, <4>1, <1>1
    <3>2. CASE \E j \in DOMAIN D.out : SameOp(E.out[k], D.out[j])
      <4>1. PICK j \in DOMAIN D.out : SameOp(E.out[k], D.out[j])
        BY <3>2
      <4>2. /\ ~ D.out[j].sent => s.applied[D.out[j].opId] = NotApplied
            /\ D.out[j].sent /\ D.out[j].action = "upsert" => AppliedTo(s, D.out[j])
        BY <2>0 DEF SeenByServer
      <4>3. E.out[k].sent \in BOOLEAN /\ D.out[j].sent \in BOOLEAN
        BY <1>0, <1>1
      <4> QED  BY <4>1, <4>2, <4>3 DEF SameOp, AppliedTo
    <3> QED  BY <3>1, <3>2, <1>1
  <2>4. SeenByServer(d, E, N, L, s)
    BY <2>1, <2>2, <2>3 DEF SeenByServer
  <2> QED  BY <2>4 DEF s
<1>4. Heard(E, N, L, a) /\ \A k \in DOMAIN N.page : Tells(N.page[k], a)
  BY DEF DeviceOK, Heard, Leads, Tells
<1> QED  BY <1>0, <1>2, <1>3, <1>4 DEF DeviceOK

\* Another request, of which no more is under way.
LEMMA RequestOn ==
  ASSUME NEW d \in Device, NEW D, NEW N, NEW L, NEW S, NEW b,
         DeviceOK(d, D, N, L, S, b), NEW R \in RequestOf(d), NEW K \in RequestOf(d),
         Wires(R, K) \subseteq Wires(N, L), AsAnswered(R),
         \A k \in DOMAIN R.page : Tells(R.page[k], b)
  PROVE  DeviceOK(d, D, R, K, S, b)
<1>1. \A h \in Household : SeenByServer(d, D, R, K, S[h])
  BY DEF DeviceOK, SeenByServer
<1>2. Heard(D, R, K, b)
  BY DEF DeviceOK, Heard
<1> QED  BY <1>1, <1>2 DEF DeviceOK

\* The engine stops awaiting, or awaits a page; the late push is another one that
\* was under way, or none.
LEMMA RequestOver ==
  ASSUME NEW d \in Device, NEW D, NEW N, NEW L, NEW S, NEW b,
         DeviceOK(d, D, N, L, S, b), NEW R \in RequestOf(d),
         R.batch = <<>>, R.page = <<>>, R.phase # "pushed",
         NEW K \in RequestOf(d), K.batch \in {L.batch, N.batch, <<>>}
  PROVE  DeviceOK(d, D, R, K, S, b)
<1>1. Wires(R, K) \subseteq Wires(N, L) /\ DOMAIN R.page = {}
  BY DEF Wires, Range
<1>2. AsAnswered(R)
  BY DEF AsAnswered
<1> QED  BY <1>1, <1>2, RequestOn

\* The engine sends the batch it has selected, or goes on to pull.
LEMMA SendingOn ==
  ASSUME NEW d \in Device, NEW D, NEW N, NEW L, NEW S, NEW b,
         DeviceOK(d, D, N, L, S, b),
         NEW E, NEW batch, Selects(D, E, batch, d), NEW R \in RequestOf(d),
         R.page = <<>>, R.phase # "pushed", R.batch \in {batch, <<>>}
  PROVE  DeviceOK(d, E, R, L, S, b)
<1>0. /\ Fine(E, d) /\ E.row = D.row /\ E.made = D.made /\ batch \in Seq(WireOp(d))
      /\ E \in DeviceState(d) /\ Numbered(E)
      /\ \A k \in DOMAIN E.out : E.out[k] \in PendingOp(d)
      /\ \A k \in DOMAIN E.out : E.out[k].sent \in BOOLEAN /\ E.out[k].id \in Id
      /\ \A n \in DOMAIN batch : batch[n] \in WireOp(d)
      /\ DOMAIN batch = 1..Len(batch) /\ Len(batch) \in Nat
  <2>1. /\ Fine(E, d) /\ E.row = D.row /\ E.made = D.made /\ batch \in Seq(WireOp(d))
        /\ E \in DeviceState(d) /\ Numbered(E)
    BY DEF Selects, Fine
  <2>2. \A k \in DOMAIN E.out : E.out[k] \in PendingOp(d)
    BY <2>1, OutFacts
  <2>3. \A k \in DOMAIN E.out : E.out[k].sent \in BOOLEAN /\ E.out[k].id \in Id
    BY <2>2 DEF PendingOp
  <2> QED  BY <2>1, <2>2, <2>3
<1>1. ASSUME NEW k \in DOMAIN E.out
      PROVE  \E j \in DOMAIN D.out :
               LET o == E.out[k]
                   p == D.out[j]
               IN  /\ o.opId = p.opId /\ o.id = p.id
                   /\ p.sent => SameOp(o, p)
                   /\ o.sent /\ ~ p.sent => \E n \in DOMAIN batch : batch[n].opId = o.opId
  BY DEF Selects
<1>2. ASSUME NEW n \in DOMAIN batch
      PROVE  \E k \in DOMAIN E.out :
               LET w == batch[n]
                   o == E.out[k]
               IN  /\ o.sent /\ o.opId = w.opId /\ o.id = w.id /\ o.action = w.action
                   /\ o.base = w.base
                   /\ w.action = "upsert" => w.data \in PayloadOf(w.id)
  BY DEF Selects
<1>3. ASSUME NEW n \in DOMAIN batch  PROVE SentAsIs(E, batch[n])
  <2> DEFINE w == batch[n]
  <2>1. PICK k \in DOMAIN E.out :
          /\ E.out[k].sent /\ E.out[k].opId = w.opId /\ E.out[k].id = w.id
          /\ E.out[k].action = w.action /\ E.out[k].base = w.base
          /\ w.action = "upsert" => w.data \in PayloadOf(w.id)
    BY <1>2
  <2>2. w \in WireOp(d)
    BY <1>0
  <2>3. w.opId[2] \in 1..E.made
    BY <1>0, <2>1 DEF Numbered
  <2>4. w.opId \in OpId
    <3>1. w.opId[2] \in 1..MaxOps
      BY <2>3, <1>0, DeviceParts, OpIdAssumption
    <3>2. w.opId = <<d, w.opId[2]>>
      BY <2>2 DEF WireOp
    <3>3. <<d, w.opId[2]>> \in Device \X (1..MaxOps)
      BY <3>1
    <3> HIDE DEF w
    <3> QED  BY <3>2, <3>3, OpIdAssumption
  <2>5. Valid(w)
    BY <2>1, <2>2, <2>4 DEF Valid, WireOp
  <2>6. \A j \in DOMAIN E.out : E.out[j].opId = w.opId => j = k
    BY <1>0, <2>1 DEF Numbered
  <2> HIDE DEF w
  <2>7. SentAsIs(E, w)
    BY <2>1, <2>3, <2>5, <2>6 DEF SentAsIs
  <2> QED  BY <2>7 DEF w
<1>4. ASSUME NEW w \in Range(L.batch)  PROVE SentAsIs(E, w)
  <2>1. SentAsIs(D, w)
    BY DEF DeviceOK, Wires
  <2>2. ASSUME NEW k \in DOMAIN E.out, E.out[k].opId = w.opId
        PROVE  LET o == E.out[k]
               IN  o.sent /\ o.id = w.id /\ o.action = w.action /\ o.base = w.base
    <3>1. PICK j \in DOMAIN D.out :
            /\ E.out[k].opId = D.out[j].opId
            /\ D.out[j].sent => SameOp(E.out[k], D.out[j])
      BY <1>1
    <3>2. /\ D.out[j].sent /\ D.out[j].id = w.id /\ D.out[j].action = w.action
          /\ D.out[j].base = w.base
      BY <2>1, <2>2, <3>1 DEF SentAsIs
    <3>3. SameOp(E.out[k], D.out[j]) /\ E.out[k].sent \in BOOLEAN
          /\ D.out[j].sent \in BOOLEAN
      BY <1>0, <3>1, <3>2, DeviceParts
    <3> QED  BY <3>2, <3>3 DEF SameOp
  <2> QED  BY <1>0, <2>1, <2>2 DEF SentAsIs
<1> DEFINE all == Range(batch) \cup Range(L.batch)
<1>5. ASSUME NEW v \in all, NEW w \in all, v.opId = w.opId
      PROVE  v.id = w.id /\ v.action = w.action /\ v.base = w.base
  <2>1. ASSUME NEW x \in Range(batch), NEW y \in all, x.opId = y.opId
        PROVE  x.id = y.id /\ x.action = y.action /\ x.base = y.base
    <3>1. PICK n \in DOMAIN batch : x = batch[n]
      BY DEF Range
    <3>2. PICK k \in DOMAIN E.out : E.out[k].opId = x.opId /\ E.out[k].action = x.action
                                    /\ E.out[k].base = x.base /\ E.out[k].id = x.id
      BY <1>2, <3>1
    <3>3. SentAsIs(E, y)
      BY <1>3, <1>4 DEF Range
    <3>4. /\ E.out[k].action = y.action /\ E.out[k].base = y.base
          /\ E.out[k].id = y.id
      BY <3>2, <3>3, <2>1 DEF SentAsIs
    <3> QED  BY <3>2, <3>4
  <2>2. CASE v \in Range(batch)
    BY <2>1, <2>2, <1>5
  <2>3. CASE w \in Range(batch)
    BY <2>1, <2>3, <1>5
  <2>4. CASE v \in Range(L.batch) /\ w \in Range(L.batch)
    BY <2>4, <1>5 DEF DeviceOK, Wires
  <2> QED  BY <2>2, <2>3, <2>4
<1>6. ASSUME NEW n \in DOMAIN batch  PROVE batch[n].id \in b
  <2>1. PICK k \in DOMAIN E.out : E.out[k].id = batch[n].id
    BY <1>2
  <2>2. batch[n].id \in Id /\ k \in OpsOf(E, batch[n].id)
    BY <1>0, <2>1 DEF OpsOf
  <2>3. HasRow(E, batch[n].id)
    BY <1>0, <2>2, RowOf
  <2>4. HasRow(D, batch[n].id)
    BY <1>0, <2>3 DEF HasRow
  <2> QED  BY <2>2, <2>4 DEF DeviceOK, Heard
<1>7. Wires(R, L) \subseteq all /\ DOMAIN R.page = {}
  BY DEF Wires, Range
<1>8. ASSUME NEW h \in Household  PROVE SeenByServer(d, E, R, L, S[h])
  <2> DEFINE s == S[h]
  <2>0. SeenByServer(d, D, N, L, s)
    BY DEF DeviceOK
  <2> HIDE DEF s
  <2>1. ASSUME NEW k \in DOMAIN E.out
        PROVE  LET o == E.out[k]
               IN  /\ ~ o.sent => s.applied[o.opId] = NotApplied
                   /\ o.sent /\ o.action = "upsert" => AppliedTo(s, o)
    <3>1. PICK j \in DOMAIN D.out :
            /\ E.out[k].opId = D.out[j].opId
            /\ D.out[j].sent => SameOp(E.out[k], D.out[j])
      BY <1>1
    <3>2. /\ ~ D.out[j].sent => s.applied[D.out[j].opId] = NotApplied
          /\ D.out[j].sent /\ D.out[j].action = "upsert" => AppliedTo(s, D.out[j])
      BY <2>0 DEF SeenByServer
    <3>3. E.out[k].sent \in BOOLEAN /\ D.out[j].sent \in BOOLEAN
      BY <1>0, DeviceParts
    <3> QED  BY <3>1, <3>2, <3>3 DEF SameOp, AppliedTo
  <2>2. ASSUME NEW n \in DOMAIN batch, batch[n].action = "upsert"
        PROVE  AppliedTo(s, batch[n])
    <3>1. PICK k \in DOMAIN E.out :
            /\ E.out[k].sent /\ E.out[k].opId = batch[n].opId
            /\ E.out[k].action = "upsert" /\ E.out[k].base = batch[n].base
      BY <1>2, <2>2
    <3>2. AppliedTo(s, E.out[k])
      BY <2>1, <3>1
    <3> QED  BY <3>1, <3>2 DEF AppliedTo
  <2>3. \A w \in all : w.action = "upsert" => AppliedTo(s, w)
    BY <2>0, <2>2 DEF SeenByServer, Range, Wires
  <2>4. \A n \in 1..MaxOps : n > E.made => s.applied[<<d, n>>] = NotApplied
    BY <1>0, <2>0 DEF SeenByServer
  <2>5. SeenByServer(d, E, R, L, s)
    BY <2>1, <2>3, <2>4, <1>7 DEF SeenByServer
  <2> QED  BY <2>5 DEF s
<1>9. \A w \in all : SentAsIs(E, w)
  BY <1>3, <1>4 DEF Range
<1>10. Heard(E, R, L, b)
  <2>1. \A i \in Id : HasRow(E, i) => i \in b
    BY <1>0 DEF DeviceOK, Heard, HasRow
  <2>2. \A w \in all : w.id \in b
    BY <1>6 DEF DeviceOK, Heard, Wires, Range
  <2> QED  BY <2>1, <2>2, <1>7 DEF Heard
<1>11. AsAnswered(R) /\ E.made <= MaxOps /\ L \in RequestOf(d)
  BY <1>0 DEF AsAnswered, DeviceOK
<1>12. Aged(E)
  BY <1>0, SameRowsAged DEF DeviceOK
<1> HIDE DEF all
<1> QED  BY <1>0, <1>5, <1>7, <1>8, <1>9, <1>10, <1>11, <1>12 DEF DeviceOK

\* What is under way of a device is a batch for the server.
LEMMA UnderWay ==
  ASSUME NEW d \in Device, NEW D, NEW N, NEW L, NEW S, NEW b,
         DeviceOK(d, D, N, L, S, b), NEW batch \in {N.batch, L.batch}
  PROVE  /\ Sendable(batch, Len(batch), b) /\ batch \in Seq(WireOp(d))
         /\ \A k \in 1..Len(batch) : batch[k] \in Wires(N, L) /\ batch[k].opId[1] = d
         /\ \A h \in Household, k \in 1..Len(batch) :
              batch[k].action = "upsert" => AppliedTo(S[h], batch[k])
<1>1. batch \in Seq(WireOp(d)) /\ Len(batch) \in Nat /\ DOMAIN batch = 1..Len(batch)
  BY DEF DeviceOK, RequestOf
<1>2. \A k \in 1..Len(batch) : batch[k] \in Wires(N, L)
  BY <1>1 DEF Wires, Range
<1>3. \A w \in Wires(N, L) : Valid(w) /\ w.id \in b /\ w.opId[1] = d
  BY DeviceParts DEF DeviceOK, Heard
<1>4. \A h \in Household : \A w \in Wires(N, L) : w.action = "upsert" => AppliedTo(S[h], w)
  BY DEF DeviceOK, SeenByServer
<1>5. Sendable(batch, Len(batch), b)
  BY <1>1, <1>2, <1>3 DEF Sendable, DeviceOK
<1> QED  BY <1>1, <1>2, <1>3, <1>4, <1>5

\* A batch of the device arrives at the server: what it has made of the
\* households suits the device and the others.
LEMMA ServedOn ==
  ASSUME NEW d \in Device, NEW D, NEW N, NEW L, NEW S, NEW b,
         DeviceOK(d, D, N, L, S, b), NEW batch \in {N.batch, L.batch},
         NEW T, Serves(S, T, batch, Len(batch))
  PROVE  /\ DeviceOK(d, D, N, L, T, b)
         /\ \A h \in Household, o \in OpId : o[1] # d => T[h].applied[o] = S[h].applied[o]
<1> DEFINE n == Len(batch)
<1>1. \A k \in 1..n : batch[k] \in Wires(N, L) /\ batch[k].opId[1] = d
  BY UnderWay
<1> HIDE DEF n
<1>2. Serves(S, T, batch, n)
  BY DEF n
<1>3. ASSUME NEW h \in Household, NEW o \in OpId, o[1] # d
      PROVE  T[h].applied[o] = S[h].applied[o]
  <2>1. \A k \in 1..n : batch[k].opId # o
    BY <1>1, <1>3
  <2> QED  BY <1>2, <2>1 DEF Serves
<1>4. ASSUME NEW h \in Household  PROVE SeenByServer(d, D, N, L, T[h])
  <2> DEFINE s == S[h]
             t == T[h]
  <2>0. /\ SeenByServer(d, D, N, L, s)
        /\ \A o \in OpId : \/ t.applied[o] = s.applied[o]
                           \/ \E k \in 1..n : batch[k].opId = o
        /\ \A k \in 1..n : batch[k].action = "upsert" => AppliedTo(t, batch[k])
    BY <1>2 DEF Serves, DeviceOK
  <2> HIDE DEF s, t
  <2>1. ASSUME NEW v, v.opId \in OpId, v.action = "upsert", AppliedTo(s, v),
               \A w \in Wires(N, L) : w.opId = v.opId => w.action = v.action /\ w.base = v.base
        PROVE  AppliedTo(t, v)
    <3>1. CASE t.applied[v.opId] = s.applied[v.opId]
      BY <3>1, <2>1 DEF AppliedTo
    <3>2. CASE \E k \in 1..n : batch[k].opId = v.opId
      <4>1. PICK k \in 1..n : batch[k].opId = v.opId
        BY <3>2
      <4>2. batch[k].action = "upsert" /\ batch[k].base = v.base
        BY <4>1, <1>1, <2>1
      <4>3. AppliedTo(t, batch[k])
        BY <4>2, <2>0
      <4> QED  BY <4>1, <4>2, <4>3 DEF AppliedTo
    <3> QED  BY <3>1, <3>2, <2>0, <2>1
  <2>2. ASSUME NEW w \in Wires(N, L), w.action = "upsert"  PROVE AppliedTo(t, w)
    <3>1. Valid(w)
      BY DeviceParts
    <3>2. AppliedTo(s, w) /\ w.opId \in OpId
      BY <2>0, <2>2, <3>1 DEF SeenByServer, Valid
    <3>3. \A v \in Wires(N, L) : v.opId = w.opId => v.action = w.action /\ v.base = w.base
      BY DEF DeviceOK
    <3> QED  BY <2>2, <3>2, <3>3, <2>1
  <2>3. ASSUME NEW k \in DOMAIN D.out
        PROVE  LET o == D.out[k]
               IN  /\ ~ o.sent => t.applied[o.opId] = NotApplied
                   /\ o.sent /\ o.action = "upsert" => AppliedTo(t, o)
    <3> DEFINE o == D.out[k]
    <3>1. /\ ~ o.sent => s.applied[o.opId] = NotApplied
          /\ o.sent /\ o.action = "upsert" => AppliedTo(s, o)
          /\ o.opId \in OpId
      BY <2>0, DeviceParts DEF SeenByServer
    <3>2. \A w \in Wires(N, L) : w.opId = o.opId =>
            o.sent /\ w.action = o.action /\ w.base = o.base
      BY DEF DeviceOK, SentAsIs
    <3> HIDE DEF o
    <3>3. ~ o.sent => t.applied[o.opId] = NotApplied
      BY <3>1, <3>2, <1>1, <2>0
    <3>4. o.sent /\ o.action = "upsert" => AppliedTo(t, o)
      BY <3>1, <3>2, <2>1
    <3> QED  BY <3>3, <3>4 DEF o
  <2>4. ASSUME NEW m \in 1..MaxOps, m > D.made
        PROVE  t.applied[<<d, m>>] = NotApplied
    <3>1. s.applied[<<d, m>>] = NotApplied /\ <<d, m>> \in OpId
      BY <2>0, <2>4, OpIdAssumption DEF SeenByServer
    <3>2. \A k \in 1..n : batch[k].opId # <<d, m>>
      <4>1. \A k \in 1..n : batch[k].opId[2] \in 1..D.made
        BY <1>1 DEF DeviceOK, SentAsIs
      <4>2. m \notin 1..D.made
        BY <2>4, DeviceParts
      <4> QED  BY <4>1, <4>2
    <3> QED  BY <3>1, <3>2, <2>0
  <2>5. SeenByServer(d, D, N, L, t)
    BY <2>2, <2>3, <2>4 DEF SeenByServer
  <2> QED  BY <2>5 DEF t
<1> QED  BY <1>3, <1>4 DEF DeviceOK

\* The device takes the results in.
LEMMA ResultsTakenIn ==
  ASSUME NEW d \in Device, NEW D, NEW N, NEW L, NEW S, NEW b,
         DeviceOK(d, D, N, L, S, b), N.phase = "pushed",
         NEW E, E = PushTakenIn(D, N.batch, N.answers)
  PROVE  DeviceOK(d, E, N, L, S, b)
<1> DEFINE batch == N.batch
           answers == N.answers
           n == Len(batch)
<1>1. /\ Fine(D, d) /\ batch \in Seq(WireOp(d)) /\ n \in Nat /\ DOMAIN batch = 1..n
      /\ \A k \in 1..n : batch[k] \in Wires(N, L) /\ Answers(answers[k], batch[k])
      /\ Aged(D) /\ E = PushTakenIn(D, batch, answers)
  <2>1. batch \in Seq(WireOp(d)) /\ n \in Nat /\ DOMAIN batch = 1..n
    BY DEF DeviceOK, RequestOf
  <2>2. \A k \in 1..n : batch[k] \in Wires(N, L)
    BY <2>1 DEF Wires, Range
  <2> QED  BY <2>1, <2>2 DEF DeviceOK, AsAnswered
<1> HIDE DEF batch, answers, n
<1>2. ASSUME NEW k \in 1..n
      PROVE  /\ batch[k].id \in Id /\ batch[k].opId[2] <= D.made
             /\ answers[k].ver \in Nat
             /\ answers[k].state \in Row /\ answers[k].state.data \in Data(batch[k].id)
             /\ answers[k].status = "applied" =>
                  \A j \in DOMAIN D.out : D.out[j].opId = batch[k].opId =>
                    /\ D.out[j].sent
                    /\ D.out[j].action = "upsert" => answers[k].ver = D.out[j].base + 1
  <2>1. batch[k] \in Wires(N, L) /\ Answers(answers[k], batch[k])
    BY <1>1
  <2>2. SentAsIs(D, batch[k])
    BY <2>1 DEF DeviceOK
  <2>3. batch[k].id \in Id /\ batch[k].opId[2] \in 1..D.made
    BY <2>2 DEF SentAsIs, Valid
  <2>4. D.made \in Nat
    BY DeviceParts
  <2>5. /\ answers[k].ver \in Nat /\ answers[k].state \in Row
        /\ answers[k].state.data \in Data(batch[k].id)
    BY <2>1 DEF Answers, Answer
  <2>6. ASSUME answers[k].status = "applied", NEW j \in DOMAIN D.out,
               D.out[j].opId = batch[k].opId
        PROVE  /\ D.out[j].sent
               /\ D.out[j].action = "upsert" => answers[k].ver = D.out[j].base + 1
    BY <2>1, <2>2, <2>6 DEF SentAsIs, Answers
  <2> QED  BY <2>3, <2>4, <2>5, <2>6
<1>3. Leads(D, E, d, {}) /\ E.made = D.made
  BY <1>1, <1>2, PushTakenInFine
<1>4. Aged(E)
  BY <1>1, <1>2, PushTakenInAged
<1>5. E.made <= MaxOps
  BY <1>3 DEF DeviceOK
<1> QED  BY <1>3, <1>4, <1>5, DeviceLed

\* The device takes the page in.
LEMMA PageTakenInOn ==
  ASSUME NEW d \in Device, NEW D, NEW N, NEW L, NEW S, NEW b,
         DeviceOK(d, D, N, L, S, b), NEW E, E = PageTakenIn(D, N.page), E.made <= MaxOps
  PROVE  DeviceOK(d, E, N, L, S, b)
<1> DEFINE page == N.page
           n == Len(page)
<1>1. /\ n \in Nat /\ DOMAIN page = 1..n /\ Fine(D, d) /\ Aged(D)
      /\ \A k \in 1..n : /\ page[k] \in PulledChange /\ page[k].data \in Data(page[k].id)
                         /\ page[k].ver >= 1 /\ page[k].id \in b
  <2>1. page \in Seq(PulledChange) /\ n \in Nat /\ DOMAIN page = 1..n
    BY DEF DeviceOK, RequestOf
  <2>2. \A k \in 1..n : Tells(page[k], b)
    BY <2>1 DEF DeviceOK
  <2> QED  BY <2>1, <2>2 DEF Tells, DeviceOK
<1>2. E = PageTakenIn(D, page)
  OBVIOUS
<1> HIDE DEF n, page
<1>3. Leads(D, E, d, {page[k].id : k \in 1..n})
  BY <1>1, <1>2, PageTakenInFine
<1>4. Aged(E)
  BY <1>1, <1>2, PageTakenInAged
<1>5. {page[k].id : k \in 1..n} \subseteq b
  BY <1>1
<1> QED  BY <1>3, <1>4, <1>5, DeviceLed

-----------------------------------------------------------------------------
(* The database of a device that goes to another household.                *)

\* A database without records.
LEMMA BlankFine ==
  ASSUME NEW d, NEW n \in Nat, NEW E,
         E = [self |-> d, made |-> n, row |-> [i \in Id |-> NoRow], out |-> <<>>,
              conf |-> [i \in Id |-> NoConflict]]
  PROVE  /\ Fine(E, d) /\ Aged(E) /\ E.made = n /\ DOMAIN E.out = {}
         /\ \A i \in Id : ~ HasRow(E, i)
<1>2. /\ E.self = d /\ E.made = n /\ E.row = [i \in Id |-> NoRow] /\ E.out = <<>>
      /\ E.conf = [i \in Id |-> NoConflict]
      /\ E = [self |-> E.self, made |-> E.made, row |-> E.row, out |-> E.out, conf |-> E.conf]
  OBVIOUS
<1>3. NoConflict \in ConflictRow /\ \A i \in Id : /\ NoConflict.state.data \in Data(i)
                                                 /\ NoConflict.local \in Data(i)
  <2>1. NoConflict.kind = "none" /\ NoConflict.state = Absent /\ NoConflict.local = NoData
        /\ NoConflict = [kind |-> "none", state |-> Absent, local |-> NoData]
        /\ Absent.data = NoData
    BY DEF NoConflict, Absent
  <2> QED  BY <2>1, NoRowFacts DEF ConflictRow
<1>4. E \in DeviceState(d)
  <2>1. E.out \in Seq(PendingOp(d)) /\ E.self \in {d} /\ E.made \in Nat
    BY <1>2
  <2>2. E.row \in [Id -> LocalRow]
    BY <1>2, NoRowFacts
  <2>3. E.conf \in [Id -> ConflictRow]
    BY <1>2, <1>3
  <2> QED  BY <1>2, <2>1, <2>2, <2>3 DEF DeviceState
<1>5. DOMAIN E.out = {} /\ \A i \in Id : E.row[i] = NoRow
  BY <1>2
<1>6. Numbered(E)
  BY <1>5 DEF Numbered
<1>7. ASSUME NEW i \in Id  PROVE Sound(E, i) /\ Waiting(E, i) /\ Told(E, i)
  <2>1. E.row[i] = NoRow /\ OpsOf(E, i) = {} /\ E.conf[i] = NoConflict
    BY <1>2, <1>5 DEF OpsOf
  <2>2. Sound(E, i) /\ Waiting(E, i)
    BY <1>4, <2>1, NoRowFacts, QuietSound
  <2> QED  BY <1>3, <2>1, <2>2 DEF Told
<1>8. \A i \in Id : ~ HasRow(E, i)
  BY <1>5, NoRowFacts DEF HasRow
<1> QED  BY <1>2, <1>4, <1>5, <1>6, <1>7, <1>8 DEF Fine, Aged, LiveRow

\* A wipe leaves nothing but the number of operations made.
LEMMA WipedOn ==
  ASSUME NEW d, NEW D, Fine(D, d)
  PROVE  Leads(D, Wiped(D), d, {}) /\ Aged(Wiped(D)) /\ Wiped(D).made = D.made
<1> DEFINE E == Wiped(D)
<1>1. D.self = d /\ D.made \in Nat
  BY DEF Fine, DeviceState
<1>2. E = [self |-> d, made |-> D.made, row |-> [i \in Id |-> NoRow], out |-> <<>>,
           conf |-> [i \in Id |-> NoConflict]]
  BY <1>1 DEF Wiped, EmptyDevice
<1> HIDE DEF E
<1>3. /\ Fine(E, d) /\ Aged(E) /\ E.made = D.made /\ DOMAIN E.out = {}
      /\ \A i \in Id : ~ HasRow(E, i)
  <2> DEFINE n == D.made
  <2>1. n \in Nat /\ E = [self |-> d, made |-> n, row |-> [i \in Id |-> NoRow], out |-> <<>>,
                         conf |-> [i \in Id |-> NoConflict]]
    BY <1>1, <1>2
  <2> HIDE DEF n
  <2>2. /\ Fine(E, d) /\ Aged(E) /\ E.made = n /\ DOMAIN E.out = {}
        /\ \A i \in Id : ~ HasRow(E, i)
    BY <2>1, BlankFine, Zenon
  <2> QED  BY <2>2 DEF n
<1>4. Follows(D, E)
  BY <1>1, <1>3 DEF Follows
<1> QED  BY <1>3, <1>4 DEF E, Leads

\* The elements of a finite set as a sequence, each once.
LEMMA SetToSeqFacts ==
  ASSUME NEW S, IsFiniteSet(S)
  PROVE  /\ Cardinality(S) \in Nat /\ SetToSeq(S) \in Seq(S)
         /\ Len(SetToSeq(S)) = Cardinality(S)
         /\ \A j, k \in 1..Cardinality(S) : SetToSeq(S)[j] = SetToSeq(S)[k] => j = k
         /\ \A x \in S : \E k \in 1..Cardinality(S) : SetToSeq(S)[k] = x
<1> DEFINE n == Cardinality(S)
           f == SetToSeq(S)
<1>1. n \in Nat /\ ExistsBijection(1..n, S)
  BY FS_CardinalityType
<1>2. PICK g : g \in Bijection(1..n, S)
  BY <1>1 DEF ExistsBijection
<1>3. g \in [1..n -> S] /\ IsInjective(g)
  BY <1>2 DEF Bijection, Injection
<1>4. f \in [1..n -> S] /\ IsInjective(f)
  BY <1>3 DEF SetToSeq
<1>5. f \in Injection(1..n, S)
  BY <1>4 DEF Injection
<1>6. IsFiniteSet(1..n) /\ Cardinality(1..n) = n
  BY <1>1, FS_Interval
<1>7. f \in Surjection(1..n, S)
  BY <1>5, <1>6, FS_Injection
<1>8. f \in Seq(S) /\ Len(f) = n
  BY <1>1, <1>4
<1>9. \A x \in S : \E k \in 1..n : f[k] = x
  BY <1>7 DEF Surjection
<1>10. \A j, k \in 1..n : f[j] = f[k] => j = k
  BY <1>4 DEF IsInjective
<1> QED  BY <1>1, <1>8, <1>9, <1>10

\* The rows that stay, in the order in which they are created again.
Lasting(D) == {i \in Id : LiveRow(D, i)}

\* The order in which a rebase queues what stays.
InOrderOf(D) == SetToSeq(Lasting(D) \cap Category) \o SetToSeq(Lasting(D) \cap Transaction)

\* It lists each record that stays once.
LEMMA InOrderOfFacts ==
  ASSUME NEW D, NEW q, q = InOrderOf(D)
  PROVE  /\ q \in Seq(Id) /\ Len(q) \in Nat
         /\ \A k \in 1..Len(q) : q[k] \in Lasting(D)
         /\ \A j, k \in 1..Len(q) : q[j] = q[k] => j = k
         /\ \A i \in Lasting(D) : \E k \in 1..Len(q) : q[k] = i
<1> DEFINE A == Lasting(D) \cap Category
           B == Lasting(D) \cap Transaction
           f == SetToSeq(A)
           g == SetToSeq(B)
           m == Cardinality(A)
           n == Cardinality(B)
<1>1. IsFiniteSet(A) /\ IsFiniteSet(B)
  BY CategoryFinite, TransactionFinite, FS_Subset
<1>2. /\ m \in Nat /\ f \in Seq(A) /\ Len(f) = m
      /\ \A j, k \in 1..m : f[j] = f[k] => j = k
      /\ \A x \in A : \E k \in 1..m : f[k] = x
  BY <1>1, SetToSeqFacts
<1>3. /\ n \in Nat /\ g \in Seq(B) /\ Len(g) = n
      /\ \A j, k \in 1..n : g[j] = g[k] => j = k
      /\ \A x \in B : \E k \in 1..n : g[k] = x
  BY <1>1, SetToSeqFacts
<1>4. A \subseteq Id /\ B \subseteq Id /\ A \cap B = {} /\ Lasting(D) = A \cup B
  BY KindsDisjoint DEF Id, Lasting
<1>5. q = f \o g
  BY DEF InOrderOf
<1> HIDE DEF A, B, f, g, m, n
<1>6. f \in Seq(Id) /\ g \in Seq(Id)
  <2>1. (\A k \in 1..m : f[k] \in A) /\ (\A k \in 1..n : g[k] \in B)
    BY <1>2, <1>3
  <2>2. (\A k \in 1..Len(f) : f[k] \in Id) /\ (\A k \in 1..Len(g) : g[k] \in Id)
    BY <2>1, <1>2, <1>3, <1>4
  <2>3. f = [k \in 1..m |-> f[k]] /\ g = [k \in 1..n |-> g[k]]
    BY <1>2, <1>3
  <2>4. f \in [1..m -> Id] /\ g \in [1..n -> Id]
    BY <2>2, <2>3, <1>2, <1>3
  <2> QED  BY <2>4, <1>2, <1>3
<1>7. /\ q \in Seq(Id) /\ Len(q) = m + n
      /\ \A k \in 1..m : q[k] = f[k]
      /\ \A k \in 1..n : q[m + k] = g[k]
  <2>1. q \in Seq(Id) /\ Len(q) = m + n
    <3>1. f \o g \in Seq(Id) /\ Len(f \o g) = Len(f) + Len(g)
      BY <1>6, ConcatProperties
    <3>2. Len(f) = m /\ Len(g) = n
      BY <1>2, <1>3
    <3> QED  BY <3>1, <3>2, <1>5
  <2>2. \A k \in 1..(m + n) : q[k] = IF k <= m THEN f[k] ELSE g[k - m]
    BY <1>2, <1>3, <1>5, <1>6, ConcatProperties
  <2>3. \A k \in 1..m : q[k] = f[k]
    BY <2>2, <1>2, <1>3
  <2>4. \A k \in 1..n : q[m + k] = g[k]
    <3> SUFFICES ASSUME NEW k \in 1..n  PROVE q[m + k] = g[k]
      OBVIOUS
    <3>1. m + k \in 1..(m + n) /\ ~ (m + k <= m) /\ (m + k) - m = k
      BY <1>2, <1>3
    <3> QED  BY <3>1, <2>2
  <2> QED  BY <2>1, <2>3, <2>4
<1>8. \A k \in 1..(m + n) : \/ k \in 1..m /\ q[k] \in A
                            \/ k - m \in 1..n /\ m + (k - m) = k /\ q[k] \in B
  <2> SUFFICES ASSUME NEW k \in 1..(m + n)
               PROVE  \/ k \in 1..m /\ q[k] \in A
                      \/ k - m \in 1..n /\ m + (k - m) = k /\ q[k] \in B
    OBVIOUS
  <2>1. CASE k <= m
    <3>1. k \in 1..m
      BY <2>1, <1>2, <1>3
    <3>2. f[k] \in A
      BY <3>1, <1>2
    <3> QED  BY <3>1, <3>2, <1>7
  <2>2. CASE k > m
    <3>1. k - m \in 1..n /\ m + (k - m) = k
      BY <2>2, <1>2, <1>3
    <3>2. g[k - m] \in B
      BY <3>1, <1>3
    <3>3. q[m + (k - m)] = g[k - m]
      BY <3>1, <1>7
    <3> QED  BY <3>1, <3>2, <3>3
  <2> QED  BY <2>1, <2>2, <1>2
<1>9. ASSUME NEW j \in 1..(m + n), NEW k \in 1..(m + n), q[j] = q[k]  PROVE j = k
  <2>1. CASE j \in 1..m /\ k \in 1..m
    BY <2>1, <1>2, <1>7, <1>9
  <2>2. CASE j - m \in 1..n /\ m + (j - m) = j /\ k - m \in 1..n /\ m + (k - m) = k
    <3>1. q[m + (j - m)] = g[j - m] /\ q[m + (k - m)] = g[k - m]
      BY <2>2, <1>7
    <3>2. j - m = k - m
      BY <3>1, <2>2, <1>3, <1>9
    <3> QED  BY <3>2, <2>2
  <2> QED  BY <2>1, <2>2, <1>4, <1>8, <1>9
<1>10. ASSUME NEW i \in Lasting(D)  PROVE \E k \in 1..(m + n) : q[k] = i
  <2>1. CASE i \in A
    <3>1. PICK k \in 1..m : f[k] = i
      BY <2>1, <1>2
    <3>2. k \in 1..(m + n)
      BY <1>2, <1>3
    <3> QED  BY <3>1, <3>2, <1>7
  <2>2. CASE i \in B
    <3>1. PICK k \in 1..n : g[k] = i
      BY <2>2, <1>3
    <3>2. m + k \in 1..(m + n)
      BY <1>2, <1>3
    <3> QED  BY <3>1, <3>2, <1>7
  <2> QED  BY <2>1, <2>2, <1>4
<1>11. Len(q) = m + n /\ m + n \in Nat
  BY <1>2, <1>3, <1>7
<1> QED  BY <1>4, <1>7, <1>8, <1>9, <1>10, <1>11

\* What is left before the rows that stay are queued.
Bare(D) ==
  [D EXCEPT !.out = <<>>, !.conf = [i \in Id |-> NoConflict],
            !.row = [i \in Id |-> IF i \in Lasting(D) THEN Survivor(D.row[i]) ELSE NoRow]]

\* E is the bare database F with the first k rows of q queued.
Carrying(F, E, d, q, k) ==
  /\ E.row = F.row /\ E.conf = F.conf /\ E.made = F.made + k
  /\ Len(E.out) = k
  /\ \A j \in 1..k : E.out[j] = [opId |-> <<d, F.made + j>>, action |-> "upsert", id |-> q[j],
                                 base |-> 0, data |-> F.row[q[j]].data, cascade |-> FALSE,
                                 sent |-> FALSE, tries |-> 0]

\* The database in the middle of a rebase.
LEMMA BareFacts ==
  ASSUME NEW d, NEW D, Fine(D, d), Aged(D), NEW F, F = Bare(D)
  PROVE  /\ F \in DeviceState(d) /\ F.out = <<>> /\ F.made = D.made
         /\ F.conf = [i \in Id |-> NoConflict] /\ NoConflict \in ConflictRow
         /\ \A i \in Id : NoConflict.state.data \in Data(i) /\ NoConflict.local \in Data(i)
         /\ \A i \in Lasting(D) : /\ i \in Id /\ F.row[i].data \in PayloadOf(i)
                                  /\ F.row[i].data # NoData /\ ~ F.row[i].deleted
                                  /\ F.row[i].ver >= 1 /\ F.row[i].sv = 0
                                  /\ HasRow(D, i)
         /\ \A i \in Id \ Lasting(D) : F.row[i] = NoRow
<1>1. /\ D \in DeviceState(d)
      /\ \A i \in Id : D.row[i] \in LocalRow /\ D.row[i].data \in Data(i)
  BY RowOf DEF Fine
<1>2. NoConflict \in ConflictRow /\ \A i \in Id : /\ NoConflict.state.data \in Data(i)
                                                 /\ NoConflict.local \in Data(i)
  <2>1. NoConflict.kind = "none" /\ NoConflict.state = Absent /\ NoConflict.local = NoData
        /\ NoConflict = [kind |-> "none", state |-> Absent, local |-> NoData]
        /\ Absent.data = NoData
    BY DEF NoConflict, Absent
  <2> QED  BY <2>1, NoRowFacts DEF ConflictRow
<1>3. ASSUME NEW i \in Id
      PROVE  LET r == Survivor(D.row[i])
             IN  /\ r \in LocalRow /\ r.ver = D.row[i].ver /\ r.sv = 0
                 /\ r.deleted = D.row[i].deleted /\ r.data = D.row[i].data
  <2> DEFINE p == D.row[i]
             r == Survivor(p)
  <2>1. p \in LocalRow
    BY <1>1
  <2> HIDE DEF p
  <2>2. r = [p EXCEPT !.sv = 0] /\ 0 \in Nat
    BY DEF Survivor
  <2> HIDE DEF r
  <2>3. r \in LocalRow /\ r.ver = p.ver /\ r.sv = 0 /\ r.deleted = p.deleted /\ r.data = p.data
    BY <2>1, <2>2 DEF LocalRow
  <2> QED  BY <2>3 DEF p, r
<1>4. /\ F.self = D.self /\ F.made = D.made /\ F.out = <<>>
      /\ F.conf = [i \in Id |-> NoConflict]
      /\ F.row = [i \in Id |-> IF i \in Lasting(D) THEN Survivor(D.row[i]) ELSE NoRow]
      /\ F = [self |-> F.self, made |-> F.made, row |-> F.row, out |-> F.out, conf |-> F.conf]
  BY <1>1 DEF Bare, DeviceState
<1>5. ASSUME NEW i \in Lasting(D)
      PROVE  /\ i \in Id /\ F.row[i].data \in PayloadOf(i)
             /\ F.row[i].data # NoData /\ ~ F.row[i].deleted
             /\ F.row[i].ver >= 1 /\ F.row[i].sv = 0 /\ HasRow(D, i)
  <2>1. i \in Id /\ LiveRow(D, i) /\ F.row[i] = Survivor(D.row[i])
    BY <1>4 DEF Lasting
  <2>2. D.row[i].data # NoData /\ ~ D.row[i].deleted /\ D.row[i].ver >= 1
    BY <2>1 DEF LiveRow, HasRow, Aged
  <2> QED  BY <2>1, <2>2, <1>1, <1>3 DEF Data, HasRow
<1>6. \A i \in Id \ Lasting(D) : F.row[i] = NoRow
  BY <1>4
<1>7. F \in DeviceState(d)
  <2>1. F.row \in [Id -> LocalRow]
    BY <1>3, <1>4, NoRowFacts
  <2>2. F.out \in Seq(PendingOp(d)) /\ F.conf \in [Id -> ConflictRow]
    BY <1>2, <1>4
  <2> QED  BY <1>1, <1>4, <2>1, <2>2 DEF DeviceState
<1> QED  BY <1>2, <1>4, <1>5, <1>6, <1>7

\* One more record is queued as a create.
LEMMA CarryingOn ==
  ASSUME NEW d, NEW F \in DeviceState(d), NEW q \in Seq(Id), NEW n, n = Len(q),
         \A k \in 1..n : F.row[q[k]].data \in Payload \cup {NoData},
         NEW k \in 1..n, NEW E \in DeviceState(d), Carrying(F, E, d, q, k - 1),
         NEW G, G = Enqueued(E, q[k], "upsert", E.row[q[k]].data, FALSE, 0)
  PROVE  G \in DeviceState(d) /\ Carrying(F, G, d, q, k)
<1> DEFINE o == [opId |-> <<d, F.made + k>>, action |-> "upsert", id |-> q[k], base |-> 0,
                 data |-> F.row[q[k]].data, cascade |-> FALSE, sent |-> FALSE, tries |-> 0]
<1>1. /\ n \in Nat /\ k \in Nat /\ q[k] \in Id /\ F.made \in Nat
      /\ E.row = F.row /\ E.conf = F.conf /\ E.made = F.made + (k - 1) /\ Len(E.out) = k - 1
      /\ E.self = d
  BY DEF Carrying, DeviceState
<1>2. G \in DeviceState(d)
  <2>1. Queued(E, G, d, q[k], Len(E.out) + 1, "upsert", E.row[q[k]].data)
    <3>1. "upsert" \in {"upsert", "delete"} /\ FALSE \in BOOLEAN /\ 0 \in Nat
          /\ E.row[q[k]].data \in Payload \cup {NoData}
      BY <1>1
    <3> QED  BY <1>1, <3>1, EnqueuedFacts
  <2> QED  BY <2>1 DEF Queued
<1>3. /\ G.row = E.row /\ G.conf = E.conf /\ G.made = E.made + 1
      /\ G.out = Append(E.out, [opId |-> <<E.self, E.made + 1>>, action |-> "upsert",
                                id |-> q[k], base |-> 0, data |-> E.row[q[k]].data,
                                cascade |-> FALSE, sent |-> FALSE, tries |-> 0])
  BY DEF Enqueued, DeviceState
<1>4. E.made + 1 = F.made + k
  BY <1>1
<1>5. G.out = Append(E.out, o) /\ G.made = F.made + k
  BY <1>1, <1>3, <1>4
<1>6. E.out \in Seq(PendingOp(d)) /\ o \in PendingOp(d)
  BY <1>1 DEF DeviceState, PendingOp
<1> HIDE DEF o
<1>7. Len(G.out) = k /\ (\A j \in 1..(k - 1) : G.out[j] = E.out[j]) /\ G.out[k] = o
  <2>1. /\ Len(Append(E.out, o)) = Len(E.out) + 1
        /\ \A j \in 1..Len(E.out) : Append(E.out, o)[j] = E.out[j]
        /\ Append(E.out, o)[Len(E.out) + 1] = o
    BY <1>6, AppendProperties
  <2>2. Len(E.out) = k - 1 /\ Len(E.out) + 1 = k
    BY <1>1
  <2>3. Len(G.out) = k
    BY <1>5, <2>1, <2>2
  <2>4. \A j \in 1..(k - 1) : G.out[j] = E.out[j]
    BY <1>5, <2>1, <2>2
  <2>5. G.out[k] = o
    BY <1>5, <2>1, <2>2
  <2> QED  BY <2>3, <2>4, <2>5
<1>8. \A j \in 1..k : j \in 1..(k - 1) \/ j = k
  BY <1>1
<1>9. \A j \in 1..k : G.out[j] = [opId |-> <<d, F.made + j>>, action |-> "upsert", id |-> q[j],
                                  base |-> 0, data |-> F.row[q[j]].data, cascade |-> FALSE,
                                  sent |-> FALSE, tries |-> 0]
  BY <1>7, <1>8 DEF Carrying, o
<1> QED  BY <1>1, <1>2, <1>3, <1>5, <1>7, <1>9 DEF Carrying

\* A rebase has queued all that stays.
LEMMA RebasedCarries ==
  ASSUME NEW d, NEW D, Fine(D, d), Aged(D), NEW F, F = Bare(D), NEW q, q = InOrderOf(D)
  PROVE  Rebased(D) \in DeviceState(d) /\ Carrying(F, Rebased(D), d, q, Len(q))
<1> DEFINE n == Len(q)
           X == DeviceState(d)
           Y == [k \in 0..n |-> {E \in X : Carrying(F, E, d, q, k)}]
           op(E, i) == Enqueued(E, i, "upsert", E.row[i].data, FALSE, 0)
           step == [p \in X \X (1..n) |-> op(p[1], q[p[2]])]
           Iter(g) == g = [t \in SUBSET (DOMAIN q) |->
                             IF t = {} THEN F ELSE op(g[t \ {Max(t)}], q[Max(t)])]
           iter == CHOOSE g : Iter(g)
           all == FoldLeft(LAMBDA E, i : Enqueued(E, i, "upsert", E.row[i].data, FALSE, 0), F, q)
<1>0. /\ q \in Seq(Id) /\ n \in Nat /\ DOMAIN q = 1..n
      /\ \A k \in 1..n : q[k] \in Lasting(D) /\ q[k] \in Id
  <2>1. q \in Seq(Id) /\ n \in Nat /\ \A k \in 1..n : q[k] \in Lasting(D)
    BY InOrderOfFacts
  <2> QED  BY <2>1 DEF Lasting
<1>1. all = iter[DOMAIN q]
  BY DEF FoldLeft, MapThenFoldSet
<1>2. F \in X /\ F.out = <<>> /\ F.made \in Nat
      /\ \A k \in 1..n : F.row[q[k]].data \in Payload \cup {NoData}
  <2>1. F \in DeviceState(d) /\ F.out = <<>> /\ \A i \in Lasting(D) : F.row[i].data \in PayloadOf(i)
    BY BareFacts
  <2> QED  BY <1>0, <2>1 DEF DeviceState, PayloadOf
<1>3. F \in Y[0]
  <2>1. Carrying(F, F, d, q, 0)
    BY <1>2 DEF Carrying
  <2> QED  BY <1>0, <1>2, <2>1
<1>4. ASSUME NEW E \in X, NEW k \in 1..n  PROVE op(E, q[k]) \in X
  <2>1. "upsert" \in {"upsert", "delete"} /\ FALSE \in BOOLEAN /\ 0 \in Nat
        /\ E.row[q[k]].data \in Payload \cup {NoData} /\ q[k] \in Id
    BY <1>0 DEF DeviceState, LocalRow
  <2> DEFINE G == op(E, q[k])
  <2>2. G = Enqueued(E, q[k], "upsert", E.row[q[k]].data, FALSE, 0)
    OBVIOUS
  <2> HIDE DEF G
  <2>3. Queued(E, G, d, q[k], Len(E.out) + 1, "upsert", E.row[q[k]].data)
    BY <2>1, <2>2, EnqueuedFacts
  <2>4. G \in X
    BY <2>3 DEF Queued
  <2> QED  BY <2>4 DEF G
<1>5. ASSUME NEW k \in 1..n, NEW E \in X, E \in Y[k - 1]  PROVE op(E, q[k]) \in Y[k]
  <2>1. k - 1 \in 0..n /\ k \in 0..n
    BY <1>0
  <2>2. Carrying(F, E, d, q, k - 1)
    BY <1>5, <2>1
  <2> DEFINE G == op(E, q[k])
  <2>3. G = Enqueued(E, q[k], "upsert", E.row[q[k]].data, FALSE, 0)
    OBVIOUS
  <2> HIDE DEF G
  <2>4. G \in X /\ Carrying(F, G, d, q, k)
    BY <1>0, <1>2, <2>2, <2>3, CarryingOn
  <2>5. G \in Y[k]
    BY <2>1, <2>4
  <2> QED  BY <2>5 DEF G
<1> HIDE DEF op, X, Y, all
<1>6. step \in [X \X (1..n) -> X] /\ \A a \in X : \A k \in 1..n :
        step[<<a, k>>] = op(a, q[k])
  BY <1>4
<1> HIDE DEF step
<1>7. \E g : Iter(g)
  <2>1. PICK f \in [SUBSET (1..n) -> X] : Iterates(f, n, F, step)
    BY <1>0, <1>2, <1>6, IterExists
  <2>2. \A t \in SUBSET (1..n) :
          f[t] = IF t = {} THEN F ELSE step[<<f[t \ {Max(t)}], Max(t)>>]
    BY <2>1 DEF Iterates
  <2>3. ASSUME NEW t \in SUBSET (1..n), t # {}
        PROVE  step[<<f[t \ {Max(t)}], Max(t)>>] = op(f[t \ {Max(t)}], q[Max(t)])
    <3>1. Max(t) \in 1..n
      BY <1>0, <2>3, MaxFacts
    <3>2. f[t \ {Max(t)}] \in X
      BY <2>1
    <3> QED  BY <3>1, <3>2, <1>6
  <2>4. \A t \in SUBSET (1..n) :
          f[t] = IF t = {} THEN F ELSE op(f[t \ {Max(t)}], q[Max(t)])
    BY <2>2, <2>3
  <2>5. f = [t \in SUBSET (1..n) |-> f[t]]
    BY <2>1
  <2>6. f = [t \in SUBSET (DOMAIN q) |->
               IF t = {} THEN F ELSE op(f[t \ {Max(t)}], q[Max(t)])]
    BY <1>0, <2>4, <2>5
  <2>7. Iter(f)
    BY <2>6
  <2> QED
    <3> HIDE DEF Iter
    <3> QED  BY <2>7
<1>8. Iter(iter)
  <2> HIDE DEF Iter
  <2> QED  BY <1>7
<1> HIDE DEF iter
<1>9. \A t \in SUBSET (1..n) :
        iter[t] = IF t = {} THEN F ELSE op(iter[t \ {Max(t)}], q[Max(t)])
  BY <1>0, <1>8
<1> DEFINE Z == [k \in 0..n |-> X \cap Y[k]]
<1>10. iter[{}] \in Z[0]
  <2>1. {} \in SUBSET (1..n) /\ 0 \in 0..n
    BY <1>0
  <2>2. iter[{}] = F
    BY <1>9, <2>1
  <2> QED  BY <2>1, <2>2, <1>2, <1>3
<1>11. ASSUME NEW k \in Nat, k + 1 <= n, iter[1..k] \in Z[k]
       PROVE  iter[1..(k + 1)] \in Z[k + 1]
  <2>1. /\ 1..(k + 1) \in SUBSET (1..n) /\ 1..(k + 1) # {}
        /\ (1..(k + 1)) \ {k + 1} = 1..k /\ k + 1 \in 1..n
        /\ Max(1..(k + 1)) = k + 1
    BY <1>0, <1>11, Prefix
  <2>2. iter[1..(k + 1)] = op(iter[1..k], q[k + 1])
    BY <1>9, <2>1
  <2>3. k \in 0..n /\ k + 1 \in 0..n /\ (k + 1) - 1 = k
    BY <1>0, <1>11
  <2>4. iter[1..k] \in X /\ iter[1..k] \in Y[k]
    BY <1>11, <2>3
  <2>5. op(iter[1..k], q[k + 1]) \in X /\ op(iter[1..k], q[k + 1]) \in Y[k + 1]
    BY <1>4, <1>5, <2>1, <2>3, <2>4
  <2> QED  BY <2>2, <2>3, <2>5
<1>12. iter[1..n] \in Z[n]
  <2> HIDE DEF Z
  <2> QED  BY <1>0, <1>10, <1>11, Climbs
<1>13. all \in X /\ all \in Y[n] /\ n \in 0..n
  BY <1>0, <1>1, <1>12
<1>14. Rebased(D) = all
  BY DEF Rebased, Bare, Lasting, InOrderOf, all
<1>15. Carrying(F, all, d, q, n)
  BY <1>13 DEF Y
<1> QED  BY <1>13, <1>14, <1>15 DEF X

\* A rebase leaves a well-formed database, whose operations have ids no server and
\* no request has seen.
LEMMA RebasedOn ==
  ASSUME NEW d, NEW D, Fine(D, d), Aged(D)
  PROVE  Leads(D, Rebased(D), d, {}) /\ Aged(Rebased(D))
<1> DEFINE E == Rebased(D)
           F == Bare(D)
           q == InOrderOf(D)
           n == Len(q)
<1>1. E \in DeviceState(d) /\ Carrying(F, E, d, q, n)
  BY RebasedCarries
<1>2. /\ F \in DeviceState(d) /\ F.made = D.made
      /\ F.conf = [i \in Id |-> NoConflict] /\ NoConflict \in ConflictRow
      /\ \A i \in Id : NoConflict.state.data \in Data(i) /\ NoConflict.local \in Data(i)
      /\ \A i \in Lasting(D) : /\ i \in Id /\ F.row[i].data \in PayloadOf(i)
                               /\ F.row[i].data # NoData /\ ~ F.row[i].deleted
                               /\ F.row[i].ver >= 1 /\ F.row[i].sv = 0
                               /\ HasRow(D, i)
      /\ \A i \in Id \ Lasting(D) : F.row[i] = NoRow
  BY BareFacts
<1>3. /\ q \in Seq(Id) /\ n \in Nat
      /\ \A k \in 1..n : q[k] \in Lasting(D)
      /\ \A j, k \in 1..n : q[j] = q[k] => j = k
      /\ \A i \in Lasting(D) : \E k \in 1..n : q[k] = i
  BY InOrderOfFacts
<1> HIDE DEF E, F, q, n
<1>4. /\ E.row = F.row /\ E.conf = F.conf /\ E.made = D.made + n /\ D.made \in Nat
      /\ DOMAIN E.out = 1..n
  <2>1. E.row = F.row /\ E.conf = F.conf /\ E.made = F.made + n /\ Len(E.out) = n
    BY <1>1 DEF Carrying
  <2>2. DOMAIN E.out = 1..Len(E.out)
    BY <1>1, OutFacts
  <2> QED  BY <1>2, <2>1, <2>2 DEF DeviceState
<1>5. ASSUME NEW k \in 1..n
      PROVE  /\ E.out[k].opId = <<d, D.made + k>> /\ E.out[k].action = "upsert"
             /\ E.out[k].id = q[k] /\ ~ E.out[k].sent /\ E.out[k].data = F.row[q[k]].data
  <2>1. E.out[k] = [opId |-> <<d, F.made + k>>, action |-> "upsert", id |-> q[k],
                    base |-> 0, data |-> F.row[q[k]].data, cascade |-> FALSE,
                    sent |-> FALSE, tries |-> 0]
    BY <1>1 DEF Carrying
  <2> QED  BY <1>2, <2>1
<1>6. \A k \in 1..n : /\ E.out[k].opId[2] = D.made + k
                      /\ D.made + k \in 1..E.made /\ D.made + k > D.made
  BY <1>3, <1>4, <1>5
<1>7. Numbered(E)
  <2>1. ASSUME NEW j \in DOMAIN E.out, NEW k \in DOMAIN E.out, E.out[j].opId = E.out[k].opId
        PROVE  j = k
    <3>1. j \in 1..n /\ k \in 1..n
      BY <1>4
    <3>2. D.made + j = D.made + k
      BY <1>6, <2>1, <3>1
    <3> QED  BY <1>3, <1>4, <3>1, <3>2
  <2>2. \A k \in DOMAIN E.out : E.out[k].opId[2] \in 1..E.made
    BY <1>4, <1>6
  <2> QED  BY <2>1, <2>2 DEF Numbered
<1>8. Follows(D, E)
  <2>1. E.made >= D.made
    BY <1>3, <1>4
  <2> QED  BY <2>1, <1>4, <1>5, <1>6 DEF Follows
<1>9. ASSUME NEW i \in Lasting(D)
      PROVE  /\ Sound(E, i) /\ Waiting(E, i) /\ i \in Id
  <2>1. PICK k \in 1..n : q[k] = i
    BY <1>3
  <2>2. i \in Id /\ OpsOf(E, i) = {k}
    <3>1. i \in Id
      BY <1>2
    <3>2. \A j \in 1..n : E.out[j].id = i <=> j = k
      BY <2>1, <1>3, <1>5
    <3> QED  BY <1>4, <3>1, <3>2 DEF OpsOf
  <2>3. Cardinality(OpsOf(E, i)) = 1
    BY <2>2, FS_Singleton
  <2>4. E.row[i] = F.row[i] /\ F.row[i] \in LocalRow
    BY <1>2, <1>4, <2>2 DEF DeviceState
  <2>5. /\ E.row[i].data \in Data(i) /\ HasRow(E, i)
        /\ E.row[i].ver >= E.row[i].sv + Cardinality(OpsOf(E, i))
    <3>1. E.row[i].ver >= 0 + 1 /\ E.row[i].sv = 0
      BY <1>2, <2>4 DEF LocalRow
    <3> QED  BY <1>2, <2>3, <2>4, <3>1 DEF Data, HasRow
  <2>6. E.out[k].action = "upsert" /\ ~ E.out[k].sent /\ E.out[k].data \in PayloadOf(i)
    BY <1>2, <1>5, <2>1
  <2>7. Sound(E, i)
    BY <2>2, <2>5, <2>6 DEF Sound
  <2>8. Waiting(E, i)
    BY <2>2 DEF Waiting
  <2> QED  BY <2>2, <2>7, <2>8
<1>10. ASSUME NEW i \in Id \ Lasting(D)
       PROVE  Sound(E, i) /\ Waiting(E, i) /\ ~ HasRow(E, i)
  <2>1. E.row[i] = NoRow
    BY <1>2, <1>4
  <2>2. OpsOf(E, i) = {}
    <3>1. \A k \in 1..n : E.out[k].id \in Lasting(D)
      BY <1>3, <1>5
    <3>2. \A k \in DOMAIN E.out : E.out[k].id # i
      BY <1>4, <3>1
    <3> QED  BY <3>2 DEF OpsOf
  <2> QED  BY <1>1, <2>1, <2>2, NoRowFacts, QuietSound DEF HasRow
<1>11. \A i \in Id : Told(E, i)
  BY <1>2, <1>4 DEF Told
<1>12. Fine(E, d)
  BY <1>1, <1>7, <1>9, <1>10, <1>11 DEF Fine
<1>13. \A i \in Id : HasRow(E, i) => HasRow(D, i)
  BY <1>2, <1>10
<1>14. Aged(E)
  BY <1>2, <1>4, <1>10 DEF Aged, LiveRow
<1> QED  BY <1>8, <1>12, <1>13, <1>14 DEF Leads, E

-----------------------------------------------------------------------------
(* The invariant.                                                          *)

\* The state beside the records.
Accounts ==
  /\ home \in [User -> Household] /\ meta \in [Device -> Meta]
  /\ app \in [Device -> App] /\ cookie \in [Device -> User \cup {NoUser}]
  /\ crossed \subseteq Device /\ robbed \subseteq Household

\* dev, net and late are tables of the devices.
Tables ==
  /\ dev = [d \in Device |-> dev[d]] /\ net = [d \in Device |-> net[d]]
  /\ late = [d \in Device |-> late[d]]

\* The invariant of the households and of every device.
Served ==
  /\ Tables
  /\ HouseholdsOK(srv, born)
  /\ \A d \in Device : DeviceOK(d, dev[d], net[d], late[d], srv, born)

\* No request.
LEMMA IdleFacts ==
  ASSUME NEW d
  PROVE  /\ Idle \in RequestOf(d) /\ Idle.batch = <<>> /\ Idle.page = <<>>
         /\ Idle.phase = "idle" /\ ~ Idle.stale /\ AsAnswered(Idle)
<1>1. /\ Idle.phase = "idle" /\ Idle.batch = <<>> /\ Idle.answers = <<>> /\ Idle.page = <<>>
      /\ Idle.who = NoUser /\ Idle.under = NoHousehold /\ Idle.cursor = 0
      /\ Idle.at = NoHousehold /\ Idle.stale = FALSE
      /\ Idle = [phase |-> "idle", batch |-> <<>>, answers |-> <<>>, page |-> <<>>,
                 who |-> NoUser, under |-> NoHousehold, cursor |-> 0,
                 at |-> NoHousehold, stale |-> FALSE]
  BY DEF Idle
<1>2. Idle \in RequestOf(d)
  BY <1>1 DEF RequestOf
<1> QED  BY <1>1, <1>2 DEF AsAnswered

\* A new request.
LEMMA RequestFacts ==
  ASSUME Accounts, NEW d \in Device, NEW phase \in {"push", "pull"},
         NEW batch \in Seq(WireOp(d)), NEW R, R = Request(d, phase, batch)
  PROVE  /\ R \in RequestOf(d) /\ R.page = <<>> /\ R.phase = phase /\ R.batch = batch
<1>1. /\ cookie[d] \in User \cup {NoUser} /\ meta[d].marker \in Household \cup {NoHousehold}
      /\ meta[d].cursor \in Nat
  BY DEF Accounts, Meta
<1>2. /\ R.phase = phase /\ R.batch = batch /\ R.answers = <<>> /\ R.page = <<>>
      /\ R.who = cookie[d] /\ R.under = meta[d].marker /\ R.cursor = meta[d].cursor
      /\ R.at = NoHousehold /\ R.stale = FALSE
      /\ R = [phase |-> phase, batch |-> batch, answers |-> <<>>, page |-> <<>>,
              who |-> cookie[d], under |-> meta[d].marker, cursor |-> meta[d].cursor,
              at |-> NoHousehold, stale |-> FALSE]
  BY DEF Request, Idle
<1> HIDE DEF Request
<1>3. R \in RequestOf(d)
  BY <1>1, <1>2 DEF RequestOf
<1> QED  BY <1>2, <1>3

\* Initially.
LEMMA InitServed ==
  ASSUME Init
  PROVE  Accounts /\ Served
<1>1. HouseholdsOK(srv, born)
  <2> DEFINE s == EmptyServer
  <2>1. /\ s.rec = [i \in Id |-> Absent] /\ s.log = {} /\ s.seq = 0
        /\ s.applied = [o \in OpId |-> NotApplied]
        /\ s = [rec |-> s.rec, log |-> s.log, seq |-> s.seq, applied |-> s.applied]
    BY DEF EmptyServer
  <2>2. srv = [h \in Household |-> s]
    BY DEF Init
  <2> HIDE DEF s
  <2>3. Absent \in Row /\ Absent.ver = 0 /\ \A i \in Id : Absent.data \in Data(i)
    BY NoRowFacts DEF Absent
  <2>4. NotApplied \in Int
    BY DEF NotApplied
  <2>5. s \in ServerState
    BY <2>1, <2>3, <2>4 DEF ServerState
  <2>6. IsFiniteSet(s.log)
    BY <2>1, FS_EmptySet
  <2>7. KnownTo(s) = {}
    BY <2>1, <2>3 DEF KnownTo, Found
  <2>8. ServerOK(s) /\ Counted(s)
    BY <2>1, <2>3, <2>5, <2>6 DEF ServerOK, Counted
  <2> QED  BY <2>2, <2>5, <2>7, <2>8 DEF HouseholdsOK
<1>2. ASSUME NEW d \in Device  PROVE DeviceOK(d, dev[d], net[d], late[d], srv, born)
  <2> DEFINE D == EmptyDevice(d)
  <2>1. dev[d] = D /\ net[d] = Idle /\ late[d] = Idle
    BY DEF Init
  <2>2. D = [self |-> d, made |-> 0, row |-> [i \in Id |-> NoRow], out |-> <<>>,
             conf |-> [i \in Id |-> NoConflict]]
    BY DEF EmptyDevice
  <2> HIDE DEF D
  <2>3. /\ Fine(D, d) /\ Aged(D) /\ D.made = 0 /\ DOMAIN D.out = {}
        /\ \A i \in Id : ~ HasRow(D, i)
    BY <2>2, BlankFine
  <2>4. /\ Idle \in RequestOf(d) /\ Idle.batch = <<>> /\ Idle.page = <<>> /\ AsAnswered(Idle)
    BY IdleFacts
  <2>5. Wires(Idle, Idle) = {} /\ DOMAIN Idle.page = {}
    BY <2>4 DEF Wires, Range
  <2>6. ASSUME NEW h \in Household  PROVE SeenByServer(d, D, Idle, Idle, srv[h])
    <3>1. srv[h].applied = [o \in OpId |-> NotApplied]
      BY DEF Init, EmptyServer
    <3>2. \A n \in 1..MaxOps : <<d, n>> \in OpId
      BY OpIdAssumption
    <3> QED  BY <2>3, <2>5, <3>1, <3>2 DEF SeenByServer
  <2>7. DeviceOK(d, D, Idle, Idle, srv, born)
    <3>1. D.made <= MaxOps
      BY <2>3, OpIdAssumption
    <3>2. Heard(D, Idle, Idle, born)
      BY <2>3, <2>5 DEF Heard
    <3> QED  BY <2>3, <2>4, <2>5, <2>6, <3>1, <3>2 DEF DeviceOK
  <2> QED  BY <2>1, <2>7
<1>3. Tables
  BY DEF Init, Tables
<1>4. Accounts
  <2>1. Unowned \in Meta
    BY DEF Unowned, Meta
  <2>2. Closed \in App
    BY DEF Closed, App
  <2> QED  BY <2>1, <2>2 DEF Init, Accounts
<1> QED  BY <1>1, <1>2, <1>3, <1>4 DEF Served

-----------------------------------------------------------------------------
(* One device, or none, takes a step.                                      *)

\* A step of the device d, or of none: the others keep their parts, for they only
\* look at what the households say of their own operation ids.
LEMMA OthersOn ==
  ASSUME Served, NEW d, Tables', HouseholdsOK(srv, born)', born \subseteq born',
         \A x \in Device \ {d} :
           /\ dev'[x] = dev[x] /\ net'[x] = net[x] /\ late'[x] = late[x]
           /\ \A h \in Household, o \in OpId :
                o[1] = x => srv'[h].applied[o] = srv[h].applied[o],
         d \in Device => DeviceOK(d, dev'[d], net'[d], late'[d], srv', born')
  PROVE  Served'
<1>1. ASSUME NEW x \in Device  PROVE DeviceOK(x, dev'[x], net'[x], late'[x], srv', born')
  <2>1. DeviceOK(x, dev[x], net[x], late[x], srv, born)
    BY DEF Served
  <2>2. CASE x = d
    BY <2>2
  <2>3. CASE x # d
    <3>1. DeviceOK(x, dev[x], net[x], late[x], srv', born')
      BY <2>1, <2>3, ServerMovesOn
    <3> QED  BY <2>3, <3>1
  <2> QED  BY <2>2, <2>3
<1> QED  BY <1>1 DEF Served

\* Nothing but accounts changes.
LEMMA SameServed ==
  ASSUME Served, UNCHANGED <<srv, dev, net, late, born>>
  PROVE  Served'
BY DEF Served, Tables, HouseholdsOK

-----------------------------------------------------------------------------
(* Users.                                                                  *)

\* A write to the database of d alone.
LEMMA LocallyOn ==
  ASSUME Served, NEW d \in Device, NEW D, Locally(d, D), NEW M, Leads(dev[d], D, d, M),
         Aged(D), born \subseteq born', M \subseteq born'
  PROVE  Served'
<1>1. /\ D.made <= MaxOps /\ dev' = [dev EXCEPT ![d] = D] /\ net' = net /\ late' = late
      /\ srv' = srv /\ dev'[d] = D
  BY DEF Locally, Served, Tables
<1>2. DeviceOK(d, dev[d], net[d], late[d], srv, born)
  BY DEF Served
<1>3. DeviceOK(d, D, net[d], late[d], srv, born')
  BY <1>1, <1>2, DeviceLed
<1>5. /\ Tables'
      /\ \A x \in Device \ {d} : dev'[x] = dev[x] /\ net'[x] = net[x] /\ late'[x] = late[x]
  BY <1>1 DEF Served, Tables
<1>6. HouseholdsOK(srv', born')
  BY <1>1 DEF Served, HouseholdsOK
<1> QED  BY <1>1, <1>3, <1>5, <1>6, OthersOn

\* The user creates, edits, removes, or settles a conflict.
LEMMA UsersOn ==
  ASSUME Served, NEW d \in Device, NEW i \in Id
  PROVE  /\ \A data \in PayloadOf(i) :
              UserCreates(d, i, data) \/ UserUpdates(d, i, data) => Served'
         /\ \A cascade \in BOOLEAN : UserRemoves(d, i, cascade) => Served'
         /\ UserSettles(d, i) => Served'
<1> DEFINE D == dev[d]
<1>1. DeviceOK(d, D, net[d], late[d], srv, born)
  BY DEF Served
<1>2. Fine(D, d) /\ Aged(D) /\ D \in DeviceState(d) /\ \A j \in Id : HasRow(D, j) => j \in born
  BY <1>1 DEF DeviceOK, Fine, Heard
<1> HIDE DEF D
<1>3. ASSUME NEW data \in PayloadOf(i), UserCreates(d, i, data)  PROVE Served'
  <2>1. i \notin born /\ born' = born \cup {i} /\ Locally(d, LocalCreate(D, i, data))
    BY <1>3 DEF UserCreates, D
  <2> DEFINE E == LocalCreate(D, i, data)
  <2>2. Leads(D, E, d, {i}) /\ Aged(E)
    BY <1>2, <2>1, CreateFine, CreateAged
  <2> HIDE DEF E
  <2>3. Locally(d, E) /\ born \subseteq born' /\ {i} \subseteq born'
    BY <2>1 DEF E
  <2> QED  BY <2>2, <2>3, LocallyOn DEF D
<1>4. ASSUME NEW data \in PayloadOf(i), UserUpdates(d, i, data)  PROVE Served'
  <2>1. LiveRow(D, i) /\ born' = born /\ Locally(d, LocalUpdate(D, i, data))
    BY <1>4 DEF UserUpdates, D
  <2> DEFINE E == LocalUpdate(D, i, data)
  <2>2. Leads(D, E, d, {}) /\ Aged(E)
    BY <1>2, <2>1, UpdateFine, UpdateAged
  <2> HIDE DEF E
  <2>3. Locally(d, E) /\ born \subseteq born' /\ {} \subseteq born'
    BY <2>1 DEF E
  <2> QED  BY <2>2, <2>3, LocallyOn DEF D
<1>5. ASSUME NEW cascade \in BOOLEAN, UserRemoves(d, i, cascade)  PROVE Served'
  <2>1. LiveRow(D, i) /\ born' = born /\ Locally(d, LocalRemove(D, i, cascade))
    BY <1>5 DEF UserRemoves, D
  <2> DEFINE E == LocalRemove(D, i, cascade)
  <2>2. Leads(D, E, d, {}) /\ Aged(E)
    BY <1>2, <2>1, RemoveFine, RemoveAged
  <2> HIDE DEF E
  <2>3. Locally(d, E) /\ born \subseteq born' /\ {} \subseteq born'
    BY <2>1 DEF E
  <2> QED  BY <2>2, <2>3, LocallyOn DEF D
<1>6. ASSUME UserSettles(d, i)  PROVE Served'
  <2>1. born' = born /\ \E E \in {KeepLocal(D, i), TakeServer(D, i), Resolved(D, i)} :
                          Locally(d, E)
    BY <1>6 DEF UserSettles, D
  <2>2. PICK E \in {KeepLocal(D, i), TakeServer(D, i), Resolved(D, i)} : Locally(d, E)
    BY <2>1
  <2>3. Leads(D, KeepLocal(D, i), d, {}) /\ Aged(KeepLocal(D, i))
    BY <1>2, KeepLocalFine, KeepLocalAged
  <2>4. Leads(D, TakeServer(D, i), d, {}) /\ Aged(TakeServer(D, i))
    BY <1>2, TakeServerFine, TakeServerAged
  <2>5. Leads(D, Resolved(D, i), d, {}) /\ Aged(Resolved(D, i))
    BY <1>2, ResolvedFine, ResolvedAged
  <2>6. Leads(D, E, d, {}) /\ Aged(E)
    BY <2>2, <2>3, <2>4, <2>5
  <2>7. born \subseteq born' /\ {} \subseteq born'
    BY <2>1
  <2> QED  BY <2>2, <2>6, <2>7, LocallyOn DEF D
<1> QED  BY <1>3, <1>4, <1>5, <1>6

\* What another device of a member pushes.
LEMMA OthersPushOn ==
  ASSUME Served, Accounts, NEW h \in Household, NEW i \in Id, NEW data \in PayloadOf(i),
         OthersPush(h, i, data)
  PROVE  Served' /\ robbed' \subseteq Household
<1>1. /\ born' = born \cup {i} /\ UNCHANGED <<dev, net, late>>
      /\ \E action \in {"upsert", "delete"}, order \in Orders :
           LET w == [action |-> action, id |-> i, base |-> srv[h].rec[i].ver,
                     data |-> IF action = "upsert" THEN data ELSE NoData,
                     cascade |-> FALSE]
               a == Pushed(Untouched, h, w, Perform(srv[h], w, order))
           IN  srv' = a.srv /\ robbed' = a.robbed
  BY DEF OthersPush
<1>2. PICK action \in {"upsert", "delete"}, order \in Orders :
        LET w == [action |-> action, id |-> i, base |-> srv[h].rec[i].ver,
                  data |-> IF action = "upsert" THEN data ELSE NoData,
                  cascade |-> FALSE]
            a == Pushed(Untouched, h, w, Perform(srv[h], w, order))
        IN  srv' = a.srv /\ robbed' = a.robbed
  BY <1>1
<1> DEFINE w == [action |-> action, id |-> i, base |-> srv[h].rec[i].ver,
                 data |-> IF action = "upsert" THEN data ELSE NoData,
                 cascade |-> FALSE]
           o == Perform(srv[h], w, order)
           a == Pushed(Untouched, h, w, o)
<1>3. srv' = a.srv /\ robbed' = a.robbed
  BY <1>2
<1>4. /\ HouseholdsOK(srv, born) /\ HouseholdsOK(srv, born') /\ ServerOK(srv[h])
      /\ Counted(srv[h]) /\ KnownTo(srv[h]) \subseteq born
      /\ srv[h] \in ServerState
  BY <1>1 DEF Served, HouseholdsOK
<1>5. srv[h].rec[i].ver \in Nat
  BY <1>4 DEF ServerState, Row
<1>6. Sensible(w) /\ w.id = i
  BY <1>5 DEF Sensible
<1>7. Untouched \in Underway /\ Untouched.srv = srv
  BY <1>4, UntouchedFacts DEF Accounts
<1> HIDE DEF w
<1>8. /\ ServerOK(o.srv) /\ Counted(o.srv) /\ o.srv.applied = srv[h].applied
      /\ Answers(o.answer, w) /\ KnownTo(o.srv) \subseteq KnownTo(srv[h]) \cup {w.id}
  BY <1>4, <1>6, PerformFine
<1>9. KnownTo(o.srv) \subseteq born'
  BY <1>1, <1>4, <1>6, <1>8
<1> HIDE DEF o
<1>10. Adds(Untouched, a, h, w, o, born')
  BY <1>4, <1>6, <1>7, <1>8, <1>9, PushedAdds
<1> HIDE DEF a
<1>11. /\ a.srv \in [Household -> ServerState] /\ a.robbed \subseteq Household
       /\ HouseholdsOK(a.srv, born')
       /\ \A g \in Household : a.srv[g].applied = srv[g].applied
  BY <1>7, <1>8, <1>10 DEF Adds, Underway
<1>12. \A x \in Device : DeviceOK(x, dev[x], net[x], late[x], srv', born')
  <2>1. \A g \in Household, p \in OpId : srv'[g].applied[p] = srv[g].applied[p]
    BY <1>3, <1>11
  <2>2. born \subseteq born'
    BY <1>1
  <2> QED  BY <2>1, <2>2, ServerMovesOn DEF Served
<1>13. Tables'
  BY <1>1 DEF Served, Tables
<1> QED  BY <1>1, <1>3, <1>11, <1>12, <1>13 DEF Served

-----------------------------------------------------------------------------
(* The app and its gates.                                                  *)

\* The types of the app's parts.
LEMMA AppFacts ==
  ASSUME Accounts, NEW d \in Device
  PROVE  /\ app[d] \in App /\ meta[d] \in Meta
         /\ app[d].user \in User \cup {NoUser} /\ app[d].pending \in User \cup {NoUser}
         /\ app[d].seen \in Household \cup {NoHousehold}
         /\ \A a \in App : [app EXCEPT ![d] = a] \in [Device -> App]
BY DEF Accounts, App

\* Nothing but the app and what it knows of its device changes.
LEMMA GatesOn ==
  ASSUME Accounts, NEW d \in Device, NEW a \in App, Gates(d, a),
         meta' \in [Device -> Meta], cookie' \in [Device -> User \cup {NoUser}],
         UNCHANGED <<dev, crossed>>, Served
  PROVE  Accounts' /\ Served'
<1>1. app' \in [Device -> App] /\ UNCHANGED <<srv, home, net, late, robbed, born, dev, crossed>>
  BY AppFacts DEF Gates
<1> QED  BY <1>1, SameServed DEF Accounts

\* Signing in and out.
LEMMA SigningOn ==
  ASSUME Accounts, Served, NEW d \in Device
  PROVE  /\ \A u \in User : Login(d, u) => Accounts' /\ Served'
         /\ PassOwnership(d) => Accounts' /\ Served'
         /\ Logout(d) => Accounts' /\ Served'
<1>1. /\ app[d] \in App /\ meta[d] \in Meta /\ app[d].pending \in User \cup {NoUser}
  BY AppFacts
<1>2. ASSUME NEW u \in User, Login(d, u)  PROVE Accounts' /\ Served'
  <2> DEFINE a == [app[d] EXCEPT !.pending = u]
  <2>1. a \in App
    BY <1>1 DEF App
  <2> HIDE DEF a
  <2>2. Gates(d, a) /\ UNCHANGED <<dev, meta, crossed>> /\ cookie' = [cookie EXCEPT ![d] = u]
    BY <1>2 DEF Login, a
  <2>3. meta' \in [Device -> Meta] /\ cookie' \in [Device -> User \cup {NoUser}]
    BY <2>2 DEF Accounts
  <2> QED  BY <2>1, <2>2, <2>3, GatesOn
<1>3. ASSUME PassOwnership(d)  PROVE Accounts' /\ Served'
  <2> DEFINE a == Authenticated(app[d])
  <2>1. a \in App
    BY <1>1 DEF App, Authenticated
  <2> HIDE DEF a
  <2>2. /\ Gates(d, a) /\ UNCHANGED <<dev, cookie, crossed>>
        /\ meta' = [meta EXCEPT ![d].owner = app[d].pending]
    BY <1>3 DEF PassOwnership, a
  <2>3. meta' \in [Device -> Meta] /\ cookie' \in [Device -> User \cup {NoUser}]
    BY <1>1, <2>2 DEF Accounts, Meta
  <2> QED  BY <2>1, <2>2, <2>3, GatesOn
<1>4. ASSUME Logout(d)  PROVE Accounts' /\ Served'
  <2> DEFINE a == [app[d] EXCEPT !.user = NoUser, !.pending = NoUser, !.current = FALSE]
  <2>1. a \in App
    BY <1>1 DEF App
  <2> HIDE DEF a
  <2>2. Gates(d, a) /\ UNCHANGED <<dev, meta, crossed>> /\ cookie' = [cookie EXCEPT ![d] = NoUser]
    BY <1>4 DEF Logout, a
  <2>3. meta' \in [Device -> Meta] /\ cookie' \in [Device -> User \cup {NoUser}]
    BY <2>2 DEF Accounts
  <2> QED  BY <2>1, <2>2, <2>3, GatesOn
<1> QED  BY <1>2, <1>3, <1>4

\* Past a gate the app is an app.
LEMMA PassedApp ==
  ASSUME NEW a \in App
  PROVE  Passed(a) \in App /\ Authenticated(a) \in App
BY DEF App, Passed, Authenticated

\* Asking for the household, and the steps of a clean start after the wipe.
LEMMA AskingOn ==
  ASSUME Accounts, Served, NEW d \in Device
  PROVE  /\ AskHousehold(d) => Accounts' /\ Served'
         /\ AskFails(d) => Accounts' /\ Served'
         /\ CheckHousehold(d) => Accounts' /\ Served'
         /\ CleanOwns(d) => Accounts' /\ Served'
         /\ CleanStamps(d) => Accounts' /\ Served'
<1>1. /\ app[d] \in App /\ meta[d] \in Meta /\ app[d].user \in User \cup {NoUser}
      /\ app[d].seen \in Household \cup {NoHousehold}
      /\ meta \in [Device -> Meta] /\ cookie \in [Device -> User \cup {NoUser}]
      /\ home \in [User -> Household]
  BY AppFacts DEF Accounts
<1>2. ASSUME AskHousehold(d)  PROVE Accounts' /\ Served'
  <2> DEFINE a == [app[d] EXCEPT !.gate = "asked", !.held = TRUE, !.seen = home[cookie[d]]]
  <2>1. home[cookie[d]] \in Household
    BY <1>1, <1>2 DEF AskHousehold
  <2>2. a \in App
    BY <1>1, <2>1 DEF App
  <2> HIDE DEF a
  <2>3. Gates(d, a) /\ UNCHANGED <<dev, meta, cookie, crossed>>
    BY <1>2 DEF AskHousehold, a
  <2> QED  BY <1>1, <2>2, <2>3, GatesOn
<1>3. ASSUME AskFails(d)  PROVE Accounts' /\ Served'
  <2> DEFINE a == [app[d] EXCEPT !.gate = "none", !.held = FALSE, !.current = FALSE,
                                 !.seen = NoHousehold]
  <2>2. a \in App
    BY <1>1 DEF App
  <2> HIDE DEF a
  <2>3. Gates(d, a) /\ UNCHANGED <<dev, meta, cookie, crossed>>
    BY <1>3 DEF AskFails, a
  <2> QED  BY <1>1, <2>2, <2>3, GatesOn
<1>4. ASSUME CheckHousehold(d)  PROVE Accounts' /\ Served'
  <2>1. Passed(app[d]) \in App
    BY <1>1, PassedApp
  <2>2. [app[d] EXCEPT !.gate = "choose"] \in App
    BY <1>1 DEF App
  <2>3. [meta EXCEPT ![d].marker = app[d].seen] \in [Device -> Meta]
    BY <1>1 DEF Meta
  <2>4. UNCHANGED <<dev, cookie, crossed>>
    BY <1>4 DEF CheckHousehold
  <2>5. \/ /\ meta' = [meta EXCEPT ![d].marker = app[d].seen]
           /\ Gates(d, Passed(app[d]))
        \/ Gates(d, [app[d] EXCEPT !.gate = "choose"]) /\ UNCHANGED meta
    BY <1>4 DEF CheckHousehold
  <2>6. meta' \in [Device -> Meta] /\ cookie' \in [Device -> User \cup {NoUser}]
    BY <1>1, <2>3, <2>4, <2>5
  <2>7. \E a \in App : Gates(d, a)
    BY <2>1, <2>2, <2>5
  <2> QED  BY <2>4, <2>6, <2>7, GatesOn
<1>5. ASSUME CleanOwns(d)  PROVE Accounts' /\ Served'
  <2> DEFINE a == [app[d] EXCEPT !.gate = "owned"]
  <2>2. a \in App
    BY <1>1 DEF App
  <2> HIDE DEF a
  <2>3. /\ Gates(d, a) /\ UNCHANGED <<dev, cookie, crossed>>
        /\ meta' = [meta EXCEPT ![d].owner = IF app[d].user = NoUser THEN @ ELSE app[d].user]
    BY <1>5 DEF CleanOwns, a
  <2>4. meta' \in [Device -> Meta]
    BY <1>1, <2>3 DEF Meta
  <2> QED  BY <1>1, <2>2, <2>3, <2>4, GatesOn
<1>6. ASSUME CleanStamps(d)  PROVE Accounts' /\ Served'
  <2> DEFINE a == Passed(app[d])
  <2>2. a \in App
    BY <1>1, PassedApp
  <2> HIDE DEF a
  <2>3. /\ Gates(d, a) /\ UNCHANGED <<dev, cookie, crossed>>
        /\ meta' = [meta EXCEPT ![d].marker = app[d].seen]
    BY <1>6 DEF CleanStamps, a
  <2>4. meta' \in [Device -> Meta]
    BY <1>1, <2>3 DEF Meta
  <2> QED  BY <1>1, <2>2, <2>3, <2>4, GatesOn
<1> QED  BY <1>2, <1>3, <1>4, <1>5, <1>6

\* A user moves.
LEMMA MovesOn ==
  ASSUME Accounts, Served, NEW h \in Household
  PROVE  /\ \A u \in User : MovesElsewhere(u, h) => Accounts' /\ Served'
         /\ \A d \in Device : MovesHere(d, h) => Accounts' /\ Served'
<1>1. ASSUME NEW u \in User, Moved(u, h), app' \in [Device -> App]  PROVE Accounts' /\ Served'
  <2>1. /\ UNCHANGED <<srv, dev, meta, cookie, net, late, crossed, robbed, born>>
        /\ home' = [home EXCEPT ![u] = h]
    BY <1>1 DEF Moved
  <2> QED  BY <1>1, <2>1, SameServed DEF Accounts
<1>2. ASSUME NEW u \in User, MovesElsewhere(u, h)  PROVE Accounts' /\ Served'
  BY <1>1, <1>2 DEF MovesElsewhere, Accounts
<1>3. ASSUME NEW d \in Device, MovesHere(d, h)  PROVE Accounts' /\ Served'
  <2>1. app[d] \in App /\ app[d].user \in User
    BY <1>3, AppFacts DEF MovesHere
  <2>2. app' = [app EXCEPT ![d].gate = "dialog", ![d].seen = h] /\ Moved(app[d].user, h)
    BY <1>3 DEF MovesHere
  <2> DEFINE a == [app[d] EXCEPT !.gate = "dialog", !.seen = h]
  <2>3. a \in App
    BY <2>1 DEF App
  <2>4. app' = [app EXCEPT ![d] = a]
    BY <2>2 DEF Accounts
  <2> HIDE DEF a
  <2>5. app' \in [Device -> App]
    BY <2>3, <2>4, AppFacts
  <2> QED  BY <1>1, <2>1, <2>2, <2>5
<1> QED  BY <1>2, <1>3

-----------------------------------------------------------------------------
(* A device comes to another household.                                    *)

\* The request in flight is marked, and is otherwise as it was.
LEMMA StaleFacts ==
  ASSUME NEW d, NEW N \in RequestOf(d), NEW b \in BOOLEAN, NEW R, R = [N EXCEPT !.stale = b]
  PROVE  /\ R \in RequestOf(d) /\ R.phase = N.phase /\ R.batch = N.batch
         /\ R.answers = N.answers /\ R.page = N.page
<1>1. [N EXCEPT !.stale = b] \in RequestOf(d)
  BY DEF RequestOf
<1> QED  BY <1>1 DEF RequestOf

\* A database that goes to another household, whatever is under way.
LEMMA LeavesOn ==
  ASSUME Served, NEW d \in Device, NEW E, Leads(dev[d], E, d, {}), Aged(E),
         E.made <= MaxOps, dev' = [dev EXCEPT ![d] = E], Outdated(d),
         UNCHANGED <<srv, late, born>>
  PROVE  Served'
<1> DEFINE N == net[d]
           R == [N EXCEPT !.stale = N.phase # "idle"]
<1>1. DeviceOK(d, dev[d], N, late[d], srv, born)
  BY DEF Served
<1>2. N \in RequestOf(d) /\ late[d] \in RequestOf(d)
  BY <1>1 DEF DeviceOK
<1>3. net' = [net EXCEPT ![d] = R]
  BY DEF Outdated, Served, Tables
<1> HIDE DEF N
<1>4. /\ R \in RequestOf(d) /\ R.phase = N.phase /\ R.batch = N.batch
      /\ R.answers = N.answers /\ R.page = N.page
  <2>1. (N.phase # "idle") \in BOOLEAN
    OBVIOUS
  <2> DEFINE b == N.phase # "idle"
  <2>2. R = [N EXCEPT !.stale = b] /\ b \in BOOLEAN
    BY <2>1
  <2> HIDE DEF b, R
  <2> QED  BY <1>2, <2>2, StaleFacts
<1> HIDE DEF R
<1>5. DeviceOK(d, E, N, late[d], srv, born)
  <2>1. born \subseteq born /\ {} \subseteq born
    OBVIOUS
  <2> QED  BY <1>1, <2>1, DeviceLed
<1>6. DeviceOK(d, E, R, late[d], srv, born)
  <2>1. AsAnswered(R) /\ Wires(R, late[d]) \subseteq Wires(N, late[d])
        /\ \A k \in DOMAIN R.page : Tells(R.page[k], born)
    BY <1>4, <1>5 DEF DeviceOK, AsAnswered, Wires
  <2> QED  BY <1>2, <1>4, <1>5, <2>1, RequestOn
<1>7. /\ Tables'
      /\ \A x \in Device \ {d} : dev'[x] = dev[x] /\ net'[x] = net[x] /\ late'[x] = late[x]
      /\ dev'[d] = E /\ net'[d] = R /\ late'[d] = late[d]
  BY <1>3 DEF Served, Tables
<1>8. HouseholdsOK(srv', born')
  BY DEF Served
<1> QED  BY <1>6, <1>7, <1>8, OthersOn

\* Another owner, a rebase, a wipe.
LEMMA FollowsHouseholdOn ==
  ASSUME Accounts, Served, NEW d \in Device
  PROVE  /\ Rebind(d) => Accounts' /\ Served'
         /\ Carry(d) => Accounts' /\ Served'
         /\ CleanWipes(d) => Accounts' /\ Served'
<1> DEFINE D == dev[d]
<1>1. Fine(D, d) /\ Aged(D) /\ D.made <= MaxOps
  BY DEF Served, DeviceOK
<1>2. Leads(D, Wiped(D), d, {}) /\ Aged(Wiped(D)) /\ Wiped(D).made <= MaxOps
  BY <1>1, WipedOn
<1>3. Leads(D, Rebased(D), d, {}) /\ Aged(Rebased(D))
  BY <1>1, RebasedOn
<1>4. /\ app[d] \in App /\ meta[d] \in Meta /\ app[d].pending \in User \cup {NoUser}
      /\ app[d].seen \in Household \cup {NoHousehold}
      /\ meta \in [Device -> Meta] /\ app \in [Device -> App]
  BY AppFacts DEF Accounts
<1>5. Unowned \in Meta
  BY DEF Unowned, Meta
<1>6. ASSUME Rebind(d)  PROVE Accounts' /\ Served'
  <2>1. /\ dev' = [dev EXCEPT ![d] = Wiped(D)] /\ Outdated(d)
        /\ UNCHANGED <<srv, home, cookie, late, robbed, born>>
        /\ meta' = [meta EXCEPT ![d] = [Unowned EXCEPT !.owner = app[d].pending]]
        /\ app' = [app EXCEPT ![d] = Authenticated(app[d])]
    BY <1>6 DEF Rebind
  <2>2. [Unowned EXCEPT !.owner = app[d].pending] \in Meta
    BY <1>4, <1>5 DEF Meta
  <2>3. meta' \in [Device -> Meta] /\ app' \in [Device -> App]
    BY <1>4, <2>1, <2>2, PassedApp
  <2>4. crossed' \subseteq Device
    BY <2>1 DEF Outdated, Accounts
  <2>5. Served'
    BY <1>2, <2>1, LeavesOn
  <2> QED  BY <2>1, <2>3, <2>4, <2>5 DEF Accounts
<1>7. ASSUME Carry(d)  PROVE Accounts' /\ Served'
  <2>1. /\ dev' = [dev EXCEPT ![d] = Rebased(D)] /\ Outdated(d) /\ dev'[d].made <= MaxOps
        /\ UNCHANGED <<srv, home, cookie, late, robbed, born>>
        /\ meta' = [meta EXCEPT ![d] = CarriedMeta(meta[d], app[d].seen)]
        /\ app' = [app EXCEPT ![d] = Passed(app[d])]
    BY <1>7 DEF Carry
  <2>2. CarriedMeta(meta[d], app[d].seen) \in Meta
    BY <1>4 DEF Meta, CarriedMeta
  <2>3. meta' \in [Device -> Meta] /\ app' \in [Device -> App]
    BY <1>4, <2>1, <2>2, PassedApp
  <2>4. crossed' \subseteq Device
    BY <2>1 DEF Outdated, Accounts
  <2>5. Rebased(D).made <= MaxOps
    BY <2>1 DEF Served, Tables
  <2>6. Served'
    BY <1>3, <2>1, <2>5, LeavesOn
  <2> QED  BY <2>1, <2>3, <2>4, <2>6 DEF Accounts
<1>8. ASSUME CleanWipes(d)  PROVE Accounts' /\ Served'
  <2>1. /\ dev' = [dev EXCEPT ![d] = Wiped(D)] /\ Outdated(d)
        /\ UNCHANGED <<srv, home, cookie, late, robbed, born>>
        /\ meta' = [meta EXCEPT ![d] = Unowned]
        /\ app' = [app EXCEPT ![d].gate = "wiped"]
    BY <1>8 DEF CleanWipes
  <2>2. [app[d] EXCEPT !.gate = "wiped"] \in App
    BY <1>4 DEF App
  <2>3. meta' \in [Device -> Meta] /\ app' \in [Device -> App]
    BY <1>4, <1>5, <2>1, <2>2
  <2>4. crossed' \subseteq Device
    BY <2>1 DEF Outdated, Accounts
  <2>5. Served'
    BY <1>2, <2>1, LeavesOn
  <2> QED  BY <2>1, <2>3, <2>4, <2>5 DEF Accounts
<1> QED  BY <1>6, <1>7, <1>8

-----------------------------------------------------------------------------
(* The engine.                                                             *)

\* A step of a device that leaves the server alone.
LEMMA AloneOn ==
  ASSUME Served, NEW d \in Device, NEW D, NEW N, NEW L,
         DeviceOK(d, D, N, L, srv, born),
         dev' = [dev EXCEPT ![d] = D], net' = [net EXCEPT ![d] = N],
         late' = [late EXCEPT ![d] = L], UNCHANGED <<srv, born>>
  PROVE  Served'
<1>1. /\ Tables'
      /\ \A x \in Device \ {d} : dev'[x] = dev[x] /\ net'[x] = net[x] /\ late'[x] = late[x]
      /\ dev'[d] = D /\ net'[d] = N /\ late'[d] = L
  BY DEF Served, Tables
<1>2. HouseholdsOK(srv', born')
  BY DEF Served
<1> QED  BY <1>1, <1>2, OthersOn

\* A database as it is.
LEMMA AsItWas ==
  ASSUME Served, NEW d \in Device
  PROVE  /\ dev = [dev EXCEPT ![d] = dev[d]] /\ net = [net EXCEPT ![d] = net[d]]
         /\ late = [late EXCEPT ![d] = late[d]]
BY DEF Served, Tables

\* The request for a page.
LEMMA PullFacts ==
  ASSUME Accounts, NEW d \in Device, NEW R, R = Request(d, "pull", <<>>)
  PROVE  R \in RequestOf(d) /\ R.page = <<>> /\ R.phase # "pushed" /\ R.batch = <<>>
<1> DEFINE batch == <<>>
           phase == "pull"
<1>1. batch \in Seq(WireOp(d)) /\ phase \in {"push", "pull"} /\ R = Request(d, phase, batch)
      /\ phase # "pushed"
  OBVIOUS
<1> HIDE DEF batch, phase
<1>2. R \in RequestOf(d) /\ R.page = <<>> /\ R.phase = phase /\ R.batch = batch
  BY <1>1, RequestFacts
<1> QED  BY <1>1, <1>2 DEF batch

\* The next request of a run: a batch, or the pull.
LEMMA ProceedsOn ==
  ASSUME Accounts, Served, NEW d \in Device, NEW D,
         DeviceOK(d, D, net[d], late[d], srv, born), NEW due, Proceeds(d, D, due),
         UNCHANGED <<srv, late, born>>
  PROVE  Served'
<1> DEFINE E == Selected(D, due).dev
           batch == Selected(D, due).batch
           R == IF batch = <<>> THEN Request(d, "pull", <<>>) ELSE Request(d, "push", batch)
<1>1. dev' = [dev EXCEPT ![d] = E] /\ net' = [net EXCEPT ![d] = R]
      /\ late' = [late EXCEPT ![d] = late[d]]
  BY AsItWas DEF Proceeds
<1>2. Selects(D, E, batch, d)
  BY SelectedFine DEF DeviceOK
<1> HIDE DEF E, batch
<1>3. batch \in Seq(WireOp(d)) /\ <<>> \in Seq(WireOp(d))
  BY <1>2 DEF Selects
<1>4. R \in RequestOf(d) /\ R.page = <<>> /\ R.phase # "pushed" /\ R.batch \in {batch, <<>>}
  <2>1. CASE batch = <<>>
    BY <2>1, PullFacts
  <2>2. CASE batch # <<>>
    BY <1>3, <2>2, RequestFacts
  <2> QED  BY <2>1, <2>2
<1> HIDE DEF R
<1>5. DeviceOK(d, E, R, late[d], srv, born)
  BY <1>2, <1>4, SendingOn
<1> QED  BY <1>1, <1>5, AloneOn

\* A run starts.
LEMMA RunOn ==
  ASSUME Accounts, Served, NEW d \in Device, Run(d)
  PROVE  Accounts' /\ Served'
<1>1. /\ \E due \in SUBSET Retries(d) : Proceeds(d, dev[d], due)
      /\ UNCHANGED <<srv, home, meta, app, cookie, late, crossed, robbed, born>>
  BY DEF Run
<1>2. DeviceOK(d, dev[d], net[d], late[d], srv, born)
  BY DEF Served
<1> QED  BY <1>1, <1>2, ProceedsOn DEF Accounts

\* Results are taken in, also those of another time.
LEMMA PushReturnsOn ==
  ASSUME Accounts, Served, NEW d \in Device, PushReturns(d)
  PROVE  Accounts' /\ Served'
<1> DEFINE N == net[d]
           D == PushTakenIn(dev[d], N.batch, N.answers)
<1>1. /\ N.phase = "pushed"
      /\ IF AnyConfirmed(N.answers)
         THEN \E due \in SUBSET Retries(d) : Proceeds(d, D, due)
         ELSE /\ dev' = [dev EXCEPT ![d] = D]
              /\ net' = [net EXCEPT ![d] = Request(d, "pull", <<>>)]
      /\ crossed' \in {crossed, crossed \cup {d}}
      /\ UNCHANGED <<srv, home, meta, app, cookie, late, robbed, born>>
  BY DEF PushReturns, Crossing
<1>2. DeviceOK(d, dev[d], N, late[d], srv, born)
  BY DEF Served
<1>3. DeviceOK(d, D, N, late[d], srv, born)
  BY <1>1, <1>2, ResultsTakenIn
<1> HIDE DEF D
<1>4. Served'
  <2>1. CASE AnyConfirmed(N.answers)
    BY <1>1, <1>3, <2>1, ProceedsOn
  <2>2. CASE ~ AnyConfirmed(N.answers)
    <3> DEFINE R == Request(d, "pull", <<>>)
    <3>1. dev' = [dev EXCEPT ![d] = D] /\ net' = [net EXCEPT ![d] = R]
          /\ late' = [late EXCEPT ![d] = late[d]]
      BY <1>1, <2>2, AsItWas
    <3>2. R \in RequestOf(d) /\ R.batch = <<>> /\ R.page = <<>> /\ R.phase # "pushed"
      BY PullFacts
    <3> HIDE DEF R
    <3>3. DeviceOK(d, D, R, late[d], srv, born)
      <4>1. late[d] \in RequestOf(d)
        BY <1>3 DEF DeviceOK
      <4> QED  BY <1>3, <3>2, <4>1, RequestOver
    <3> QED  BY <1>1, <3>1, <3>3, AloneOn
  <2> QED  BY <2>1, <2>2
<1> QED  BY <1>1, <1>4 DEF Accounts

\* A request is over; the late push may be another.
LEMMA OverOn ==
  ASSUME Served, NEW d \in Device, NEW D, DeviceOK(d, D, net[d], late[d], srv, born),
         dev' = [dev EXCEPT ![d] = D], net' = [net EXCEPT ![d] = Idle],
         late' \in {late, [late EXCEPT ![d] = net[d]]}, UNCHANGED <<srv, born>>
  PROVE  Served'
<1>1. /\ Idle \in RequestOf(d) /\ Idle.batch = <<>> /\ Idle.page = <<>> /\ Idle.phase # "pushed"
  BY IdleFacts
<1>2. PICK L \in {late[d], net[d]} : late' = [late EXCEPT ![d] = L]
  BY AsItWas
<1>3. L \in RequestOf(d) /\ L.batch \in {late[d].batch, net[d].batch, <<>>}
  BY <1>2 DEF DeviceOK
<1>4. DeviceOK(d, D, Idle, L, srv, born)
  BY <1>1, <1>3, RequestOver
<1> QED  BY <1>2, <1>4, AloneOn

\* A run ends early, the request in flight possibly still under way.
LEMMA EndsOn ==
  ASSUME Accounts, Served, NEW d \in Device
  PROVE  /\ PushRefused(d) => Accounts' /\ Served'
         /\ Unauthorized(d) => Accounts' /\ Served'
         /\ Fails(d) => Accounts' /\ Served'
<1> DEFINE D == dev[d]
           N == net[d]
<1>1. DeviceOK(d, D, N, late[d], srv, born)
  BY DEF Served
<1>2. dev = [dev EXCEPT ![d] = D]
  BY AsItWas
<1>3. app[d] \in App /\ app \in [Device -> App]
  BY AppFacts DEF Accounts
<1>4. ASSUME PushRefused(d)  PROVE Accounts' /\ Served'
  <2>1. /\ net' = [net EXCEPT ![d] = Idle]
        /\ UNCHANGED <<srv, home, dev, meta, app, cookie, late, crossed, robbed, born>>
    BY <1>4 DEF PushRefused
  <2>2. Served'
    BY <1>1, <1>2, <2>1, OverOn
  <2> QED  BY <2>1, <2>2 DEF Accounts
<1>5. ASSUME Unauthorized(d)  PROVE Accounts' /\ Served'
  <2> DEFINE E == AttemptsReverted(D, N.batch)
  <2>1. /\ net' = [net EXCEPT ![d] = Idle] /\ dev' = [dev EXCEPT ![d] = E]
        /\ app' = [app EXCEPT ![d].user = NoUser, ![d].current = FALSE]
        /\ UNCHANGED <<srv, home, meta, cookie, late, crossed, robbed, born>>
    BY <1>5 DEF Unauthorized
  <2>2. Fine(D, d) /\ Aged(D) /\ D.made <= MaxOps /\ D \in DeviceState(d)
        /\ \A b \in Range(N.batch) : b \in WireOp(d)
    BY <1>1 DEF DeviceOK, Fine, RequestOf, Range
  <2>3. E.made = D.made
    BY <2>2 DEF AttemptsReverted, DeviceState
  <2>4. Leads(D, E, d, {}) /\ E.row = D.row
    BY <2>2, RevertedFine
  <2> HIDE DEF E
  <2>5. Aged(E)
    BY <2>2, <2>4, SameRowsAged
  <2>6. DeviceOK(d, E, N, late[d], srv, born)
    <3>1. born \subseteq born /\ {} \subseteq born /\ E.made <= MaxOps
      BY <2>2, <2>3
    <3> QED  BY <1>1, <2>4, <2>5, <3>1, DeviceLed
  <2>7. Served'
    BY <2>1, <2>6, OverOn
  <2>8. app' \in [Device -> App]
    <3>1. [app[d] EXCEPT !.user = NoUser, !.current = FALSE] \in App
      BY <1>3 DEF App
    <3>2. app' = [app EXCEPT ![d] = [app[d] EXCEPT !.user = NoUser, !.current = FALSE]]
      BY <1>3, <2>1
    <3> QED  BY <1>3, <3>1, <3>2
  <2> QED  BY <2>1, <2>7, <2>8 DEF Accounts
<1>6. ASSUME Fails(d)  PROVE Accounts' /\ Served'
  <2>1. /\ net' = [net EXCEPT ![d] = Idle]
        /\ late' \in {late, [late EXCEPT ![d] = net[d]]}
        /\ app' \in {app, [app EXCEPT ![d] = Closed]}
        /\ UNCHANGED <<srv, home, dev, meta, cookie, crossed, robbed, born>>
    BY <1>6 DEF Fails
  <2>2. Served'
    BY <1>1, <1>2, <2>1, OverOn
  <2>3. Closed \in App
    BY DEF Closed, App
  <2> QED  BY <1>3, <2>1, <2>2, <2>3 DEF Accounts
<1> QED  BY <1>4, <1>5, <1>6

\* A household answers a pull with what it has logged.
LEMMA PullArrivesOn ==
  ASSUME Accounts, Served, NEW d \in Device, PullArrives(d)
  PROVE  Accounts' /\ Served'
<1> DEFINE N == net[d]
           h == home[N.who]
           page == Changes(srv[h], N.cursor)
           R == [N EXCEPT !.phase = "pulled", !.at = h, !.page = page]
<1>1. DeviceOK(d, dev[d], N, late[d], srv, born) /\ N \in RequestOf(d)
      /\ late[d] \in RequestOf(d)
  BY DEF Served, DeviceOK
<1>2. h \in Household
  <2>1. N.who # NoUser
    BY DEF PullArrives
  <2>2. N.who \in User
    BY <1>1, <2>1 DEF RequestOf
  <2> QED  BY <2>2 DEF Accounts
<1>3. /\ net' = [net EXCEPT ![d] = R]
      /\ UNCHANGED <<srv, home, dev, meta, app, cookie, late, crossed, robbed, born>>
  <2>1. /\ net' = [net EXCEPT ![d].phase = "pulled", ![d].at = h, ![d].page = page]
        /\ UNCHANGED <<srv, home, dev, meta, app, cookie, late, crossed, robbed, born>>
    BY DEF PullArrives
  <2> QED  BY <2>1 DEF Served, Tables
<1>4. ServerOK(srv[h]) /\ Counted(srv[h]) /\ KnownTo(srv[h]) \subseteq born
  BY <1>2 DEF Served, HouseholdsOK
<1>5. /\ page \in Seq(PulledChange)
      /\ \A k \in DOMAIN page : /\ Pullable(page[k], srv[h]) /\ page[k].id \in KnownTo(srv[h])
                                /\ \E e \in srv[h].log : Reports(page[k], e, srv[h])
  BY <1>4, ChangesFacts
<1> HIDE DEF page, h, N
<1>6. \A k \in DOMAIN page : Tells(page[k], born)
  BY <1>4, <1>5 DEF Tells, Pullable, Reports, Counted
<1>7. R \in RequestOf(d) /\ R.batch = N.batch /\ R.page = page /\ R.phase = "pulled"
  <2>1. [N EXCEPT !.phase = "pulled", !.at = h, !.page = page] \in RequestOf(d)
    BY <1>1, <1>2, <1>5 DEF RequestOf
  <2> QED  BY <1>1, <2>1 DEF RequestOf
<1> HIDE DEF R
<1>8. DeviceOK(d, dev[d], R, late[d], srv, born)
  <2>1. AsAnswered(R) /\ Wires(R, late[d]) \subseteq Wires(N, late[d])
        /\ \A k \in DOMAIN R.page : Tells(R.page[k], born)
    BY <1>6, <1>7 DEF AsAnswered, Wires
  <2> QED  BY <1>1, <1>7, <2>1, RequestOn
<1>9. Served'
  <2>1. dev' = [dev EXCEPT ![d] = dev[d]] /\ late' = [late EXCEPT ![d] = late[d]]
    BY <1>3, AsItWas
  <2> QED  BY <1>3, <1>8, <2>1, AloneOn
<1> QED  BY <1>3, <1>9 DEF Accounts

\* A page is taken in, also one of another household.
LEMMA PullReturnsOn ==
  ASSUME Accounts, Served, NEW d \in Device, PullReturns(d)
  PROVE  Accounts' /\ Served'
<1> DEFINE N == net[d]
           E == PageTakenIn(dev[d], N.page)
<1>1. DeviceOK(d, dev[d], N, late[d], srv, born) /\ N \in RequestOf(d)
  BY DEF Served, DeviceOK
<1>2. /\ dev' = [dev EXCEPT ![d] = E] /\ dev'[d].made <= MaxOps
      /\ meta' = [meta EXCEPT ![d].cursor = IF N.page = <<>> THEN @ ELSE Last(N.page).seq]
      /\ net' = [net EXCEPT ![d] = Idle]
      /\ crossed' \in {crossed, crossed \cup {d}}
      /\ UNCHANGED <<srv, home, app, cookie, late, robbed, born>>
  BY DEF PullReturns, Crossing
<1>3. E.made <= MaxOps
  BY <1>2 DEF Served, Tables
<1>4. DeviceOK(d, E, N, late[d], srv, born)
  BY <1>1, <1>3, PageTakenInOn
<1> HIDE DEF E
<1>5. Served'
  BY <1>2, <1>4, OverOn
<1>6. N.page # <<>> => Last(N.page).seq \in Nat
  <2>1. N.page \in Seq(PulledChange)
    BY <1>1 DEF RequestOf
  <2>2. N.page # <<>> => Last(N.page) \in PulledChange
    BY <2>1 DEF Last
  <2> QED  BY <2>2 DEF PulledChange
<1>7. meta' \in [Device -> Meta]
  BY <1>2, <1>6 DEF Accounts, Meta
<1> QED  BY <1>2, <1>5, <1>7 DEF Accounts

-----------------------------------------------------------------------------
(* A push arrives.                                                         *)

\* The batch of a request, or of a late push, is taken in by a household.
LEMMA ServedBatch ==
  ASSUME Accounts, Served, NEW d \in Device, NEW batch \in {net[d].batch, late[d].batch},
         NEW h \in Household, NEW order \in Orders, NEW a, a = Batch(h, batch, order)
  PROVE  /\ a.answers \in Seq(Answer) /\ a.robbed \subseteq Household
         /\ HouseholdsOK(a.srv, born) /\ DeviceOK(d, dev[d], net[d], late[d], a.srv, born)
         /\ \A g \in Household, o \in OpId : o[1] # d => a.srv[g].applied[o] = srv[g].applied[o]
         /\ a.ok => /\ DOMAIN a.answers = DOMAIN batch
                    /\ \A k \in DOMAIN batch : Answers(a.answers[k], batch[k])
<1> DEFINE n == Len(batch)
<1>1. HouseholdsOK(srv, born) /\ DeviceOK(d, dev[d], net[d], late[d], srv, born)
      /\ robbed \subseteq Household
  BY DEF Served, Accounts
<1>2. /\ Sendable(batch, n, born) /\ batch \in Seq(WireOp(d))
      /\ \A g \in Household, k \in 1..n :
           batch[k].action = "upsert" => AppliedTo(srv[g], batch[k])
  BY <1>1, UnderWay
<1> HIDE DEF n
<1>3. /\ a \in Underway /\ HouseholdsOK(a.srv, born) /\ Serves(srv, a.srv, batch, n)
      /\ a.ok => Len(a.answers) = n /\ Answering(a.answers, batch)
  BY <1>1, <1>2, BatchFine
<1>4. /\ DeviceOK(d, dev[d], net[d], late[d], a.srv, born)
      /\ \A g \in Household, o \in OpId : o[1] # d => a.srv[g].applied[o] = srv[g].applied[o]
  BY <1>1, <1>3, ServedOn DEF n
<1>5. a.answers \in Seq(Answer) /\ a.robbed \subseteq Household
  BY <1>3 DEF Underway
<1>6. ASSUME a.ok
      PROVE  /\ DOMAIN a.answers = DOMAIN batch
             /\ \A k \in DOMAIN batch : Answers(a.answers[k], batch[k])
  <2>1. DOMAIN batch = 1..n
    BY <1>2 DEF n
  <2>2. DOMAIN a.answers = 1..Len(a.answers) /\ Len(a.answers) = n
    BY <1>3, <1>5, <1>6
  <2> QED  BY <1>3, <1>6, <2>1, <2>2 DEF Answering
<1> QED  BY <1>3, <1>4, <1>5, <1>6

\* A push arrives in the household the user belongs to at that moment.
LEMMA PushArrivesOn ==
  ASSUME Accounts, Served, NEW d \in Device, PushArrives(d)
  PROVE  Accounts' /\ Served'
<1> DEFINE N == net[d]
           h == home[N.who]
<1>1. /\ N \in RequestOf(d) /\ late[d] \in RequestOf(d)
      /\ \A k \in DOMAIN N.page : Tells(N.page[k], born)
  BY DEF Served, DeviceOK
<1>2. h \in Household
  <2>1. N.who # NoUser
    BY DEF PushArrives
  <2>2. N.who \in User
    BY <1>1, <2>1 DEF RequestOf
  <2> QED  BY <2>2 DEF Accounts
<1>3. PICK order \in Orders :
        LET a == Batch(h, N.batch, order)
        IN  /\ srv' = a.srv /\ robbed' = a.robbed
            /\ net' = [net EXCEPT ![d].phase = IF a.ok THEN "pushed" ELSE "refused",
                                  ![d].answers = a.answers, ![d].at = h]
            /\ Crossing(d, a.ok /\ (a.blocked \/ h # N.under))
  BY DEF PushArrives
<1>4. UNCHANGED <<home, dev, meta, app, cookie, late, born>>
  BY DEF PushArrives
<1> DEFINE a == Batch(h, N.batch, order)
           R == [N EXCEPT !.phase = IF a.ok THEN "pushed" ELSE "refused",
                          !.answers = a.answers, !.at = h]
<1>5. /\ a.answers \in Seq(Answer) /\ a.robbed \subseteq Household
      /\ HouseholdsOK(a.srv, born) /\ DeviceOK(d, dev[d], N, late[d], a.srv, born)
      /\ \A g \in Household, o \in OpId : o[1] # d => a.srv[g].applied[o] = srv[g].applied[o]
      /\ a.ok => /\ DOMAIN a.answers = DOMAIN N.batch
                 /\ \A k \in DOMAIN N.batch : Answers(a.answers[k], N.batch[k])
  <2>1. N.batch \in {net[d].batch, late[d].batch}
    OBVIOUS
  <2> QED  BY <1>2, <2>1, ServedBatch
<1>6. srv' = a.srv /\ robbed' = a.robbed /\ crossed' \in {crossed, crossed \cup {d}}
      /\ net' = [net EXCEPT ![d].phase = IF a.ok THEN "pushed" ELSE "refused",
                            ![d].answers = a.answers, ![d].at = h]
  BY <1>3 DEF Crossing
<1> HIDE DEF a, h
<1>7. net' = [net EXCEPT ![d] = R]
  BY <1>6 DEF Served, Tables
<1> HIDE DEF N
<1>8. /\ R \in RequestOf(d) /\ R.batch = N.batch /\ R.page = N.page
      /\ R.answers = a.answers /\ R.phase = IF a.ok THEN "pushed" ELSE "refused"
  <2>1. (IF a.ok THEN "pushed" ELSE "refused")
          \in {"idle", "push", "pushed", "refused", "pull", "pulled"}
    OBVIOUS
  <2>2. [N EXCEPT !.phase = IF a.ok THEN "pushed" ELSE "refused",
                  !.answers = a.answers, !.at = h] \in RequestOf(d)
    BY <1>1, <1>2, <1>5, <2>1 DEF RequestOf
  <2> QED  BY <1>1, <2>2 DEF RequestOf
<1> HIDE DEF R
<1>9. DeviceOK(d, dev[d], R, late[d], a.srv, born)
  <2>1. AsAnswered(R)
    BY <1>5, <1>8 DEF AsAnswered
  <2>2. Wires(R, late[d]) \subseteq Wires(N, late[d])
    BY <1>8 DEF Wires
  <2>3. \A k \in DOMAIN R.page : Tells(R.page[k], born)
    BY <1>1, <1>8 DEF N
  <2> QED  BY <1>1, <1>5, <1>8, <2>1, <2>2, <2>3, RequestOn
<1>10. /\ Tables' /\ net'[d] = R /\ dev'[d] = dev[d] /\ late'[d] = late[d]
       /\ \A x \in Device \ {d} : dev'[x] = dev[x] /\ net'[x] = net[x] /\ late'[x] = late[x]
  BY <1>4, <1>7 DEF Served, Tables
<1>11. Served'
  <2>1. HouseholdsOK(srv', born') /\ born \subseteq born'
    BY <1>4, <1>5, <1>6
  <2>2. DeviceOK(d, dev'[d], net'[d], late'[d], srv', born')
    BY <1>4, <1>6, <1>9, <1>10
  <2>3. \A x \in Device \ {d}, g \in Household, o \in OpId :
          o[1] = x => srv'[g].applied[o] = srv[g].applied[o]
    BY <1>5, <1>6
  <2> QED  BY <1>10, <2>1, <2>2, <2>3, OthersOn
<1> QED  BY <1>4, <1>5, <1>6, <1>11 DEF Accounts

\* So does one the device gave up on.
LEMMA LatePushArrivesOn ==
  ASSUME Accounts, Served, NEW d \in Device, LatePushArrives(d)
  PROVE  Accounts' /\ Served'
<1> DEFINE L == late[d]
           h == home[L.who]
<1>1. L \in RequestOf(d) /\ net[d] \in RequestOf(d)
  BY DEF Served, DeviceOK
<1>2. h \in Household
  <2>1. L.who # NoUser
    BY DEF LatePushArrives
  <2>2. L.who \in User
    BY <1>1, <2>1 DEF RequestOf
  <2> QED  BY <2>2 DEF Accounts
<1>3. PICK order \in Orders :
        LET a == Batch(h, L.batch, order)
        IN  /\ srv' = a.srv /\ robbed' = a.robbed
            /\ Crossing(d, a.ok /\ (a.blocked \/ h # L.under))
  BY DEF LatePushArrives
<1>4. UNCHANGED <<home, dev, meta, app, cookie, net, born>>
      /\ late' = [late EXCEPT ![d] = Idle]
  BY DEF LatePushArrives
<1> DEFINE a == Batch(h, L.batch, order)
<1>5. /\ a.robbed \subseteq Household
      /\ HouseholdsOK(a.srv, born) /\ DeviceOK(d, dev[d], net[d], L, a.srv, born)
      /\ \A g \in Household, o \in OpId : o[1] # d => a.srv[g].applied[o] = srv[g].applied[o]
  <2>1. L.batch \in {net[d].batch, late[d].batch}
    OBVIOUS
  <2> QED  BY <1>2, <2>1, ServedBatch
<1>6. srv' = a.srv /\ robbed' = a.robbed /\ crossed' \in {crossed, crossed \cup {d}}
  BY <1>3 DEF Crossing
<1> HIDE DEF a, h, L
<1>7. DeviceOK(d, dev[d], net[d], Idle, a.srv, born)
  <2>1. Idle \in RequestOf(d) /\ Idle.batch = <<>>
    BY IdleFacts
  <2>2. Wires(net[d], Idle) \subseteq Wires(net[d], L)
    BY <2>1 DEF Wires, Range
  <2>3. AsAnswered(net[d]) /\ \A k \in DOMAIN net[d].page : Tells(net[d].page[k], born)
    BY <1>5 DEF DeviceOK
  <2> QED  BY <1>1, <1>5, <2>1, <2>2, <2>3, RequestOn
<1>8. /\ Tables' /\ net'[d] = net[d] /\ dev'[d] = dev[d] /\ late'[d] = Idle
      /\ \A x \in Device \ {d} : dev'[x] = dev[x] /\ net'[x] = net[x] /\ late'[x] = late[x]
  BY <1>4 DEF Served, Tables
<1>9. Served'
  <2>1. HouseholdsOK(srv', born') /\ born \subseteq born'
    BY <1>4, <1>5, <1>6
  <2>2. DeviceOK(d, dev'[d], net'[d], late'[d], srv', born')
    BY <1>4, <1>6, <1>7, <1>8
  <2>3. \A x \in Device \ {d}, g \in Household, o \in OpId :
          o[1] = x => srv'[g].applied[o] = srv[g].applied[o]
    BY <1>5, <1>6
  <2> QED  BY <1>8, <2>1, <2>2, <2>3, OthersOn
<1> QED  BY <1>4, <1>5, <1>6, <1>9 DEF Accounts

-----------------------------------------------------------------------------
(* Where the records are: each in at most one household, whose log has it  *)
(* in its present version.                                                 *)

\* The household s has logged every record it has, in its present version.
OwnLog(s) ==
  \A i \in Id : Found(s, i) => \E e \in s.log : e.id = i /\ e.ver = s.rec[i].ver

\* From s to t the household has lost no record, and gained none but of N.
Finds(s, t, N) ==
  /\ \A i \in Id : Found(s, i) => Found(t, i)
  /\ \A i \in Id \ N : Found(t, i) => Found(s, i)
  /\ OwnLog(t)

\* What an operation may add to a household.
Gains(w) == IF w.action = "upsert" THEN {w.id} ELSE {}

\* A row written with its log entry.
LEMMA LoggedFinds ==
  ASSUME NEW s, ServerOK(s), OwnLog(s), NEW i \in Id, NEW r, r.ver \in Nat, r.ver > 0,
         NEW N, Found(s, i) \/ i \in N
  PROVE  Finds(s, Logged(s, i, r), N)
<1> DEFINE t == Logged(s, i, r)
           e == [seq |-> s.seq + 1, id |-> i, ver |-> r.ver,
                 action |-> IF r.deleted THEN "tombstone" ELSE "upsert"]
<1>1. s.rec \in [Id -> Row]
  BY DEF ServerOK, ServerState
<1>2. t.rec = [s.rec EXCEPT ![i] = r] /\ t.log = s.log \cup {e}
  BY DEF Logged
<1>3. e.id = i /\ e.ver = r.ver
  OBVIOUS
<1> HIDE DEF t, e
<1>4. \A j \in Id : t.rec[j] = IF j = i THEN r ELSE s.rec[j]
  BY <1>1, <1>2
<1>5. \A j \in Id \ {i} : Found(t, j) <=> Found(s, j)
  BY <1>4 DEF Found
<1>6. Found(t, i)
  BY <1>4 DEF Found
<1>7. OwnLog(t)
  BY <1>2, <1>3, <1>4, <1>5 DEF OwnLog
<1> QED  BY <1>5, <1>6, <1>7 DEF Finds, t

\* A cascade logs each tombstone it makes, and loses none.
LEMMA CascadedFinds ==
  ASSUME NEW s, ServerOK(s), OwnLog(s), NEW c \in Category, NEW order \in Orders
  PROVE  Finds(s, Cascaded(s, c, order), {})
<1> DEFINE D == Dependants(s, c)
           t == Cascaded(s, c, order)
           entry(u) == [seq |-> s.seq + order[u], id |-> u, action |-> "tombstone",
                        ver |-> s.rec[u].ver + 1]
           new == {entry(u) : u \in D}
<1>1. s.rec \in [Id -> Row] /\ \A i \in Id : s.rec[i].ver \in Nat
  BY DEF ServerOK, ServerState, Row
<1>2. /\ t.rec = [i \in Id |-> IF i \in D THEN Tombstoned(s, i) ELSE s.rec[i]]
      /\ t.log = s.log \cup new
  BY DEF Cascaded
<1>3. D \subseteq Id /\ \A u \in D : Found(s, u)
  BY DEF Dependants, Id, Live
<1>4. \A u \in D : entry(u) \in new /\ entry(u).id = u /\ entry(u).ver = s.rec[u].ver + 1
  OBVIOUS
<1> HIDE DEF D, t, new, entry
<1>5. \A i \in Id : t.rec[i].ver = IF i \in D THEN s.rec[i].ver + 1 ELSE s.rec[i].ver
  BY <1>2 DEF Tombstoned
<1>6. \A i \in Id : Found(t, i) <=> Found(s, i)
  BY <1>1, <1>3, <1>5 DEF Found
<1>7. ASSUME NEW i \in Id, Found(t, i)
      PROVE  \E e \in t.log : e.id = i /\ e.ver = t.rec[i].ver
  <2>1. CASE i \in D
    BY <1>2, <1>4, <1>5, <2>1
  <2>2. CASE i \notin D
    BY <1>2, <1>5, <1>6, <1>7, <2>2 DEF OwnLog
  <2> QED  BY <2>1, <2>2
<1> QED  BY <1>6, <1>7 DEF Finds, OwnLog, t

\* Only an upsert brings a record into a household.
LEMMA PerformFinds ==
  ASSUME NEW s, ServerOK(s), OwnLog(s), NEW w, Sensible(w), NEW order \in Orders
  PROVE  Finds(s, Perform(s, w, order).srv, Gains(w))
<1> DEFINE o == Perform(s, w, order)
           r == [ver |-> 1, deleted |-> FALSE, data |-> CreatedData(w.id, w.data)]
           q == [ver |-> w.base + 1, deleted |-> FALSE, data |-> w.data]
           x == Tombstoned(s, w.id)
           t == Logged(s, w.id, x)
<1>1. w.id \in Id /\ w.base \in Nat /\ s.rec[w.id].ver \in Nat
  BY DEF Sensible, ServerOK, ServerState, Row
<1>2. Finds(s, s, Gains(w))
  BY DEF Finds
<1>3. CASE w.action = "upsert"
  <2>1. w.id \in Gains(w)
    BY <1>3 DEF Gains
  <2>2. r.ver \in Nat /\ r.ver > 0 /\ q.ver \in Nat /\ q.ver > 0
    BY <1>1
  <2>3. o.srv \in {s, Logged(s, w.id, r), Logged(s, w.id, q)}
    BY <1>3 DEF Perform, Upsert, Create, Update, Outcome
  <2> HIDE DEF r, q, o
  <2>4. Finds(s, Logged(s, w.id, r), Gains(w)) /\ Finds(s, Logged(s, w.id, q), Gains(w))
    BY <1>1, <2>1, <2>2, LoggedFinds
  <2> QED  BY <1>2, <2>3, <2>4 DEF o
<1>4. CASE w.action = "delete"
  <2>1. \/ o.srv = s
        \/ Found(s, w.id) /\ o.srv = t
        \/ Found(s, w.id) /\ w.id \in Category /\ o.srv = Cascaded(t, w.id, order)
    BY <1>4 DEF Perform, Delete, Outcome
  <2>2. x.ver \in Nat /\ x.ver > 0
    BY <1>1 DEF Tombstoned
  <2>3. ServerOK(t)
    <3>1. s.rec[w.id] \in Row
      BY <1>1 DEF ServerOK, ServerState
    <3> QED  BY <1>1, <3>1, TombstonedRow, LoggedMoves DEF Moves
  <2> HIDE DEF x
  <2>4. Found(s, w.id) => Finds(s, t, {})
    BY <1>1, <2>2, LoggedFinds
  <2> HIDE DEF t, o
  <2>5. ASSUME Found(s, w.id), w.id \in Category
        PROVE  Finds(s, Cascaded(t, w.id, order), {})
    <3>1. Finds(t, Cascaded(t, w.id, order), {})
      BY <2>3, <2>4, <2>5, CascadedFinds DEF Finds
    <3> QED  BY <2>4, <2>5, <3>1 DEF Finds
  <2>6. Gains(w) = {}
    BY <1>4 DEF Gains
  <2> QED  BY <1>2, <2>1, <2>4, <2>5, <2>6 DEF o
<1> QED  BY <1>3, <1>4 DEF Sensible

\* A replay changes nothing; the record of an operation id is beside the rows.
LEMMA ApplyFinds ==
  ASSUME NEW s, ServerOK(s), OwnLog(s), NEW w, Valid(w), NEW order \in Orders
  PROVE  Finds(s, Apply(s, w, order).srv, Gains(w))
<1> DEFINE p == Perform(s, w, order)
           o == Apply(s, w, order)
<1>1. Finds(s, p.srv, Gains(w))
  BY PerformFinds DEF Valid, Sensible
<1>2. Finds(s, s, Gains(w))
  BY DEF Finds
<1>3. \/ o.srv \in {s, p.srv}
      \/ o.srv.rec = p.srv.rec /\ o.srv.log = p.srv.log
  BY DEF Apply, Outcome, Recorded
<1> HIDE DEF p, o
<1>4. CASE o.srv.rec = p.srv.rec /\ o.srv.log = p.srv.log
  <2>1. \A i \in Id : Found(o.srv, i) <=> Found(p.srv, i)
    BY <1>4 DEF Found
  <2>2. OwnLog(o.srv)
    BY <1>1, <1>4, <2>1 DEF Finds, OwnLog
  <2> QED  BY <1>1, <2>1, <2>2 DEF Finds, o
<1> QED  BY <1>1, <1>2, <1>3, <1>4 DEF o

\* A record is in one household at most, which has logged it.
Owned(T) ==
  /\ \A g, h \in Household, i \in Id : Found(T[g], i) /\ Found(T[h], i) => g = h
  /\ \A h \in Household : OwnLog(T[h])

\* Of the records of the households S, T has those that left theirs, which has
\* no members, in h.
Keeping(S, T, h) ==
  /\ Owned(T)
  /\ \A g \in Household, i \in Id : Found(S[g], i) =>
       Found(T[g], i) \/ (g # h /\ ~ Peopled(g) /\ Found(T[h], i))

\* Adoption takes the record from the one household that has it, if that one has
\* no members; without adoption nothing leaves.
LEMMA PushedKeeps ==
  ASSUME NEW S, NEW B, NEW a \in Underway, HouseholdsOK(a.srv, B), NEW h \in Household,
         Keeping(S, a.srv, h), NEW w, NEW o, Finds(a.srv[h], o.srv, Gains(w)),
         NEW r, r = Pushed(a, h, w, o)
  PROVE  Keeping(S, r.srv, h)
<1> DEFINE T == a.srv
           E == IF w.action = "upsert" /\ ~ Found(T[h], w.id) /\ Found(o.srv, w.id)
                THEN Elsewhere(T, h, w.id) ELSE {}
           g == CHOOSE g \in E : TRUE
           V == [T EXCEPT ![h] = o.srv]
           P == Purged(T[g], {w.id})
           U == [T EXCEPT ![h] = o.srv, ![g] = Purged(@, {w.id})]
<1>1. \/ r.srv = T
      \/ E = {} /\ r.srv = V
      \/ E # {} /\ ~ Keeps(g) /\ r.srv = U
  <2>1. T \in [Household -> ServerState] /\ a.ok \in BOOLEAN
        /\ a = [srv |-> T, answers |-> a.answers, ok |-> a.ok, blocked |-> a.blocked,
                robbed |-> a.robbed]
    BY DEF Underway
  <2> DEFINE Answered(W, x) == [a EXCEPT !.srv = W, !.answers = Append(@, x)]
  <2>2. r = IF ~ a.ok THEN a
            ELSE IF E = {} THEN Answered(V, o.answer)
            ELSE IF Keeps(g) THEN [Answered(T, Blocked(T[g], w.id)) EXCEPT !.blocked = TRUE]
            ELSE IF Referred(T, w.id) THEN [a EXCEPT !.ok = FALSE]
            ELSE [Answered(U, o.answer) EXCEPT !.robbed = @ \cup {g}]
    BY DEF Pushed
  <2> HIDE DEF T, E, g, V, U
  <2>3. \A W, x : Answered(W, x).srv = W
    BY <2>1
  <2>4. \A W, x : [Answered(W, x) EXCEPT !.blocked = TRUE].srv = W
    BY <2>1
  <2>5. \A W, x, y : [Answered(W, x) EXCEPT !.robbed = @ \cup {y}].srv = W
    BY <2>1
  <2>6. [a EXCEPT !.ok = FALSE].srv = T
    BY <2>1
  <2> HIDE DEF Answered
  <2> QED  BY <2>1, <2>2, <2>3, <2>4, <2>5, <2>6
<1>2. /\ \A x \in Household : OwnLog(T[x]) /\ DOMAIN T = Household
      /\ \A x, y \in Household, i \in Id : Found(T[x], i) /\ Found(T[y], i) => x = y
      /\ \A x \in Household, i \in Id : Found(S[x], i) =>
           Found(T[x], i) \/ (x # h /\ ~ Peopled(x) /\ Found(T[h], i))
  BY DEF Keeping, Owned, Underway
<1>3. /\ \A i \in Id : Found(T[h], i) => Found(o.srv, i)
      /\ \A i \in Id : Found(o.srv, i) => Found(T[h], i) \/ (i = w.id /\ w.action = "upsert")
      /\ OwnLog(o.srv)
  BY DEF Finds, Gains
<1>4. E # {} => /\ g \in Household /\ g # h /\ Found(T[g], w.id) /\ Found(o.srv, w.id)
  BY DEF Elsewhere
<1>5. E = {} => \A x \in Household \ {h}, i \in Id :
                  Found(o.srv, i) /\ Found(T[x], i) => FALSE
  BY <1>2, <1>3 DEF Elsewhere
<1>6. \A x \in Household : V[x] = IF x = h THEN o.srv ELSE T[x]
  BY <1>2
<1>7. E # {} => \A x \in Household : U[x] = IF x = h THEN o.srv ELSE IF x = g THEN P ELSE T[x]
  BY <1>2, <1>4
<1>8. /\ \A i \in Id : Found(P, i) <=> i # w.id /\ Found(T[g], i)
      /\ \A i \in Id : Found(P, i) => P.rec[i] = T[g].rec[i]
      /\ P.log = T[g].log
  <2>1. /\ \A i \in Id : P.rec[i] = IF i = w.id THEN Absent ELSE T[g].rec[i]
        /\ P.log = T[g].log
    BY DEF Purged
  <2>2. ~ (Absent.ver > 0)
    BY DEF Absent
  <2> HIDE DEF P, g, T
  <2> QED  BY <2>1, <2>2 DEF Found
<1> HIDE DEF T, E, g, V, P, U
<1>9. CASE r.srv = T
  BY <1>9 DEF T
<1>10. CASE E = {} /\ r.srv = V
  <2>1. Owned(V)
    BY <1>2, <1>3, <1>5, <1>6, <1>10 DEF Owned
  <2>2. \A x \in Household, i \in Id : Found(S[x], i) =>
          Found(V[x], i) \/ (x # h /\ ~ Peopled(x) /\ Found(V[h], i))
    BY <1>2, <1>3, <1>6
  <2> QED  BY <1>10, <2>1, <2>2 DEF Keeping
<1>11. CASE E # {} /\ ~ Keeps(g) /\ r.srv = U
  <2>1. OwnLog(P)
    BY <1>2, <1>4, <1>8, <1>11 DEF OwnLog
  <2>2. ASSUME NEW x \in Household \ {h}, NEW i \in Id, Found(o.srv, i), Found(U[x], i)
        PROVE  FALSE
    <3>1. Found(T[x], i) /\ (x = g => i # w.id)
      BY <1>7, <1>8, <1>11, <2>2
    <3>2. i = w.id
      BY <1>2, <1>3, <2>2, <3>1
    <3> QED  BY <1>2, <1>4, <1>11, <3>1, <3>2
  <2>3. ASSUME NEW x \in Household \ {h}, NEW i \in Id, Found(U[x], i)
        PROVE  Found(T[x], i)
    BY <1>7, <1>8, <1>11, <2>3
  <2>4. Owned(U)
    BY <1>2, <1>3, <1>7, <1>11, <2>1, <2>2, <2>3 DEF Owned
  <2>5. ASSUME NEW x \in Household, NEW i \in Id, Found(S[x], i)
        PROVE  Found(U[x], i) \/ (x # h /\ ~ Peopled(x) /\ Found(U[h], i))
    <3>1. CASE Found(T[x], i)
      BY <1>3, <1>4, <1>7, <1>8, <1>11, <3>1 DEF Keeps
    <3>2. CASE x # h /\ ~ Peopled(x) /\ Found(T[h], i)
      BY <1>3, <1>7, <1>11, <3>2
    <3> QED  BY <1>2, <2>5, <3>1, <3>2
  <2> QED  BY <1>11, <2>4, <2>5 DEF Keeping
<1> QED  BY <1>1, <1>9, <1>10, <1>11

\* A batch, operation by operation.
LEMMA BatchKeeps ==
  ASSUME NEW B, HouseholdsOK(srv, B), robbed \subseteq Household, NEW h \in Household,
         NEW batch, NEW n, Sendable(batch, n, B), Owned(srv),
         NEW order \in Orders,
         \A g \in Household, k \in 1..n :
           batch[k].action = "upsert" => AppliedTo(srv[g], batch[k])
  PROVE  Keeping(srv, Batch(h, batch, order).srv, h)
<1> DEFINE X == {a \in Underway : /\ HouseholdsOK(a.srv, B) /\ Serves(srv, a.srv, batch, n)
                                  /\ Keeping(srv, a.srv, h)}
           Y == [k \in 0..n |-> X]
           none == [Untouched EXCEPT !.ok = FALSE]
           r == Batch(h, batch, order)
<1>1. n \in Nat /\ DOMAIN batch = 1..n
  BY DEF Sendable
<1>2. Serves(srv, srv, batch, n) /\ Keeping(srv, srv, h)
  BY DEF Serves, Keeping
<1>3. Untouched \in X /\ Untouched \in Y[0]
  <2>1. 0 \in 0..n
    BY <1>1
  <2> QED  BY <1>2, <2>1, UntouchedFacts
<1>4. ASSUME NEW a \in X, NEW k \in 1..n, NEW o, o = Apply(a.srv[h], batch[k], order),
             NEW c, c = Pushed(a, h, batch[k], o)
      PROVE  c \in X
  <2>1. /\ a \in Underway /\ HouseholdsOK(a.srv, B) /\ Serves(srv, a.srv, batch, n)
        /\ Keeping(srv, a.srv, h)
    OBVIOUS
  <2> HIDE DEF X
  <2>2. Grows(srv, a, c, batch[k], batch, n, B)
    BY <2>1, <1>4, PushedServes
  <2>3. ServerOK(a.srv[h]) /\ OwnLog(a.srv[h]) /\ Valid(batch[k])
    BY <2>1 DEF HouseholdsOK, Keeping, Owned, Sendable
  <2>4. Finds(a.srv[h], o.srv, Gains(batch[k]))
    BY <1>4, <2>3, ApplyFinds
  <2>5. Keeping(srv, c.srv, h)
    BY <1>4, <2>1, <2>4, PushedKeeps
  <2> QED  BY <2>2, <2>5 DEF Grows, X
<1>5. ASSUME NEW k \in 1..n  PROVE Y[k] = X
  BY <1>1
<1>6. n \in 0..n
  BY <1>1
<1>7. r = none \/ (r.ok /\ r \in X)
  <2>1. \A a \in X : \A k \in 1..n :
          LET c == Pushed(a, h, batch[k], Apply(a.srv[h], batch[k], order))
          IN  c \in X /\ (a \in Y[k - 1] => c \in Y[k])
    <3> HIDE DEF X, Y
    <3> QED  BY <1>4, <1>5
  <2> HIDE DEF X, Y, none, r
  <2> QED  BY <1>1, <1>3, <2>1, BatchClimbs DEF none, r
<1>8. CASE r = none
  BY <1>2, <1>8, UntouchedFacts
<1> QED  BY <1>7, <1>8

\* What others push, for a household that has members.
LEMMA OthersPushKeeps ==
  ASSUME Served, Accounts, Owned(srv), NEW h \in Household, NEW i \in Id,
         NEW data \in PayloadOf(i), OthersPush(h, i, data)
  PROVE  Peopled(h) /\ Keeping(srv, srv', h)
<1>1. /\ Peopled(h)
      /\ \E action \in {"upsert", "delete"}, order \in Orders :
           LET w == [action |-> action, id |-> i, base |-> srv[h].rec[i].ver,
                     data |-> IF action = "upsert" THEN data ELSE NoData,
                     cascade |-> FALSE]
           IN  srv' = Pushed(Untouched, h, w, Perform(srv[h], w, order)).srv
  BY DEF OthersPush
<1>2. PICK action \in {"upsert", "delete"}, order \in Orders :
        LET w == [action |-> action, id |-> i, base |-> srv[h].rec[i].ver,
                  data |-> IF action = "upsert" THEN data ELSE NoData,
                  cascade |-> FALSE]
        IN  srv' = Pushed(Untouched, h, w, Perform(srv[h], w, order)).srv
  BY <1>1
<1> DEFINE w == [action |-> action, id |-> i, base |-> srv[h].rec[i].ver,
                 data |-> IF action = "upsert" THEN data ELSE NoData,
                 cascade |-> FALSE]
           o == Perform(srv[h], w, order)
<1>3. srv' = Pushed(Untouched, h, w, o).srv
  BY <1>2
<1>4. HouseholdsOK(srv, born) /\ robbed \subseteq Household
      /\ ServerOK(srv[h]) /\ srv[h] \in ServerState
  BY DEF Served, Accounts, HouseholdsOK
<1>5. srv[h].rec[i].ver \in Nat
  BY <1>4 DEF ServerState, Row
<1>6. Sensible(w)
  BY <1>5 DEF Sensible
<1> HIDE DEF w
<1>7. Finds(srv[h], o.srv, Gains(w))
  BY <1>4, <1>6, PerformFinds DEF Owned
<1> HIDE DEF o
<1>8. Untouched \in Underway /\ Untouched.srv = srv /\ Keeping(srv, srv, h)
  BY <1>4, UntouchedFacts DEF Keeping
<1>9. Keeping(srv, Pushed(Untouched, h, w, o).srv, h)
  BY <1>4, <1>7, <1>8, PushedKeeps
<1> QED  BY <1>1, <1>3, <1>9

\* A push serves the household of a user, which therefore has a member.
LEMMA ArrivalKeeps ==
  ASSUME Served, Accounts, Owned(srv), NEW d \in Device, PushArrives(d) \/ LatePushArrives(d)
  PROVE  \E h \in Household : Peopled(h) /\ Keeping(srv, srv', h)
<1>1. PICK N \in {net[d], late[d]}, order \in Orders :
        N.who # NoUser /\ srv' = Batch(home[N.who], N.batch, order).srv
  BY DEF PushArrives, LatePushArrives
<1>2. DeviceOK(d, dev[d], net[d], late[d], srv, born) /\ HouseholdsOK(srv, born)
      /\ robbed \subseteq Household /\ home \in [User -> Household]
  BY DEF Served, Accounts
<1>3. N \in RequestOf(d)
  BY <1>2 DEF DeviceOK
<1>4. N.who \in User
  BY <1>1, <1>3 DEF RequestOf
<1> DEFINE h == home[N.who]
           batch == N.batch
           n == Len(batch)
<1>5. h \in Household /\ Peopled(h)
  BY <1>2, <1>4 DEF Peopled
<1>6. batch \in {net[d].batch, late[d].batch} /\ srv' = Batch(h, batch, order).srv
  BY <1>1
<1> HIDE DEF h, batch, n
<1>7. /\ Sendable(batch, n, born)
      /\ \A g \in Household, k \in 1..n :
           batch[k].action = "upsert" => AppliedTo(srv[g], batch[k])
  BY <1>2, <1>6, UnderWay DEF n
<1>8. Keeping(srv, Batch(h, batch, order).srv, h)
  BY <1>2, <1>5, <1>7, BatchKeeps
<1> QED  BY <1>5, <1>6, <1>8

\* No other step touches the households.
LEMMA NextKeeps ==
  ASSUME Served, Accounts, Owned(srv), [Next]_vars
  PROVE  \/ srv' = srv
         \/ \E h \in Household : Peopled(h) /\ Keeping(srv, srv', h)
<1>1. ASSUME NEW u \in User, NEW h \in Household, MovesElsewhere(u, h)  PROVE srv' = srv
  BY <1>1 DEF MovesElsewhere, Moved
<1>2. ASSUME NEW d \in Device, NEW i \in Id, NEW data,
             UserCreates(d, i, data) \/ UserUpdates(d, i, data)
      PROVE  srv' = srv
  BY <1>2 DEF UserCreates, UserUpdates, Locally
<1>3. ASSUME NEW d \in Device, NEW i \in Id, NEW cascade, UserRemoves(d, i, cascade)
      PROVE  srv' = srv
  BY <1>3 DEF UserRemoves, Locally
<1>4. ASSUME NEW d \in Device, NEW i \in Id, UserSettles(d, i)  PROVE srv' = srv
  BY <1>4 DEF UserSettles, Locally
<1>5. ASSUME NEW d \in Device, NEW h \in Household, MovesHere(d, h)  PROVE srv' = srv
  BY <1>5 DEF MovesHere, Moved
<1>6. ASSUME NEW d \in Device, NEW u \in User, Login(d, u)  PROVE srv' = srv
  BY <1>6 DEF Login, Gates
<1>7. ASSUME NEW d \in Device,
             \/ PassOwnership(d) \/ Rebind(d) \/ Logout(d)
             \/ AskHousehold(d) \/ AskFails(d) \/ CheckHousehold(d)
             \/ Carry(d) \/ CleanWipes(d) \/ CleanOwns(d) \/ CleanStamps(d)
      PROVE  srv' = srv
  BY <1>7 DEF PassOwnership, Rebind, Logout, AskHousehold, AskFails, CheckHousehold, Carry,
       CleanWipes, CleanOwns, CleanStamps, Gates
<1>8. ASSUME NEW d \in Device,
             \/ Run(d) \/ PushReturns(d) \/ PushRefused(d) \/ PullArrives(d) \/ PullReturns(d)
             \/ Unauthorized(d) \/ Fails(d)
      PROVE  srv' = srv
  BY <1>8 DEF Run, PushReturns, PushRefused, PullArrives, PullReturns, Unauthorized, Fails
<1>9. ASSUME UNCHANGED vars  PROVE srv' = srv
  BY <1>9 DEF vars
<1> QED
  BY <1>1, <1>2, <1>3, <1>4, <1>5, <1>6, <1>7, <1>8, <1>9, OthersPushKeeps, ArrivalKeeps DEF Next

\* What a record that left its household leaves it for.
Left(T, g, i) ==
  /\ ~ Peopled(g)
  /\ \E h \in Household \ {g} :
       /\ Peopled(h) /\ Found(T[h], i)
       /\ \E e \in T[h].log : e.id = i /\ e.ver = T[h].rec[i].ver

\* Where a record is after a push.
LEMMA KeepingLeaves ==
  ASSUME NEW T, NEW h \in Household, Peopled(h), Keeping(srv, T, h),
         NEW g \in Household, NEW i \in Id, Found(srv[g], i)
  PROVE  \/ Found(T[g], i) /\ \A x \in Household \ {g} : ~ Found(T[x], i)
         \/ Left(T, g, i)
<1>1. Found(T[g], i) \/ (g # h /\ ~ Peopled(g) /\ Found(T[h], i))
  BY DEF Keeping
<1>2. \A x, y \in Household : Found(T[x], i) /\ Found(T[y], i) => x = y
  BY DEF Keeping, Owned
<1>3. Found(T[h], i) => \E e \in T[h].log : e.id = i /\ e.ver = T[h].rec[i].ver
  BY DEF Keeping, Owned, OwnLog
<1> QED  BY <1>1, <1>2, <1>3 DEF Left

\* From S to T every record has stayed where it was, or left for good.
Leaves(S, T) ==
  \A g \in Household, i \in Id : Found(S[g], i) =>
    \/ Found(T[g], i) /\ \A x \in Household \ {g} : ~ Found(T[x], i)
    \/ Left(T, g, i)

\* A step moves records only so, and keeps each in one household.
LEMMA NextLeaves ==
  ASSUME Served, Accounts, Owned(srv), [Next]_vars
  PROVE  Owned(srv') /\ Leaves(srv, srv')
<1>1. CASE srv' = srv
  BY <1>1 DEF Owned, Leaves
<1>2. ASSUME NEW h \in Household, Peopled(h), Keeping(srv, srv', h)
      PROVE  Owned(srv') /\ Leaves(srv, srv')
  BY <1>2, KeepingLeaves DEF Keeping, Leaves
<1> QED  BY <1>1, <1>2, NextKeeps

\* Initially there are no records.
LEMMA InitOwned ==
  ASSUME Init
  PROVE  Owned(srv)
<1>1. \A h \in Household : srv[h] = EmptyServer
  BY DEF Init
<1>2. \A i \in Id : ~ Found(EmptyServer, i)
  BY DEF EmptyServer, Found, Absent
<1> QED  BY <1>1, <1>2 DEF Owned, OwnLog

-----------------------------------------------------------------------------
(* The theorems.                                                           *)

\* The steps of a user at a device.
LEMMA UserSteps ==
  ASSUME Accounts, Served, NEW d \in Device, NEW i \in Id
  PROVE  /\ \A data \in UserData \cap PayloadOf(i) :
              UserCreates(d, i, data) \/ UserUpdates(d, i, data) => Accounts' /\ Served'
         /\ \A cascade \in BOOLEAN : UserRemoves(d, i, cascade) => Accounts' /\ Served'
         /\ UserSettles(d, i) => Accounts' /\ Served'
<1>1. ASSUME NEW D, Locally(d, D)  PROVE Accounts'
  BY <1>1 DEF Locally, Accounts
<1>2. ASSUME NEW data \in UserData \cap PayloadOf(i),
             UserCreates(d, i, data) \/ UserUpdates(d, i, data)
      PROVE  Accounts' /\ Served'
  BY <1>1, <1>2, UsersOn DEF UserCreates, UserUpdates
<1>3. ASSUME NEW cascade \in BOOLEAN, UserRemoves(d, i, cascade)  PROVE Accounts' /\ Served'
  BY <1>1, <1>3, UsersOn DEF UserRemoves
<1>4. ASSUME UserSettles(d, i)  PROVE Accounts' /\ Served'
  BY <1>1, <1>4, UsersOn DEF UserSettles
<1> QED  BY <1>2, <1>3, <1>4

\* Every step keeps the invariant.
LEMMA NextServed ==
  ASSUME Accounts, Served, [Next]_vars
  PROVE  Accounts' /\ Served'
<1>1. ASSUME NEW u \in User, NEW h \in Household, MovesElsewhere(u, h)
      PROVE  Accounts' /\ Served'
  BY <1>1, MovesOn
<1>2. ASSUME NEW h \in Household, NEW i \in Id, NEW data \in UserData,
             data \in PayloadOf(i), OthersPush(h, i, data)
      PROVE  Accounts' /\ Served'
  <2>1. Served' /\ robbed' \subseteq Household
    BY <1>2, OthersPushOn
  <2> QED  BY <1>2, <2>1 DEF OthersPush, Accounts
<1>3. ASSUME NEW d \in Device, NEW i \in Id, NEW data \in UserData \cap PayloadOf(i),
             UserCreates(d, i, data) \/ UserUpdates(d, i, data)
      PROVE  Accounts' /\ Served'
  BY <1>3, UserSteps
<1>4. ASSUME NEW d \in Device, NEW i \in Id, NEW cascade \in BOOLEAN, UserRemoves(d, i, cascade)
      PROVE  Accounts' /\ Served'
  BY <1>4, UserSteps
<1>5. ASSUME NEW d \in Device, NEW i \in Id, UserSettles(d, i)  PROVE Accounts' /\ Served'
  BY <1>5, UserSteps
<1>6. ASSUME NEW d \in Device, NEW h \in Household, MovesHere(d, h)  PROVE Accounts' /\ Served'
  BY <1>6, MovesOn
<1>7. ASSUME NEW d \in Device, NEW u \in User, Login(d, u)  PROVE Accounts' /\ Served'
  BY <1>7, SigningOn
<1>8. ASSUME NEW d \in Device,
             \/ PassOwnership(d) \/ Rebind(d) \/ Logout(d)
             \/ AskHousehold(d) \/ AskFails(d) \/ CheckHousehold(d)
             \/ Carry(d) \/ CleanWipes(d) \/ CleanOwns(d) \/ CleanStamps(d)
             \/ Run(d) \/ PushArrives(d) \/ LatePushArrives(d) \/ PushReturns(d)
             \/ PushRefused(d) \/ PullArrives(d) \/ PullReturns(d)
             \/ Unauthorized(d) \/ Fails(d)
      PROVE  Accounts' /\ Served'
  <2>1. PassOwnership(d) \/ Logout(d) => Accounts' /\ Served'
    BY SigningOn
  <2>2. AskHousehold(d) \/ AskFails(d) \/ CheckHousehold(d) \/ CleanOwns(d) \/ CleanStamps(d)
          => Accounts' /\ Served'
    BY AskingOn
  <2>3. Rebind(d) \/ Carry(d) \/ CleanWipes(d) => Accounts' /\ Served'
    BY FollowsHouseholdOn
  <2>4. Run(d) \/ PushReturns(d) => Accounts' /\ Served'
    BY RunOn, PushReturnsOn
  <2>5. PushArrives(d) \/ LatePushArrives(d) => Accounts' /\ Served'
    BY PushArrivesOn, LatePushArrivesOn
  <2>6. PullArrives(d) \/ PullReturns(d) => Accounts' /\ Served'
    BY PullArrivesOn, PullReturnsOn
  <2>7. PushRefused(d) \/ Unauthorized(d) \/ Fails(d) => Accounts' /\ Served'
    BY EndsOn
  <2> QED  BY <1>8, <2>1, <2>2, <2>3, <2>4, <2>5, <2>6, <2>7
<1>9. ASSUME UNCHANGED vars  PROVE Accounts' /\ Served'
  <2>1. UNCHANGED <<srv, home, dev, meta, app, cookie, net, late, crossed, robbed, born>>
    BY <1>9 DEF vars
  <2>2. Served'
    BY <2>1, SameServed
  <2> QED  BY <2>1, <2>2 DEF Accounts
<1> QED  BY <1>1, <1>2, <1>3, <1>4, <1>5, <1>6, <1>7, <1>8, <1>9 DEF Next

\* It gives the types,
LEMMA ServedTyped ==
  ASSUME Accounts, Served
  PROVE  TypeOK
<1>1. ASSUME NEW h \in Household  PROVE srv[h].rec \in [Id -> Row]
  BY DEF Served, HouseholdsOK, ServerOK, ServerState
<1>2. ASSUME NEW d \in Device, NEW i \in Id, dev[d].row[i] # NoRow
      PROVE  dev[d].row[i].data \in PayloadOf(i)
  <2>1. Sound(dev[d], i)
    BY DEF Served, DeviceOK, Fine
  <2>2. HasRow(dev[d], i) /\ dev[d].row[i].data \in Data(i)
    BY <1>2, <2>1 DEF Sound
  <2> QED  BY <2>2 DEF HasRow, Data
<1> QED  BY <1>1, <1>2 DEF TypeOK, Accounts

\* and that every edit has its operation.
LEMMA ServedNotStranded ==
  ASSUME Served
  PROVE  NothingStranded
<1>1. ASSUME NEW d \in Device, NEW i \in Id
      PROVE  /\ OpsOf(dev[d], i) # {} => ~ Clean(dev[d], i)
             /\ LiveRow(dev[d], i) /\ ~ Clean(dev[d], i) => OpsOf(dev[d], i) # {}
  <2> DEFINE D == dev[d]
  <2>1. Fine(D, d)
    BY DEF Served, DeviceOK
  <2> HIDE DEF D
  <2>2. D \in DeviceState(d) /\ Sound(D, i) /\ Waiting(D, i)
    BY <2>1 DEF Fine
  <2>3. OpsOf(D, i) # {} => ~ Clean(D, i)
    BY <2>1, RowOf
  <2> QED  BY <2>2, <2>3 DEF Waiting, D
<1> QED  BY <1>1 DEF NothingStranded

\* The state has its type, and a row a device has holds data of its kind, however
\* the device and its user came from one household to another.
THEOREM HouseholdsTyped == Spec => []TypeOK
<1>1. Init => Accounts /\ Served
  BY InitServed
<1>2. Accounts /\ Served /\ [Next]_vars => Accounts' /\ Served'
  BY NextServed
<1>3. Accounts /\ Served => TypeOK
  BY ServedTyped
<1> QED  BY <1>1, <1>2, <1>3, PTL DEF Spec

\* A rebase or a wipe under a run in flight, and the answers and pages that arrive
\* after it (rebase.ts, wipeLocalData, sync-engine.ts), strand no row: an
\* unconfirmed one has an operation to push it, a confirmed one has none.
THEOREM HouseholdChangeStrandsNothing == Spec => []NothingStranded
<1>1. Init => Accounts /\ Served
  BY InitServed
<1>2. Accounts /\ Served /\ [Next]_vars => Accounts' /\ Served'
  BY NextServed
<1>3. Served => NothingStranded
  BY ServedNotStranded
<1> QED  BY <1>1, <1>2, <1>3, PTL DEF Spec

\* A record is in one household; only a push for a household with members takes it
\* from one without (AdoptOrphanedID), and logs it there.
THEOREM RecordsLeaveForGood == Spec => LeavesForGood
<1> DEFINE I == Accounts /\ Served /\ Owned(srv)
<1>1. Init => I
  BY InitServed, InitOwned
<1>2. I /\ [Next]_vars => I'
  BY NextServed, NextLeaves DEF Owned, OwnLog, Found
<1>3. I /\ [Next]_vars =>
        [\A g \in Household, i \in Id :
           Found(srv[g], i) =>
             \/ Found(srv'[g], i) /\ \A h \in Household \ {g} : ~ Found(srv'[h], i)
             \/ /\ ~ Peopled(g)
                /\ \E h \in Household \ {g} :
                     /\ Peopled(h) /\ Found(srv'[h], i)
                     /\ \E e \in srv'[h].log : e.id = i /\ e.ver = srv'[h].rec[i].ver]_vars
  BY NextLeaves DEF Leaves, Left
<1> HIDE DEF I
<1> QED  BY <1>1, <1>2, <1>3, PTL DEF Spec, LeavesForGood

=============================================================================
