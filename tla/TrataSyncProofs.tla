-------------------------- MODULE TrataSyncProofs ---------------------------
(***************************************************************************)
(* The databases of the devices stay well-formed, what the server has is   *)
(* not wiped, no edit is lost, what a device takes for the server's is the *)
(* server's, and one that has pulled everything agrees with the server,    *)
(* whatever users, network and server do (TrataSync).                      *)
(***************************************************************************)
EXTENDS TrataClaims, SyncEngineProofs

-----------------------------------------------------------------------------
(* A batch on the server.                                                  *)

\* What a batch, or the first operations of one, has made of the server s.
Serves(s, t, batch, n) ==
  /\ ServerOK(t)
  /\ t.seq >= s.seq
  /\ KnownTo(t) \subseteq KnownTo(s) \cup {batch[k].id : k \in 1..n}
  /\ \A o \in OpId : (\A k \in 1..n : batch[k].opId # o) => t.applied[o] = s.applied[o]
  /\ \A k \in 1..n : batch[k].action = "upsert" => AppliedTo(t, batch[k])

\* The operations of a batch, well-formed, those under one id the same.
Batch(batch, n) ==
  /\ n \in Nat /\ DOMAIN batch = 1..n
  /\ \A k \in 1..n : Valid(batch[k])
  /\ \A j, k \in 1..n : batch[j].opId = batch[k].opId =>
       /\ batch[j].id = batch[k].id /\ batch[j].action = batch[k].action
       /\ batch[j].base = batch[k].base

LEMMA ServesOn ==
  ASSUME NEW s, NEW t, NEW batch, NEW n, Batch(batch, n), Serves(s, t, batch, n),
         ServerOK(s), NEW k \in 1..n, NEW order \in Orders, NEW o, o = Apply(t, batch[k], order)
  PROVE  Serves(s, o.srv, batch, n) /\ Answers(o.answer, batch[k])
<1>1. ServerOK(t) /\ Valid(batch[k]) /\ (batch[k].action = "upsert" => AppliedTo(t, batch[k]))
  BY DEF Serves, Batch
<1>2. ApplyMoves(t, o.srv, o.answer, batch[k])
  BY <1>1, ApplyFine
<1>3. o.srv.seq >= s.seq
  <2>1. o.srv.seq \in Nat /\ t.seq \in Nat /\ s.seq \in Nat
    BY <1>1, <1>2 DEF ApplyMoves, ServerOK, ServerState
  <2> QED  BY <2>1, <1>2 DEF ApplyMoves, Serves
<1>4. KnownTo(o.srv) \subseteq KnownTo(s) \cup {batch[j].id : j \in 1..n}
  BY <1>2 DEF ApplyMoves, Serves
<1>5. ASSUME NEW x \in OpId, \A j \in 1..n : batch[j].opId # x
      PROVE  o.srv.applied[x] = s.applied[x]
  BY <1>2, <1>5 DEF ApplyMoves, Serves
<1>6. ASSUME NEW j \in 1..n, batch[j].action = "upsert"
      PROVE  AppliedTo(o.srv, batch[j])
  <2>1. CASE batch[j].opId = batch[k].opId
    <3>1. batch[k].action = "upsert" /\ batch[k].base = batch[j].base
      BY <2>1, <1>6 DEF Batch
    <3> QED  BY <3>1, <2>1, <1>2 DEF ApplyMoves, AppliedTo
  <2>2. CASE batch[j].opId # batch[k].opId
    <3>1. batch[j].opId \in OpId
      BY DEF Batch, Valid
    <3>2. o.srv.applied[batch[j].opId] = t.applied[batch[j].opId]
      BY <3>1, <2>2, <1>2 DEF ApplyMoves
    <3> QED  BY <3>2, <1>6 DEF Serves, AppliedTo
  <2> QED  BY <2>1, <2>2
<1> QED  BY <1>2, <1>3, <1>4, <1>5, <1>6 DEF Serves, ApplyMoves

\* What the operations of a batch make of the server and of the answers so far.
Onto(acc, w, order) ==
  LET o == Apply(acc.srv, w, order)
  IN  [srv |-> o.srv, answers |-> Append(acc.answers, o.answer)]

Unanswered(s) == [srv |-> s, answers |-> <<>>]

\* A batch leads where its operations lead: within X all the time, and in Y[k]
\* after k of them.
LEMMA AppliedFold ==
  ASSUME NEW s, NEW batch, NEW n \in Nat, DOMAIN batch = 1..n, NEW order,
         NEW X, Unanswered(s) \in X,
         \A acc \in X : \A k \in 1..n : Onto(acc, batch[k], order) \in X,
         NEW Y, Unanswered(s) \in Y[0],
         \A k \in 1..n : \A acc \in X :
           acc \in Y[k - 1] => Onto(acc, batch[k], order) \in Y[k]
  PROVE  Applied(s, batch, order) \in X /\ Applied(s, batch, order) \in Y[n]
<1> DEFINE base == Unanswered(s)
           op(acc, w) == Onto(acc, w, order)
           step == [p \in X \X (1..n) |-> op(p[1], batch[p[2]])]
           Iter(g) == g = [t \in SUBSET (DOMAIN batch) |->
                             IF t = {} THEN base ELSE op(g[t \ {Max(t)}], batch[Max(t)])]
           iter == CHOOSE g : Iter(g)
<1>1. Applied(s, batch, order) = iter[DOMAIN batch]
  BY DEF Applied, FoldLeft, MapThenFoldSet, Onto, Unanswered
<1> HIDE DEF base, op
<1>2. step \in [X \X (1..n) -> X] /\ \A acc \in X : \A k \in 1..n :
        step[<<acc, k>>] = op(acc, batch[k])
  BY DEF op
<1>3. base \in X /\ base \in Y[0]
  BY DEF base
<1> HIDE DEF step
<1>5. \E g : Iter(g)
  <2>1. PICK f \in [SUBSET (1..n) -> X] : Iterates(f, n, base, step)
    BY <1>2, <1>3, IterExists
  <2>2. \A t \in SUBSET (1..n) :
          f[t] = IF t = {} THEN base ELSE step[<<f[t \ {Max(t)}], Max(t)>>]
    BY <2>1 DEF Iterates
  <2>3. ASSUME NEW t \in SUBSET (1..n), t # {}
        PROVE  step[<<f[t \ {Max(t)}], Max(t)>>] = op(f[t \ {Max(t)}], batch[Max(t)])
    <3>1. Max(t) \in 1..n
      BY <2>3, MaxFacts
    <3>2. f[t \ {Max(t)}] \in X
      BY <2>1
    <3> QED  BY <3>1, <3>2, <1>2
  <2>4. \A t \in SUBSET (1..n) :
          f[t] = IF t = {} THEN base ELSE op(f[t \ {Max(t)}], batch[Max(t)])
    BY <2>2, <2>3
  <2>5. f = [t \in SUBSET (1..n) |-> f[t]]
    BY <2>1
  <2>6. f = [t \in SUBSET (1..n) |->
               IF t = {} THEN base ELSE op(f[t \ {Max(t)}], batch[Max(t)])]
    BY <2>4, <2>5
  <2>7. Iter(f)
    BY <2>6
  <2> QED
    <3> HIDE DEF Iter
    <3> QED  BY <2>7
<1>6. Iter(iter)
  <2> HIDE DEF Iter
  <2> QED  BY <1>5
<1> HIDE DEF iter
<1>7. \A t \in SUBSET (1..n) :
        iter[t] = IF t = {} THEN base ELSE op(iter[t \ {Max(t)}], batch[Max(t)])
  BY <1>6
<1> DEFINE Z == [k \in 0..n |-> X \cap Y[k]]
<1>8. iter[{}] \in Z[0]
  <2>1. {} \in SUBSET (1..n) /\ 0 \in 0..n
    OBVIOUS
  <2>2. iter[{}] = base
    BY <1>7, <2>1
  <2> QED  BY <2>1, <2>2, <1>3
<1>9. ASSUME NEW k \in Nat, k + 1 <= n, iter[1..k] \in Z[k]
      PROVE  iter[1..(k + 1)] \in Z[k + 1]
  <2>1. /\ 1..(k + 1) \in SUBSET (1..n) /\ 1..(k + 1) # {}
        /\ (1..(k + 1)) \ {k + 1} = 1..k /\ k + 1 \in 1..n
        /\ Max(1..(k + 1)) = k + 1
    BY <1>9, Prefix
  <2>2. iter[1..(k + 1)] = op(iter[1..k], batch[k + 1])
    BY <1>7, <2>1
  <2>3. k \in 0..n /\ k + 1 \in 0..n /\ (k + 1) - 1 = k
    BY <1>9
  <2>4. iter[1..k] \in X /\ iter[1..k] \in Y[k]
    BY <1>9, <2>3
  <2>5. op(iter[1..k], batch[k + 1]) \in X /\ op(iter[1..k], batch[k + 1]) \in Y[k + 1]
    BY <2>1, <2>3, <2>4 DEF op
  <2> QED  BY <2>2, <2>3, <2>5
<1>10. iter[1..n] \in Z[n]
  <2> HIDE DEF Z
  <2> QED  BY <1>8, <1>9, Climbs
<1>11. n \in 0..n
  OBVIOUS
<1> QED  BY <1>1, <1>10, <1>11

LEMMA ServesSelf ==
  ASSUME NEW s, ServerOK(s), NEW batch, NEW n,
         \A k \in 1..n : batch[k].action = "upsert" => AppliedTo(s, batch[k])
  PROVE  Serves(s, s, batch, n)
<1>1. s.seq >= s.seq
  BY DEF ServerOK, ServerState
<1> QED  BY <1>1 DEF Serves

\* The answers a, as far as there are any, are answers to the operations.
Answering(a, batch) ==
  a \in Seq(Answer) /\ \A j \in 1..Len(a) : Answers(a[j], batch[j])

LEMMA AnsweringOn ==
  ASSUME NEW a, NEW batch, Answering(a, batch), NEW x, Answers(x, batch[Len(a) + 1])
  PROVE  /\ Answering(Append(a, x), batch) /\ Len(Append(a, x)) = Len(a) + 1
         /\ \A j \in 1..Len(a) : Append(a, x)[j] = a[j]
         /\ Append(a, x)[Len(a) + 1] = x
<1>1. a \in Seq(Answer) /\ x \in Answer /\ Len(a) \in Nat
  BY DEF Answering, Answers
<1> DEFINE b == Append(a, x)
<1>2. b \in Seq(Answer) /\ Len(b) = Len(a) + 1 /\ (\A j \in 1..Len(a) : b[j] = a[j])
      /\ b[Len(a) + 1] = x
  BY <1>1
<1> HIDE DEF b
<1>3. \A j \in 1..Len(b) : j \in 1..Len(a) \/ j = Len(a) + 1
  BY <1>1, <1>2
<1>4. Answering(b, batch)
  BY <1>2, <1>3 DEF Answering
<1> QED  BY <1>2, <1>4 DEF b

LEMMA AppliedFine ==
  ASSUME NEW s, ServerOK(s), NEW batch, NEW n, Batch(batch, n),
         \A k \in 1..n : batch[k].action = "upsert" => AppliedTo(s, batch[k]),
         NEW order \in Orders
  PROVE  /\ Serves(s, Applied(s, batch, order).srv, batch, n)
         /\ Applied(s, batch, order).answers \in Seq(Answer)
         /\ Len(Applied(s, batch, order).answers) = n
         /\ \A k \in 1..n : Answers(Applied(s, batch, order).answers[k], batch[k])
<1> DEFINE r == Applied(s, batch, order)
           X == {acc \in [srv : ServerState, answers : Seq(Answer)] :
                   Serves(s, acc.srv, batch, n)}
           Y == [k \in 0..n |-> {acc \in X : Len(acc.answers) = k
                                             /\ Answering(acc.answers, batch)}]
<1>0. n \in Nat /\ DOMAIN batch = 1..n
  BY DEF Batch
<1>1. Unanswered(s) \in X /\ Unanswered(s) \in Y[0]
  <2>1. Serves(s, s, batch, n) /\ s \in ServerState
    BY ServesSelf DEF ServerOK
  <2>2. <<>> \in Seq(Answer) /\ Len(<<>>) = 0 /\ Answering(<<>>, batch) /\ 0 \in 0..n
    BY <1>0 DEF Answering
  <2> QED  BY <2>1, <2>2 DEF Unanswered
<1>2. ASSUME NEW acc \in X, NEW k \in 1..n
      PROVE  /\ Onto(acc, batch[k], order) \in X
             /\ acc \in Y[k - 1] => Onto(acc, batch[k], order) \in Y[k]
  <2> DEFINE o == Apply(acc.srv, batch[k], order)
             nxt == Onto(acc, batch[k], order)
  <2>1. acc.srv \in ServerState /\ acc.answers \in Seq(Answer) /\ Serves(s, acc.srv, batch, n)
    OBVIOUS
  <2>2. nxt.srv = o.srv /\ nxt.answers = Append(acc.answers, o.answer)
        /\ nxt = [srv |-> nxt.srv, answers |-> nxt.answers]
    BY DEF Onto
  <2> HIDE DEF X
  <2>3. Serves(s, o.srv, batch, n) /\ Answers(o.answer, batch[k])
    <3> HIDE DEF o
    <3> QED  BY <2>1, ServesOn DEF o
  <2> HIDE DEF o, nxt
  <2>4. o.srv \in ServerState /\ o.answer \in Answer
    BY <2>3 DEF Serves, ServerOK, Answers
  <2>5. nxt \in X
    <3>1. nxt.answers \in Seq(Answer)
      BY <2>1, <2>2, <2>4
    <3> QED  BY <2>2, <2>3, <2>4, <3>1 DEF X
  <2>6. ASSUME acc \in Y[k - 1]  PROVE nxt \in Y[k]
    <3>1. k - 1 \in 0..n /\ k \in 0..n /\ (k - 1) + 1 = k
      BY <1>0
    <3>2. Len(acc.answers) = k - 1 /\ Answering(acc.answers, batch)
      BY <2>6, <3>1
    <3>3. Answering(nxt.answers, batch) /\ Len(nxt.answers) = k
      BY <2>2, <2>3, <3>1, <3>2, AnsweringOn
    <3> QED  BY <2>5, <3>1, <3>3
  <2> QED  BY <2>5, <2>6 DEF nxt
<1>3. r \in X /\ r \in Y[n]
  <2> HIDE DEF X, Y
  <2>1. \A acc \in X : \A k \in 1..n : Onto(acc, batch[k], order) \in X
    BY <1>2
  <2>2. \A k \in 1..n : \A acc \in X :
          acc \in Y[k - 1] => Onto(acc, batch[k], order) \in Y[k]
    BY <1>2
  <2>3. Applied(s, batch, order) \in X /\ Applied(s, batch, order) \in Y[n]
    BY <1>0, <1>1, <2>1, <2>2, AppliedFold
  <2> QED  BY <2>3
<1>4. n \in 0..n
  BY <1>0
<1> HIDE DEF r
<1>5. Len(r.answers) = n /\ Answering(r.answers, batch) /\ Serves(s, r.srv, batch, n)
  BY <1>3, <1>4
<1> QED  BY <1>5 DEF Answering, r

-----------------------------------------------------------------------------
(* A page of changes.                                                      *)

\* A page has changes of the server's answer only.
Page(s, c) ==
  IF Len(Changes(s, c)) > PageSize THEN SubSeq(Changes(s, c), 1, PageSize) ELSE Changes(s, c)

LEMMA PageOfChanges ==
  ASSUME NEW s, ServerOK(s), NEW c
  PROVE  /\ Page(s, c) \in Seq(PulledChange)
         /\ \A k \in DOMAIN Page(s, c) : \E j \in DOMAIN Changes(s, c) :
              Page(s, c)[k] = Changes(s, c)[j]
<1> DEFINE all == Changes(s, c)
           page == Page(s, c)
<1>1. all \in Seq(PulledChange)
  BY ChangesFacts
<1> HIDE DEF all
<1>2. page = IF Len(all) > PageSize THEN SubSeq(all, 1, PageSize) ELSE all
  BY DEF all, Page
<1> HIDE DEF page
<1>3. CASE Len(all) > PageSize
  <2>1. PageSize \in 1..Len(all) /\ Len(all) \in Nat /\ PageSize \in Nat
    BY <1>1, <1>3, PageAssumption
  <2>2. /\ SubSeq(all, 1, PageSize) \in Seq(PulledChange)
        /\ DOMAIN SubSeq(all, 1, PageSize) = 1..PageSize
        /\ \A k \in 1..PageSize : SubSeq(all, 1, PageSize)[k] = all[k]
    BY <1>1, <2>1
  <2>3. \A k \in 1..PageSize : k \in DOMAIN all
    BY <1>1, <2>1
  <2> QED  BY <1>2, <1>3, <2>2, <2>3 DEF all, page
<1>4. CASE ~ (Len(all) > PageSize)
  BY <1>1, <1>2, <1>4 DEF all, page
<1> QED  BY <1>3, <1>4

-----------------------------------------------------------------------------
(* What holds of a device d: its database D, the request N its engine      *)
(* awaits, the late push L and the cursor c, against the server s and the  *)
(* ids b generated so far.                                                 *)

Request(d) ==
  [phase : {"idle", "push", "pushed", "pull", "pulled"}, batch : Seq(WireOp(d)),
   answers : Seq(Answer), page : Seq(PulledChange), more : BOOLEAN]

Wires(N, L) == Range(N.batch) \cup Range(L)

\* An operation under way was sent by the device, and is what the device holds
\* under its id, if it still holds it.
SentAsIs(D, w) ==
  /\ Valid(w) /\ w.opId[2] \in 1..D.made
  /\ \A k \in DOMAIN D.out : D.out[k].opId = w.opId =>
       LET o == D.out[k]
       IN  o.sent /\ o.id = w.id /\ o.action = w.action /\ o.base = w.base

\* The server has answered an upsert of the device with the version after its
\* base, if it has applied it; and it has not applied what was never sent.
SeenByServer(d, D, N, L, s) ==
  /\ \A w \in Wires(N, L) : w.action = "upsert" => AppliedTo(s, w)
  /\ \A k \in DOMAIN D.out :
       LET o == D.out[k]
       IN  /\ ~ o.sent => s.applied[o.opId] = NotApplied
           /\ o.sent /\ o.action = "upsert" => AppliedTo(s, o)
  /\ \A n \in 1..MaxOps : n > D.made => s.applied[<<d, n>>] = NotApplied

AsAnswered(N) ==
  N.phase = "pushed" =>
    /\ DOMAIN N.answers = DOMAIN N.batch
    /\ \A k \in DOMAIN N.batch : Answers(N.answers[k], N.batch[k])

\* The records the device has, or has heard of, are ids that were generated.
Heard(D, N, L, b) ==
  /\ \A i \in Id : HasRow(D, i) => i \in b
  /\ \A w \in Wires(N, L) : w.id \in b
  /\ \A k \in DOMAIN N.page : N.page[k].id \in b

DeviceOK(d, D, N, L, c, s, b) ==
  /\ Fine(D, d) /\ D.made <= MaxOps
  /\ N \in Request(d) /\ L \in Seq(WireOp(d)) /\ c \in 0..s.seq
  /\ \A k \in DOMAIN N.page : Pullable(N.page[k], s)
  /\ \A w \in Wires(N, L) : SentAsIs(D, w)
  /\ \A v, w \in Wires(N, L) : v.opId = w.opId =>
       v.id = w.id /\ v.action = w.action /\ v.base = w.base
  /\ SeenByServer(d, D, N, L, s)
  /\ AsAnswered(N)
  /\ Heard(D, N, L, b)

\* A step of the server about the operations of other devices.
LEMMA ServerMovesOn ==
  ASSUME NEW d \in Device, NEW D, NEW N, NEW L, NEW c, NEW s, NEW b,
         DeviceOK(d, D, N, L, c, s, b), ServerOK(s),
         NEW t, ServerOK(t), t.seq >= s.seq,
         \A o \in OpId : o[1] = d => t.applied[o] = s.applied[o],
         NEW a, b \subseteq a
  PROVE  DeviceOK(d, D, N, L, c, t, a)
<1>0. s.seq \in Nat /\ t.seq \in Nat
  BY DEF ServerOK, ServerState
<1>1. c \in 0..t.seq
  BY <1>0 DEF DeviceOK
<1>2. \A k \in DOMAIN N.page : Pullable(N.page[k], t)
  <2>1. \A k \in DOMAIN N.page : Pullable(N.page[k], s) /\ N.page[k].seq \in Nat
    BY DEF DeviceOK, Pullable, PulledChange
  <2> QED  BY <2>1, <1>0 DEF Pullable
<1>3. SeenByServer(d, D, N, L, t)
  <2>1. \A w \in Wires(N, L) : w.opId \in OpId /\ w.opId[1] = d
    <3>1. \A w \in Wires(N, L) : w \in WireOp(d)
      BY DEF DeviceOK, Request, Wires, Range
    <3>2. \A w \in Wires(N, L) : Valid(w)
      BY DEF DeviceOK, SentAsIs
    <3> QED  BY <3>1, <3>2 DEF WireOp, Valid
  <2>2. \A k \in DOMAIN D.out : D.out[k].opId \in OpId /\ D.out[k].opId[1] = d
    <3>1. D \in DeviceState(d) /\ Numbered(D) /\ D.made \in Nat /\ D.made <= MaxOps
      BY DEF DeviceOK, Fine, DeviceState
    <3>2. \A k \in DOMAIN D.out : D.out[k] \in PendingOp(d)
      BY <3>1, OutFacts
    <3> QED  BY <3>1, <3>2, OpIdAssumption DEF PendingOp, Numbered
  <2>3. \A n \in 1..MaxOps : <<d, n>> \in OpId /\ <<d, n>>[1] = d
    BY OpIdAssumption
  <2> QED  BY <2>1, <2>2, <2>3 DEF DeviceOK, SeenByServer, AppliedTo
<1>4. Heard(D, N, L, a)
  BY DEF DeviceOK, Heard
<1> QED  BY <1>1, <1>2, <1>3, <1>4 DEF DeviceOK

\* The device's parts have their types.
LEMMA DeviceParts ==
  ASSUME NEW d \in Device, NEW D, NEW N, NEW L, NEW c, NEW s, NEW b,
         DeviceOK(d, D, N, L, c, s, b)
  PROVE  /\ D \in DeviceState(d) /\ D.made \in Nat /\ D.made <= MaxOps /\ Numbered(D)
         /\ \A k \in DOMAIN D.out : /\ D.out[k] \in PendingOp(d)
                                   /\ D.out[k].opId \in OpId
                                   /\ D.out[k].opId[1] = d
                                   /\ D.out[k].opId = <<d, D.out[k].opId[2]>>
                                   /\ D.out[k].opId[2] \in Nat
                                   /\ D.out[k].opId[2] <= D.made
                                   /\ D.out[k].sent \in BOOLEAN
         /\ \A w \in Wires(N, L) : w \in WireOp(d) /\ Valid(w) /\ w.opId[1] = d
<1>1. D \in DeviceState(d) /\ D.made \in Nat /\ D.made <= MaxOps /\ Numbered(D)
  BY DEF DeviceOK, Fine, DeviceState
<1>2. \A k \in DOMAIN D.out : D.out[k] \in PendingOp(d)
  BY <1>1, OutFacts
<1>3. \A w \in Wires(N, L) : w \in WireOp(d) /\ Valid(w)
  BY DEF DeviceOK, Request, Wires, Range, SentAsIs
<1>4. ASSUME NEW k \in DOMAIN D.out
      PROVE  /\ D.out[k].opId \in OpId /\ D.out[k].opId[1] = d
             /\ D.out[k].opId = <<d, D.out[k].opId[2]>>
             /\ D.out[k].opId[2] \in Nat /\ D.out[k].opId[2] <= D.made
             /\ D.out[k].sent \in BOOLEAN
  <2>1. D.out[k].opId \in {d} \X Nat /\ D.out[k].sent \in BOOLEAN
    BY <1>2 DEF PendingOp
  <2>2. D.out[k].opId[2] \in 1..D.made
    BY <1>1 DEF Numbered
  <2> QED  BY <2>1, <2>2, <1>1, OpIdAssumption
<1>5. \A w \in Wires(N, L) : w.opId[1] = d
  BY <1>3 DEF WireOp
<1> QED  BY <1>1, <1>2, <1>3, <1>4, <1>5

\* A transaction of the device's own.
LEMMA DeviceLed ==
  ASSUME NEW d \in Device, NEW D, NEW N, NEW L, NEW c, NEW s, NEW b,
         DeviceOK(d, D, N, L, c, s, b), NEW E, NEW M, Leads(D, E, d, M), E.made <= MaxOps,
         NEW a, b \subseteq a, M \subseteq a
  PROVE  DeviceOK(d, E, N, L, c, s, a)
<1>0. /\ D.made \in Nat /\ E.made \in Nat /\ D.made <= E.made
      /\ E \in DeviceState(d) /\ Fine(E, d) /\ Follows(D, E)
      /\ \A k \in DOMAIN E.out : E.out[k] \in PendingOp(d)
      /\ \A k \in DOMAIN E.out : E.out[k].opId[2] \in 1..E.made
      /\ \A k \in DOMAIN D.out : D.out[k].sent \in BOOLEAN
  <2>1. E \in DeviceState(d) /\ Fine(E, d) /\ Follows(D, E) /\ Numbered(E)
    BY DEF Leads, Fine
  <2>2. D.made \in Nat /\ E.made \in Nat /\ D.made <= E.made
    BY <2>1, DeviceParts DEF DeviceState, Follows
  <2>3. \A k \in DOMAIN E.out : E.out[k] \in PendingOp(d)
    BY <2>1, OutFacts
  <2> QED  BY <2>1, <2>2, <2>3, DeviceParts DEF Numbered
<1>1. ASSUME NEW k \in DOMAIN E.out
      PROVE  /\ E.out[k].opId = <<d, E.out[k].opId[2]>>
             /\ E.out[k].opId[2] \in 1..MaxOps
             /\ E.out[k].sent \in BOOLEAN
             /\ \/ ~ E.out[k].sent /\ E.out[k].opId[2] > D.made
                \/ \E j \in DOMAIN D.out : SameOp(E.out[k], D.out[j])
  <2>1. E.out[k].opId[2] \in 1..MaxOps
    BY <1>0, OpIdAssumption
  <2> QED  BY <2>1, <1>0 DEF PendingOp, Follows
<1>2. ASSUME NEW w \in Wires(N, L)  PROVE SentAsIs(E, w)
  <2>1. SentAsIs(D, w)
    BY DEF DeviceOK
  <2>2. w.opId[2] \in 1..D.made /\ w.opId[2] \in 1..E.made
    BY <2>1, <1>0 DEF SentAsIs
  <2>3. ASSUME NEW k \in DOMAIN E.out, E.out[k].opId = w.opId
        PROVE  LET o == E.out[k]
               IN  o.sent /\ o.id = w.id /\ o.action = w.action /\ o.base = w.base
    <3>1. PICK j \in DOMAIN D.out : SameOp(E.out[k], D.out[j])
      BY <2>2, <2>3, <1>0, <1>1
    <3>2. D.out[j].opId = w.opId
      BY <3>1, <2>3 DEF SameOp
    <3>3. /\ D.out[j].sent /\ D.out[j].id = w.id /\ D.out[j].action = w.action
          /\ D.out[j].base = w.base
      BY <2>1, <3>2 DEF SentAsIs
    <3>4. E.out[k].sent \in BOOLEAN /\ D.out[j].sent \in BOOLEAN
      BY <1>0, <1>1
    <3> QED  BY <3>1, <3>3, <3>4 DEF SameOp
  <2> QED  BY <2>1, <2>2, <2>3 DEF SentAsIs
<1>3. SeenByServer(d, E, N, L, s)
  <2>1. \A w \in Wires(N, L) : w.action = "upsert" => AppliedTo(s, w)
    BY DEF DeviceOK, SeenByServer
  <2>2. \A n \in 1..MaxOps : n > E.made => s.applied[<<d, n>>] = NotApplied
    <3>1. \A n \in 1..MaxOps : n > E.made => n > D.made
      BY <1>0
    <3> QED  BY <3>1 DEF DeviceOK, SeenByServer
  <2>3. ASSUME NEW k \in DOMAIN E.out
        PROVE  LET o == E.out[k]
               IN  /\ ~ o.sent => s.applied[o.opId] = NotApplied
                   /\ o.sent /\ o.action = "upsert" => AppliedTo(s, o)
    <3>1. CASE ~ E.out[k].sent /\ E.out[k].opId[2] > D.made
      <4>1. s.applied[<<d, E.out[k].opId[2]>>] = NotApplied
        BY <3>1, <1>1 DEF DeviceOK, SeenByServer
      <4> QED  BY <3>1, <4>1, <1>1
    <3>2. CASE \E j \in DOMAIN D.out : SameOp(E.out[k], D.out[j])
      <4>1. PICK j \in DOMAIN D.out : SameOp(E.out[k], D.out[j])
        BY <3>2
      <4>2. /\ ~ D.out[j].sent => s.applied[D.out[j].opId] = NotApplied
            /\ D.out[j].sent /\ D.out[j].action = "upsert" => AppliedTo(s, D.out[j])
        BY DEF DeviceOK, SeenByServer
      <4>3. E.out[k].sent \in BOOLEAN /\ D.out[j].sent \in BOOLEAN
        BY <1>0, <1>1
      <4> QED  BY <4>1, <4>2, <4>3 DEF SameOp, AppliedTo
    <3> QED  BY <3>1, <3>2, <1>1
  <2> QED  BY <2>1, <2>2, <2>3 DEF SeenByServer
<1>4. Heard(E, N, L, a)
  BY DEF DeviceOK, Heard, Leads
<1> QED  BY <1>0, <1>2, <1>3, <1>4 DEF DeviceOK

\* The engine stops awaiting, or awaits a page; the late push is another one that
\* was under way, or none.
LEMMA RequestOver ==
  ASSUME NEW d \in Device, NEW D, NEW N, NEW L, NEW c, NEW s, NEW b,
         DeviceOK(d, D, N, L, c, s, b), NEW R \in {Idle, Pulling},
         NEW K \in {L, N.batch, <<>>}
  PROVE  DeviceOK(d, D, R, K, c, s, b) /\ DeviceOK(d, D, R, L, c, s, b)
<1>1. R \in Request(d) /\ R.batch = <<>> /\ R.page = <<>> /\ R.phase # "pushed"
  <2>1. /\ <<>> \in Seq(WireOp(d)) /\ <<>> \in Seq(Answer) /\ <<>> \in Seq(PulledChange)
        /\ FALSE \in BOOLEAN
    OBVIOUS
  <2>2. CASE R = Idle
    BY <2>1, <2>2 DEF Idle, Request
  <2>3. CASE R = Pulling
    BY <2>1, <2>3 DEF Idle, Pulling, Request
  <2> QED  BY <2>2, <2>3
<1>2. Wires(R, K) \subseteq Wires(N, L) /\ Wires(R, L) \subseteq Wires(N, L)
      /\ K \in Seq(WireOp(d)) /\ L \in Seq(WireOp(d))
  BY <1>1 DEF Wires, Range, DeviceOK, Request
<1>3. ASSUME NEW J \in {K, L}  PROVE DeviceOK(d, D, R, J, c, s, b)
  <2>1. SeenByServer(d, D, R, J, s)
    BY <1>2 DEF DeviceOK, SeenByServer
  <2>2. AsAnswered(R)
    BY <1>1 DEF AsAnswered
  <2>3. DOMAIN R.page = {}
    BY <1>1
  <2>4. Heard(D, R, J, b)
    BY <1>2, <2>3 DEF DeviceOK, Heard
  <2> QED  BY <1>1, <1>2, <2>1, <2>2, <2>3, <2>4 DEF DeviceOK
<1> QED  BY <1>3

\* The engine sends the batch it has selected, or goes on to pull.
LEMMA SendingOn ==
  ASSUME NEW d \in Device, NEW D, NEW N, NEW L, NEW c, NEW s, NEW b,
         DeviceOK(d, D, N, L, c, s, b), ServerOK(s),
         NEW E, NEW batch, Selects(D, E, batch, d), NEW R \in {Pulling, Pushing(batch)}
  PROVE  DeviceOK(d, E, R, L, c, s, b)
<1>0. /\ Fine(E, d) /\ E.row = D.row /\ E.made = D.made /\ batch \in Seq(WireOp(d))
      /\ E \in DeviceState(d) /\ Numbered(E)
      /\ \A k \in DOMAIN E.out : E.out[k] \in PendingOp(d)
      /\ \A k \in DOMAIN E.out : E.out[k].sent \in BOOLEAN /\ E.out[k].id \in Id
      /\ \A n \in DOMAIN batch : batch[n] \in WireOp(d)
      /\ DOMAIN batch = 1..Len(batch) /\ Len(batch) \in Nat
  <2>1. /\ Fine(E, d) /\ E.row = D.row /\ E.made = D.made /\ batch \in Seq(WireOp(d))
        /\ E \in DeviceState(d) /\ Numbered(E)
    BY DEF Selects, Fine
  <2>2. \A k \in DOMAIN E.out : E.out[k] \in PendingOp(d)
    BY <2>1, OutFacts
  <2>3. \A k \in DOMAIN E.out : E.out[k].sent \in BOOLEAN /\ E.out[k].id \in Id
    BY <2>2 DEF PendingOp
  <2> QED  BY <2>1, <2>2, <2>3
<1>1. ASSUME NEW k \in DOMAIN E.out
      PROVE  \E j \in DOMAIN D.out :
               LET o == E.out[k]
                   p == D.out[j]
               IN  /\ o.opId = p.opId /\ o.id = p.id
                   /\ p.sent => SameOp(o, p)
                   /\ o.sent /\ ~ p.sent => \E n \in DOMAIN batch : batch[n].opId = o.opId
  BY DEF Selects
<1>2. ASSUME NEW n \in DOMAIN batch
      PROVE  \E k \in DOMAIN E.out :
               LET w == batch[n]
                   o == E.out[k]
               IN  /\ o.sent /\ o.opId = w.opId /\ o.id = w.id /\ o.action = w.action
                   /\ o.base = w.base
                   /\ w.action = "upsert" => w.data \in PayloadOf(w.id)
  BY DEF Selects
<1>3. ASSUME NEW n \in DOMAIN batch  PROVE SentAsIs(E, batch[n])
  <2> DEFINE w == batch[n]
  <2>1. PICK k \in DOMAIN E.out :
          /\ E.out[k].sent /\ E.out[k].opId = w.opId /\ E.out[k].id = w.id
          /\ E.out[k].action = w.action /\ E.out[k].base = w.base
          /\ w.action = "upsert" => w.data \in PayloadOf(w.id)
    BY <1>2
  <2>2. w \in WireOp(d)
    BY <1>0
  <2>3. w.opId[2] \in 1..E.made
    BY <1>0, <2>1 DEF Numbered
  <2>4. w.opId \in OpId
    <3>1. w.opId[2] \in 1..MaxOps
      BY <2>3, <1>0, DeviceParts, OpIdAssumption
    <3>2. w.opId = <<d, w.opId[2]>>
      BY <2>2 DEF WireOp
    <3> QED  BY <3>1, <3>2, OpIdAssumption
  <2>5. Valid(w)
    BY <2>1, <2>2, <2>4 DEF Valid, WireOp
  <2>6. \A j \in DOMAIN E.out : E.out[j].opId = w.opId => j = k
    BY <1>0, <2>1 DEF Numbered
  <2> HIDE DEF w
  <2>7. SentAsIs(E, w)
    BY <2>1, <2>3, <2>5, <2>6 DEF SentAsIs
  <2> QED  BY <2>7 DEF w
<1>4. ASSUME NEW w \in Range(L)  PROVE SentAsIs(E, w)
  <2>1. SentAsIs(D, w)
    BY DEF DeviceOK, Wires
  <2>2. ASSUME NEW k \in DOMAIN E.out, E.out[k].opId = w.opId
        PROVE  LET o == E.out[k]
               IN  o.sent /\ o.id = w.id /\ o.action = w.action /\ o.base = w.base
    <3>1. PICK j \in DOMAIN D.out :
            /\ E.out[k].opId = D.out[j].opId
            /\ D.out[j].sent => SameOp(E.out[k], D.out[j])
      BY <1>1
    <3>2. /\ D.out[j].sent /\ D.out[j].id = w.id /\ D.out[j].action = w.action
          /\ D.out[j].base = w.base
      BY <2>1, <2>2, <3>1 DEF SentAsIs
    <3>3. SameOp(E.out[k], D.out[j]) /\ E.out[k].sent \in BOOLEAN
          /\ D.out[j].sent \in BOOLEAN
      BY <1>0, <3>1, <3>2, DeviceParts
    <3> QED  BY <3>2, <3>3 DEF SameOp
  <2> QED  BY <1>0, <2>1, <2>2 DEF SentAsIs
<1>5. ASSUME NEW v \in Range(batch) \cup Range(L), NEW w \in Range(batch) \cup Range(L),
             v.opId = w.opId
      PROVE  v.id = w.id /\ v.action = w.action /\ v.base = w.base
  <2>1. ASSUME NEW x \in Range(batch), NEW y \in Range(batch) \cup Range(L), x.opId = y.opId
        PROVE  x.id = y.id /\ x.action = y.action /\ x.base = y.base
    <3>1. PICK n \in DOMAIN batch : x = batch[n]
      BY DEF Range
    <3>2. PICK k \in DOMAIN E.out : E.out[k].opId = x.opId /\ E.out[k].action = x.action
                                    /\ E.out[k].base = x.base /\ E.out[k].id = x.id
      BY <1>2, <3>1
    <3>3. SentAsIs(E, y)
      BY <1>3, <1>4 DEF Range
    <3>4. /\ E.out[k].action = y.action /\ E.out[k].base = y.base
          /\ E.out[k].id = y.id
      BY <3>2, <3>3, <2>1 DEF SentAsIs
    <3> QED  BY <3>2, <3>4
  <2>2. CASE v \in Range(batch)
    BY <2>1, <2>2, <1>5
  <2>3. CASE w \in Range(batch)
    BY <2>1, <2>3, <1>5
  <2>4. CASE v \in Range(L) /\ w \in Range(L)
    BY <2>4, <1>5 DEF DeviceOK, Wires
  <2> QED  BY <2>2, <2>3, <2>4
<1>6. ASSUME NEW k \in DOMAIN E.out
      PROVE  LET o == E.out[k]
             IN  /\ ~ o.sent => s.applied[o.opId] = NotApplied
                 /\ o.sent /\ o.action = "upsert" => AppliedTo(s, o)
  <2>1. PICK j \in DOMAIN D.out :
          /\ E.out[k].opId = D.out[j].opId
          /\ D.out[j].sent => SameOp(E.out[k], D.out[j])
    BY <1>1
  <2>2. /\ ~ D.out[j].sent => s.applied[D.out[j].opId] = NotApplied
        /\ D.out[j].sent /\ D.out[j].action = "upsert" => AppliedTo(s, D.out[j])
    BY DEF DeviceOK, SeenByServer
  <2>3. E.out[k].sent \in BOOLEAN /\ D.out[j].sent \in BOOLEAN
    BY <1>0, DeviceParts
  <2> QED  BY <2>1, <2>2, <2>3 DEF SameOp, AppliedTo
<1>7. ASSUME NEW n \in DOMAIN batch, batch[n].action = "upsert"
      PROVE  AppliedTo(s, batch[n])
  <2>1. PICK k \in DOMAIN E.out :
          /\ E.out[k].sent /\ E.out[k].opId = batch[n].opId
          /\ E.out[k].action = "upsert" /\ E.out[k].base = batch[n].base
    BY <1>2, <1>7
  <2>2. AppliedTo(s, E.out[k])
    BY <1>6, <2>1
  <2> QED  BY <2>1, <2>2 DEF AppliedTo
<1>8. ASSUME NEW n \in DOMAIN batch  PROVE batch[n].id \in b
  <2>1. PICK k \in DOMAIN E.out : E.out[k].id = batch[n].id
    BY <1>2
  <2>2. batch[n].id \in Id /\ k \in OpsOf(E, batch[n].id)
    BY <1>0, <2>1 DEF OpsOf
  <2>3. HasRow(E, batch[n].id)
    BY <1>0, <2>2, RowOf
  <2>4. HasRow(D, batch[n].id)
    BY <1>0, <2>3 DEF HasRow
  <2> QED  BY <2>2, <2>4 DEF DeviceOK, Heard
<1>9. /\ R \in Request(d) /\ R.page = <<>> /\ R.phase # "pushed"
      /\ Range(R.batch) \subseteq Range(batch)
  <2>1. /\ <<>> \in Seq(WireOp(d)) /\ <<>> \in Seq(Answer) /\ <<>> \in Seq(PulledChange)
        /\ FALSE \in BOOLEAN
    OBVIOUS
  <2>2. CASE R = Pulling
    <3>1. R = [phase |-> "pull", batch |-> <<>>, answers |-> <<>>, page |-> <<>>,
               more |-> FALSE]
      BY <2>2 DEF Pulling, Idle
    <3>2. Range(R.batch) = {}
      BY <3>1 DEF Range
    <3> QED  BY <2>1, <3>1, <3>2 DEF Request
  <2>3. CASE R = Pushing(batch)
    <3>1. R = [phase |-> "push", batch |-> batch, answers |-> <<>>, page |-> <<>>,
               more |-> FALSE]
      BY <2>3 DEF Pushing, Idle
    <3> QED  BY <2>1, <3>1, <1>0 DEF Request
  <2> QED  BY <2>2, <2>3
<1>10. Wires(R, L) \subseteq Range(batch) \cup Range(L) /\ DOMAIN R.page = {}
  BY <1>9 DEF Wires
<1>11. \A w \in Wires(R, L) : SentAsIs(E, w)
  BY <1>3, <1>4, <1>10 DEF Range
<1>12. SeenByServer(d, E, R, L, s)
  <2>1. \A w \in Range(batch) \cup Range(L) : w.action = "upsert" => AppliedTo(s, w)
    BY <1>7 DEF DeviceOK, SeenByServer, Range, Wires
  <2>2. \A n \in 1..MaxOps : n > E.made => s.applied[<<d, n>>] = NotApplied
    BY <1>0 DEF DeviceOK, SeenByServer
  <2> QED  BY <2>1, <2>2, <1>6, <1>10 DEF SeenByServer
<1>13. Heard(E, R, L, b)
  <2>1. \A i \in Id : HasRow(E, i) => i \in b
    BY <1>0 DEF DeviceOK, Heard, HasRow
  <2>2. \A w \in Range(batch) \cup Range(L) : w.id \in b
    BY <1>8 DEF DeviceOK, Heard, Wires, Range
  <2> QED  BY <2>1, <2>2, <1>10 DEF Heard
<1>14. AsAnswered(R)
  BY <1>9 DEF AsAnswered
<1>15. E.made <= MaxOps /\ L \in Seq(WireOp(d)) /\ c \in 0..s.seq
  BY <1>0 DEF DeviceOK
<1> QED  BY <1>0, <1>5, <1>9, <1>10, <1>11, <1>12, <1>13, <1>14, <1>15 DEF DeviceOK

\* What is under way of a device is a batch for the server.
LEMMA UnderWay ==
  ASSUME NEW d \in Device, NEW D, NEW N, NEW L, NEW c, NEW s, NEW b,
         DeviceOK(d, D, N, L, c, s, b), NEW batch \in {N.batch, L}
  PROVE  /\ Batch(batch, Len(batch)) /\ batch \in Seq(WireOp(d))
         /\ DOMAIN batch = 1..Len(batch)
         /\ \A k \in 1..Len(batch) : /\ batch[k] \in Wires(N, L)
                                     /\ batch[k].action = "upsert" => AppliedTo(s, batch[k])
                                     /\ batch[k].id \in b /\ batch[k].opId[1] = d
<1>1. batch \in Seq(WireOp(d)) /\ Len(batch) \in Nat /\ DOMAIN batch = 1..Len(batch)
  BY DEF DeviceOK, Request
<1>2. \A k \in 1..Len(batch) : batch[k] \in Wires(N, L)
  BY <1>1 DEF Wires, Range
<1>3. \A w \in Wires(N, L) : /\ Valid(w) /\ (w.action = "upsert" => AppliedTo(s, w))
                             /\ w.id \in b /\ w.opId[1] = d
  <2>1. \A w \in Wires(N, L) : Valid(w) /\ w.opId[1] = d
    BY DeviceParts
  <2>2. \A w \in Wires(N, L) : w.id \in b
    BY DEF DeviceOK, Heard
  <2>3. \A w \in Wires(N, L) : w.action = "upsert" => AppliedTo(s, w)
    BY DEF DeviceOK, SeenByServer
  <2> QED  BY <2>1, <2>2, <2>3
<1>4. Batch(batch, Len(batch))
  BY <1>1, <1>2, <1>3 DEF Batch, DeviceOK
<1> QED  BY <1>1, <1>2, <1>3, <1>4

\* A batch of the device arrives at the server: what its own transaction has
\* made of the server suits the device and the others.
LEMMA ServedOn ==
  ASSUME NEW d \in Device, NEW D, NEW N, NEW L, NEW c, NEW s, NEW b,
         DeviceOK(d, D, N, L, c, s, b), ServerOK(s), KnownTo(s) \subseteq b,
         NEW batch \in {N.batch, L}, NEW order \in Orders,
         NEW r, r = Applied(s, batch, order)
  PROVE  /\ ServerOK(r.srv) /\ KnownTo(r.srv) \subseteq b
         /\ DeviceOK(d, D, N, L, c, r.srv, b)
         /\ r.answers \in Seq(Answer) /\ DOMAIN r.answers = DOMAIN batch
         /\ \A k \in DOMAIN batch : Answers(r.answers[k], batch[k])
         /\ r.srv.seq >= s.seq
         /\ \A o \in OpId : o[1] # d => r.srv.applied[o] = s.applied[o]
<1> DEFINE n == Len(batch)
<1>1. /\ Batch(batch, n) /\ batch \in Seq(WireOp(d)) /\ DOMAIN batch = 1..n
      /\ \A k \in 1..n : /\ batch[k] \in Wires(N, L)
                         /\ batch[k].action = "upsert" => AppliedTo(s, batch[k])
                         /\ batch[k].id \in b /\ batch[k].opId[1] = d
  BY UnderWay
<1> HIDE DEF n
<1>2. /\ Serves(s, r.srv, batch, n)
      /\ r.answers \in Seq(Answer) /\ Len(r.answers) = n
      /\ \A k \in 1..n : Answers(r.answers[k], batch[k])
  BY <1>1, AppliedFine
<1>3. /\ ServerOK(r.srv) /\ r.srv.seq >= s.seq
      /\ r.srv.seq \in Nat /\ s.seq \in Nat
  BY <1>2 DEF Serves, ServerOK, ServerState
<1>4. KnownTo(r.srv) \subseteq b
  BY <1>1, <1>2 DEF Serves
<1>5. ASSUME NEW o \in OpId, o[1] # d  PROVE r.srv.applied[o] = s.applied[o]
  <2>1. \A k \in 1..n : batch[k].opId # o
    BY <1>1, <1>5
  <2> QED  BY <1>2, <2>1 DEF Serves
<1>6. \A o \in OpId : \/ r.srv.applied[o] = s.applied[o]
                     \/ \E k \in 1..n : batch[k].opId = o
  BY <1>2 DEF Serves
<1>7. ASSUME NEW v, v.opId \in OpId, v.action = "upsert", AppliedTo(s, v),
             \A w \in Wires(N, L) : w.opId = v.opId => w.action = v.action /\ w.base = v.base
      PROVE  AppliedTo(r.srv, v)
  <2>1. CASE r.srv.applied[v.opId] = s.applied[v.opId]
    BY <2>1, <1>7 DEF AppliedTo
  <2>2. CASE \E k \in 1..n : batch[k].opId = v.opId
    <3>1. PICK k \in 1..n : batch[k].opId = v.opId
      BY <2>2
    <3>2. batch[k].action = "upsert" /\ batch[k].base = v.base
      BY <3>1, <1>1, <1>7
    <3>3. AppliedTo(r.srv, batch[k])
      BY <3>2, <1>2 DEF Serves
    <3> QED  BY <3>1, <3>2, <3>3 DEF AppliedTo
  <2> QED  BY <2>1, <2>2, <1>6, <1>7
<1>8. SeenByServer(d, D, N, L, r.srv)
  <2>1. ASSUME NEW w \in Wires(N, L), w.action = "upsert"  PROVE AppliedTo(r.srv, w)
    <3>a. Valid(w)
      BY DeviceParts
    <3>1. AppliedTo(s, w) /\ w.opId \in OpId
      BY <2>1, <3>a DEF DeviceOK, SeenByServer, Valid
    <3>2. \A v \in Wires(N, L) : v.opId = w.opId => v.action = w.action /\ v.base = w.base
      BY DEF DeviceOK
    <3> QED  BY <2>1, <3>1, <3>2, <1>7
  <2>2. ASSUME NEW k \in DOMAIN D.out
        PROVE  LET o == D.out[k]
               IN  /\ ~ o.sent => r.srv.applied[o.opId] = NotApplied
                   /\ o.sent /\ o.action = "upsert" => AppliedTo(r.srv, o)
    <3> DEFINE o == D.out[k]
    <3>1. /\ ~ o.sent => s.applied[o.opId] = NotApplied
          /\ o.sent /\ o.action = "upsert" => AppliedTo(s, o)
          /\ o.opId \in OpId
      BY DeviceParts DEF DeviceOK, SeenByServer
    <3>2. \A w \in Wires(N, L) : w.opId = o.opId =>
            o.sent /\ w.action = o.action /\ w.base = o.base
      BY DEF DeviceOK, SentAsIs
    <3> HIDE DEF o
    <3>3. ~ o.sent => r.srv.applied[o.opId] = NotApplied
      BY <3>1, <3>2, <1>1, <1>6
    <3>4. o.sent /\ o.action = "upsert" => AppliedTo(r.srv, o)
      BY <3>1, <3>2, <1>7
    <3> QED  BY <3>3, <3>4 DEF o
  <2>3. ASSUME NEW m \in 1..MaxOps, m > D.made
        PROVE  r.srv.applied[<<d, m>>] = NotApplied
    <3>1. s.applied[<<d, m>>] = NotApplied /\ <<d, m>> \in OpId
      BY <2>3, OpIdAssumption DEF DeviceOK, SeenByServer
    <3>2. \A k \in 1..n : batch[k].opId # <<d, m>>
      <4>1. \A k \in 1..n : batch[k].opId[2] \in 1..D.made
        BY <1>1 DEF DeviceOK, SentAsIs
      <4>2. m \notin 1..D.made
        BY <2>3, DeviceParts
      <4> QED  BY <4>1, <4>2
    <3> QED  BY <3>1, <3>2, <1>6
  <2> QED  BY <2>1, <2>2, <2>3 DEF SeenByServer
<1>9. \A k \in DOMAIN N.page : Pullable(N.page[k], r.srv)
  <2>1. \A k \in DOMAIN N.page : Pullable(N.page[k], s) /\ N.page[k].seq \in Nat
    BY DEF DeviceOK, Pullable, PulledChange
  <2> QED  BY <2>1, <1>3 DEF Pullable
<1>10. c \in 0..r.srv.seq
  BY <1>3 DEF DeviceOK
<1>11. DeviceOK(d, D, N, L, c, r.srv, b)
  BY <1>8, <1>9, <1>10 DEF DeviceOK
<1>12. DOMAIN r.answers = DOMAIN batch
  BY <1>1, <1>2
<1> QED  BY <1>1, <1>2, <1>3, <1>4, <1>5, <1>11, <1>12

\* The results of the batch are there.
LEMMA AnsweredOn ==
  ASSUME NEW d \in Device, NEW D, NEW N, NEW L, NEW c, NEW s, NEW b,
         DeviceOK(d, D, N, L, c, s, b), NEW answers \in Seq(Answer),
         DOMAIN answers = DOMAIN N.batch,
         \A k \in DOMAIN N.batch : Answers(answers[k], N.batch[k])
  PROVE  DeviceOK(d, D, [N EXCEPT !.phase = "pushed", !.answers = answers], L, c, s, b)
<1> DEFINE R == [N EXCEPT !.phase = "pushed", !.answers = answers]
<1>1. /\ R \in Request(d) /\ R.batch = N.batch /\ R.page = N.page /\ R.answers = answers
      /\ R.phase = "pushed"
  BY DEF DeviceOK, Request
<1> HIDE DEF R
<1>2. Wires(R, L) = Wires(N, L)
  BY <1>1 DEF Wires
<1>3. SeenByServer(d, D, R, L, s) /\ Heard(D, R, L, b)
  BY <1>1, <1>2 DEF DeviceOK, SeenByServer, Heard
<1>4. AsAnswered(R)
  BY <1>1 DEF AsAnswered
<1>5. DeviceOK(d, D, R, L, c, s, b)
  BY <1>1, <1>2, <1>3, <1>4 DEF DeviceOK
<1> QED  BY <1>5 DEF R

\* The device takes the results in.
LEMMA ResultsTakenIn ==
  ASSUME NEW d \in Device, NEW D, NEW N, NEW L, NEW c, NEW s, NEW b,
         DeviceOK(d, D, N, L, c, s, b), N.phase = "pushed"
  PROVE  /\ Leads(D, PushTakenIn(D, N.batch, N.answers), d, {})
         /\ PushTakenIn(D, N.batch, N.answers).made = D.made
<1> DEFINE batch == N.batch
           answers == N.answers
           n == Len(batch)
<1>1. /\ Fine(D, d) /\ batch \in Seq(WireOp(d)) /\ n \in Nat /\ DOMAIN batch = 1..n
      /\ \A k \in 1..n : batch[k] \in Wires(N, L) /\ Answers(answers[k], batch[k])
  <2>1. batch \in Seq(WireOp(d)) /\ n \in Nat /\ DOMAIN batch = 1..n
    BY DEF DeviceOK, Request
  <2>2. \A k \in 1..n : batch[k] \in Wires(N, L)
    BY <2>1 DEF Wires, Range
  <2> QED  BY <2>1, <2>2 DEF DeviceOK, AsAnswered
<1> HIDE DEF batch, answers, n
<1>2. ASSUME NEW k \in 1..n
      PROVE  /\ batch[k].id \in Id /\ batch[k].opId[2] <= D.made
             /\ answers[k].ver \in Nat
             /\ answers[k].state \in Row /\ answers[k].state.data \in Data(batch[k].id)
             /\ answers[k].status = "applied" =>
                  \A j \in DOMAIN D.out : D.out[j].opId = batch[k].opId =>
                    /\ D.out[j].sent
                    /\ D.out[j].action = "upsert" => answers[k].ver = D.out[j].base + 1
  <2>1. batch[k] \in Wires(N, L) /\ Answers(answers[k], batch[k])
    BY <1>1
  <2>2. SentAsIs(D, batch[k])
    BY <2>1 DEF DeviceOK
  <2>3. batch[k].id \in Id /\ batch[k].opId[2] \in 1..D.made
    BY <2>2 DEF SentAsIs, Valid
  <2>4. D.made \in Nat
    BY DeviceParts
  <2>5. /\ answers[k].ver \in Nat /\ answers[k].state \in Row
        /\ answers[k].state.data \in Data(batch[k].id)
    BY <2>1 DEF Answers, Answer
  <2>6. ASSUME answers[k].status = "applied", NEW j \in DOMAIN D.out,
               D.out[j].opId = batch[k].opId
        PROVE  /\ D.out[j].sent
               /\ D.out[j].action = "upsert" => answers[k].ver = D.out[j].base + 1
    BY <2>1, <2>2, <2>6 DEF SentAsIs, Answers
  <2> QED  BY <2>3, <2>4, <2>5, <2>6
<1>3. /\ Leads(D, PushTakenIn(D, batch, answers), d, {})
      /\ PushTakenIn(D, batch, answers).made = D.made
  BY <1>1, <1>2, PushTakenInFine
<1> QED  BY <1>3 DEF batch, answers

\* A page of the server's changes arrives.
LEMMA PageOn ==
  ASSUME NEW d \in Device, NEW D, NEW N, NEW L, NEW c, NEW s, NEW b,
         DeviceOK(d, D, N, L, c, s, b), ServerOK(s), KnownTo(s) \subseteq b,
         NEW page \in Seq(PulledChange), NEW more \in BOOLEAN,
         \A k \in DOMAIN page : \E j \in DOMAIN Changes(s, c) : page[k] = Changes(s, c)[j]
  PROVE  DeviceOK(d, D, [N EXCEPT !.phase = "pulled", !.page = page, !.more = more], L, c, s, b)
<1> DEFINE R == [N EXCEPT !.phase = "pulled", !.page = page, !.more = more]
<1>1. /\ R \in Request(d) /\ R.batch = N.batch /\ R.page = page /\ R.phase = "pulled"
  BY DEF DeviceOK, Request
<1> HIDE DEF R
<1>2. Wires(R, L) = Wires(N, L)
  BY <1>1 DEF Wires
<1>3. \A k \in DOMAIN page : Pullable(page[k], s) /\ page[k].id \in b
  BY ChangesFacts
<1>4. SeenByServer(d, D, R, L, s) /\ Heard(D, R, L, b)
  BY <1>1, <1>2, <1>3 DEF DeviceOK, SeenByServer, Heard
<1>5. AsAnswered(R)
  BY <1>1 DEF AsAnswered
<1>6. DeviceOK(d, D, R, L, c, s, b)
  BY <1>1, <1>2, <1>3, <1>4, <1>5 DEF DeviceOK
<1> QED  BY <1>6 DEF R

\* The device takes the page in and its cursor moves to the last change.
LEMMA PageTakenInOn ==
  ASSUME NEW d \in Device, NEW D, NEW N, NEW L, NEW c, NEW s, NEW b,
         DeviceOK(d, D, N, L, c, s, b), s.seq \in Nat, NEW E, E = PageTakenIn(D, N.page), E.made <= MaxOps,
         NEW R \in {Idle, Pulling},
         NEW a, a = IF N.page = <<>> THEN c ELSE Last(N.page).seq
  PROVE  DeviceOK(d, E, R, L, a, s, b)
<1> DEFINE page == N.page
           n == Len(page)
<1>1. /\ page \in Seq(PulledChange) /\ n \in Nat /\ DOMAIN page = 1..n
      /\ \A k \in 1..n : /\ page[k] \in PulledChange /\ page[k].data \in Data(page[k].id)
                         /\ page[k].seq \in Nat /\ page[k].seq <= s.seq
                         /\ page[k].id \in b
  <2>1. page \in Seq(PulledChange) /\ n \in Nat /\ DOMAIN page = 1..n
    BY DEF DeviceOK, Request
  <2>2. \A k \in 1..n : Pullable(page[k], s) /\ page[k].id \in b
    BY <2>1 DEF DeviceOK, Heard
  <2> QED  BY <2>1, <2>2 DEF Pullable, PulledChange
<1>2. a \in 0..s.seq
  <2>1. CASE page = <<>>
    BY <2>1 DEF DeviceOK
  <2>2. CASE page # <<>>
    <3>1. n \in 1..n /\ a = page[n].seq
      BY <1>1, <2>2 DEF Last
    <3> HIDE DEF page, n
    <3>3. page[n].seq \in Nat /\ page[n].seq <= s.seq
      BY <1>1, <3>1
    <3> QED  BY <3>1, <3>3
  <2> QED  BY <2>1, <2>2
<1> HIDE DEF n, page
<1>3. Leads(D, E, d, {page[k].id : k \in 1..n})
  <2>1. Leads(D, PageTakenIn(D, page), d, {page[k].id : k \in 1..n})
    BY <1>1, PageTakenInFine DEF DeviceOK
  <2> QED  BY <2>1 DEF page
<1>4. {page[k].id : k \in 1..n} \subseteq b
  BY <1>1
<1>5. DeviceOK(d, E, N, L, c, s, b)
  BY <1>3, <1>4, DeviceLed
<1>6. DeviceOK(d, E, R, L, c, s, b)
  BY <1>5, RequestOver
<1> QED  BY <1>2, <1>6 DEF DeviceOK

-----------------------------------------------------------------------------
(* The invariant.                                                          *)

\* The server only tells of ids that were generated, and every device is in
\* order with it.
InOrder ==
  /\ ServerOK(srv) /\ KnownTo(srv) \subseteq born
  /\ DOMAIN dev = Device /\ DOMAIN net = Device /\ DOMAIN late = Device
  /\ cursor \in [Device -> Int]
  /\ \A d \in Device : DeviceOK(d, dev[d], net[d], late[d], cursor[d], srv, born)

\* The step changes what the device d has, and only that.
Only(d) ==
  /\ \A e \in Device \ {d} : /\ dev'[e] = dev[e] /\ net'[e] = net[e]
                             /\ late'[e] = late[e] /\ cursor'[e] = cursor[e]
  /\ DOMAIN dev' = Device /\ DOMAIN net' = Device /\ DOMAIN late' = Device
  /\ cursor' \in [Device -> Int]

LEMMA InitInOrder ==
  ASSUME Init
  PROVE  InOrder
<1>1. ServerOK(srv) /\ KnownTo(srv) \subseteq born /\ srv.seq = 0
      /\ \A o \in OpId : srv.applied[o] = NotApplied
  <2>1. /\ srv.rec = [i \in Id |-> Absent] /\ srv.log = {} /\ srv.seq = 0
        /\ srv.applied = [o \in OpId |-> NotApplied]
        /\ srv = [rec |-> srv.rec, log |-> srv.log, seq |-> srv.seq, applied |-> srv.applied]
    BY DEF Init, EmptyServer
  <2>2. Absent \in Row /\ Absent.ver = 0 /\ \A i \in Id : Absent.data \in Data(i)
    BY NoRowFacts DEF Absent
  <2>3. NotApplied \in Int
    BY DEF NotApplied
  <2>4. srv \in ServerState
    BY <2>1, <2>2, <2>3 DEF ServerState
  <2>5. IsFiniteSet(srv.log)
    BY <2>1, FS_EmptySet
  <2>6. KnownTo(srv) = {}
    BY <2>1, <2>2 DEF KnownTo, Found
  <2> QED  BY <2>1, <2>2, <2>4, <2>5, <2>6 DEF ServerOK
<1>2. ASSUME NEW d \in Device
      PROVE  DeviceOK(d, dev[d], net[d], late[d], cursor[d], srv, born)
  <2> DEFINE D == EmptyDevice(d)
  <2>1. dev[d] = D /\ net[d] = Idle /\ late[d] = <<>> /\ cursor[d] = 0
    BY DEF Init
  <2>2. D.self = d /\ D.made = 0 /\ D.row = [i \in Id |-> NoRow] /\ D.out = <<>>
        /\ D.conf = [i \in Id |-> NoConflict]
        /\ D = [self |-> D.self, made |-> D.made, row |-> D.row, out |-> D.out, conf |-> D.conf]
    BY DEF EmptyDevice
  <2> HIDE DEF D
  <2>3. NoConflict \in ConflictRow /\ \A i \in Id : NoConflict.state.data \in Data(i)
                                                 /\ NoConflict.local \in Data(i)
    <3>1. NoConflict.kind = "none" /\ NoConflict.state = Absent /\ NoConflict.local = NoData
          /\ NoConflict = [kind |-> "none", state |-> Absent, local |-> NoData]
          /\ Absent.data = NoData
      BY DEF NoConflict, Absent
    <3> QED  BY <3>1, NoRowFacts DEF ConflictRow
  <2>4. D \in DeviceState(d)
    <3>1. D.out \in Seq(PendingOp(d)) /\ D.self \in {d} /\ D.made \in Nat
      BY <2>2
    <3>2. D.row \in [Id -> LocalRow]
      BY <2>2, NoRowFacts
    <3>3. D.conf \in [Id -> ConflictRow]
      BY <2>2, <2>3
    <3> QED  BY <2>2, <3>1, <3>2, <3>3 DEF DeviceState
  <2>5. DOMAIN D.out = {}
    BY <2>2
  <2>6. Numbered(D)
    BY <2>5 DEF Numbered
  <2>7. ASSUME NEW i \in Id  PROVE Sound(D, i) /\ Waiting(D, i) /\ Told(D, i)
    <3>1. D.row[i] = NoRow /\ OpsOf(D, i) = {} /\ D.conf[i] = NoConflict
      BY <2>2, <2>5 DEF OpsOf
    <3>2. Sound(D, i) /\ Waiting(D, i)
      BY <2>4, <3>1, NoRowFacts, QuietSound
    <3> QED  BY <2>3, <3>1, <3>2 DEF Told
  <2>8. Fine(D, d) /\ D.made <= MaxOps
    BY <2>2, <2>4, <2>6, <2>7, OpIdAssumption DEF Fine
  <2>9. Idle \in Request(d) /\ Idle.batch = <<>> /\ Idle.page = <<>> /\ Idle.phase = "idle"
    <3>1. /\ <<>> \in Seq(WireOp(d)) /\ <<>> \in Seq(Answer) /\ <<>> \in Seq(PulledChange)
          /\ FALSE \in BOOLEAN
      OBVIOUS
    <3> QED  BY <3>1 DEF Idle, Request
  <2>10. Wires(Idle, <<>>) = {} /\ DOMAIN Idle.page = {}
    BY <2>9 DEF Wires, Range
  <2>11. SeenByServer(d, D, Idle, <<>>, srv)
    <3>1. \A n \in 1..MaxOps : <<d, n>> \in OpId
      BY OpIdAssumption
    <3> QED  BY <1>1, <2>5, <2>10, <3>1 DEF SeenByServer
  <2>12. Heard(D, Idle, <<>>, born)
    <3>1. \A i \in Id : ~ HasRow(D, i)
      BY <2>2, NoRowFacts DEF HasRow
    <3> QED  BY <2>10, <3>1 DEF Heard
  <2>13. AsAnswered(Idle) /\ <<>> \in Seq(WireOp(d)) /\ 0 \in 0..srv.seq
    BY <1>1, <2>9 DEF AsAnswered
  <2>14. DeviceOK(d, D, Idle, <<>>, 0, srv, born)
    BY <2>8, <2>9, <2>10, <2>11, <2>12, <2>13 DEF DeviceOK
  <2> QED  BY <2>1, <2>14
<1>3. DOMAIN dev = Device /\ DOMAIN net = Device /\ DOMAIN late = Device
      /\ cursor \in [Device -> Int]
  BY DEF Init
<1> QED  BY <1>1, <1>2, <1>3 DEF InOrder

\* A step of a device that leaves the server alone.
LEMMA DeviceStep ==
  ASSUME InOrder, NEW d \in Device, Only(d), srv' = srv, born \subseteq born',
         DeviceOK(d, dev'[d], net'[d], late'[d], cursor'[d], srv, born')
  PROVE  InOrder'
<1>1. ServerOK(srv) /\ srv.seq >= srv.seq
  BY DEF InOrder, ServerOK, ServerState
<1>2. ASSUME NEW e \in Device
      PROVE  DeviceOK(e, dev'[e], net'[e], late'[e], cursor'[e], srv, born')
  <2>1. CASE e = d
    BY <2>1
  <2>2. CASE e # d
    <3>1. DeviceOK(e, dev[e], net[e], late[e], cursor[e], srv, born)
      BY DEF InOrder
    <3>2. DeviceOK(e, dev[e], net[e], late[e], cursor[e], srv, born')
      BY <1>1, <3>1, ServerMovesOn
    <3> QED  BY <2>2, <3>2 DEF Only
  <2> QED  BY <2>1, <2>2
<1>3. KnownTo(srv) \subseteq born'
  BY DEF InOrder
<1> QED  BY <1>1, <1>2, <1>3 DEF InOrder, Only

\* A transaction of the user's.
LEMMA LocallyStep ==
  ASSUME InOrder, NEW d \in Device, NEW D, Locally(d, D), NEW M, Leads(dev[d], D, d, M),
         born \subseteq born', M \subseteq born'
  PROVE  InOrder'
<1>1. /\ D.made <= MaxOps /\ dev' = [dev EXCEPT ![d] = D] /\ srv' = srv
      /\ cursor' = cursor /\ net' = net /\ late' = late
  BY DEF Locally
<1>2. dev'[d] = D /\ Only(d)
  BY <1>1 DEF InOrder, Only
<1>3. DeviceOK(d, D, net[d], late[d], cursor[d], srv, born')
  BY <1>1, DeviceLed DEF InOrder
<1> QED  BY <1>1, <1>2, <1>3, DeviceStep

\* A transaction of the user's, whatever it is.
Transacts(d, E, M) ==
  /\ Locally(d, E)
  /\ born' = born \cup M /\ M \in SUBSET (Id \ born)
  /\ Leads(dev[d], E, d, M)
  /\ \A F : Rooted(dev[d], F) => Stems(dev[d], E, F, M)

LEMMA UserTransacts ==
  ASSUME InOrder, NEW d \in Device, User(d) \/ Settle(d)
  PROVE  \E E, M : Transacts(d, E, M)
<1> DEFINE D == dev[d]
<1>0. /\ Fine(D, d) /\ D \in DeviceState(d)
      /\ \A i \in Id : HasRow(D, i) => i \in born
      /\ \A i \in Id : D.conf[i].local \in Data(i)
  BY DEF InOrder, DeviceOK, Fine, Told, Heard
<1>1. ASSUME NEW i \in Id, UserCreates(d, i)  PROVE \E E, M : Transacts(d, E, M)
  <2>1. PICK data \in UserData \cap PayloadOf(i) : Locally(d, LocalCreate(D, i, data))
    BY <1>1 DEF UserCreates
  <2>2. i \notin born /\ born' = born \cup {i}
    BY <1>1 DEF UserCreates
  <2>3. Leads(D, LocalCreate(D, i, data), d, {i})
    BY <1>0, <2>2, CreateFine
  <2>4. \A F : Rooted(D, F) => Stems(D, LocalCreate(D, i, data), F, {i})
    BY <1>0, CreateStems
  <2>5. Transacts(d, LocalCreate(D, i, data), {i})
    BY <2>1, <2>2, <2>3, <2>4 DEF Transacts
  <2> QED  BY <2>5
<1>2. ASSUME NEW i \in Id, UserUpdates(d, i)  PROVE \E E, M : Transacts(d, E, M)
  <2>1. PICK data \in UserData \cap PayloadOf(i) : Locally(d, LocalUpdate(D, i, data))
    BY <1>2 DEF UserUpdates
  <2>2. LiveRow(D, i) /\ born' = born
    BY <1>2 DEF UserUpdates
  <2>3. Leads(D, LocalUpdate(D, i, data), d, {})
    BY <1>0, <2>2, UpdateFine
  <2>4. \A F : Rooted(D, F) => Stems(D, LocalUpdate(D, i, data), F, {})
    BY <1>0, <2>2, UpdateStems
  <2>5. Transacts(d, LocalUpdate(D, i, data), {})
    BY <2>1, <2>2, <2>3, <2>4 DEF Transacts
  <2> QED  BY <2>5
<1>3. ASSUME NEW i \in Id, NEW cascade \in BOOLEAN, UserRemoves(d, i, cascade)
      PROVE  \E E, M : Transacts(d, E, M)
  <2>1. LiveRow(D, i) /\ born' = born /\ Locally(d, LocalRemove(D, i, cascade))
    BY <1>3 DEF UserRemoves
  <2>2. Leads(D, LocalRemove(D, i, cascade), d, {})
    BY <1>0, <2>1, RemoveFine
  <2>3. \A F : Rooted(D, F) => Stems(D, LocalRemove(D, i, cascade), F, {})
    BY <1>0, <2>1, RemoveStems
  <2>4. Transacts(d, LocalRemove(D, i, cascade), {})
    BY <2>1, <2>2, <2>3 DEF Transacts
  <2> QED  BY <2>4
<1>4. ASSUME NEW i \in Id, UserDismisses(d, i)  PROVE \E E, M : Transacts(d, E, M)
  <2>1. born' = born /\ Locally(d, Resolved(D, i))
    BY <1>4 DEF UserDismisses
  <2>2. Leads(D, Resolved(D, i), d, {})
    BY <1>0, ResolvedFine
  <2>3. \A F : Rooted(D, F) => Stems(D, Resolved(D, i), F, {})
    BY <1>0, ResolvedStems
  <2>4. Transacts(d, Resolved(D, i), {})
    BY <2>1, <2>2, <2>3 DEF Transacts
  <2> QED  BY <2>4
<1>5. ASSUME NEW i \in Id, NEW j \in Id, UserRestores(d, i, j)
      PROVE  \E E, M : Transacts(d, E, M)
  <2> DEFINE lost == D.conf[i].local
             E == LocalCreate(D, j, lost)
  <2>1. /\ lost # NoData /\ (i \in Category <=> j \in Category)
        /\ j \notin born /\ born' = born \cup {j}
        /\ Locally(d, E) \/ Locally(d, Resolved(E, i))
    BY <1>5 DEF UserRestores
  <2>2. lost \in PayloadOf(j)
    <3>1. lost \in PayloadOf(i)
      BY <1>0, <2>1 DEF Data
    <3> QED  BY <2>1, <3>1 DEF PayloadOf
  <2> HIDE DEF lost
  <2>3. Leads(D, E, d, {j})
    BY <1>0, <2>1, <2>2, CreateFine
  <2>4. Leads(D, Resolved(E, i), d, {j})
    <3>1. Leads(E, Resolved(E, i), d, {})
      BY <2>3, ResolvedFine DEF Leads
    <3> QED  BY <1>0, <2>3, <3>1, LeadsOn
  <2>5. \A F : Rooted(D, F) => Stems(D, E, F, {j})
    BY <1>0, <2>2, CreateStems
  <2>6. \A F : Rooted(D, F) => Stems(D, Resolved(E, i), F, {j})
    <3> HIDE DEF E
    <3> SUFFICES ASSUME NEW F, Rooted(D, F)  PROVE Stems(D, Resolved(E, i), F, {j})
      OBVIOUS
    <3>1. Stems(D, E, F, {j}) /\ Fine(E, d) /\ Rooted(E, F)
      BY <2>3, <2>5 DEF Leads, Stems
    <3>2. Stems(E, Resolved(E, i), F, {})
      BY <3>1, ResolvedStems
    <3> QED  BY <3>1, <3>2, StemsOn
  <2> HIDE DEF E
  <2>7. Transacts(d, E, {j}) \/ Transacts(d, Resolved(E, i), {j})
    BY <2>1, <2>3, <2>4, <2>5, <2>6 DEF Transacts
  <2> QED  BY <2>7
<1>6. ASSUME NEW i \in Id, UserKeeps(d, i)  PROVE \E E, M : Transacts(d, E, M)
  <2>1. born' = born /\ Locally(d, KeepLocal(D, i)) /\ D.conf[i].kind = "version"
    BY <1>6 DEF UserKeeps
  <2>2. Leads(D, KeepLocal(D, i), d, {})
    BY <1>0, KeepLocalFine
  <2>3. \A F : Rooted(D, F) => Stems(D, KeepLocal(D, i), F, {})
    BY <1>0, <2>1, KeepLocalStems
  <2>4. Transacts(d, KeepLocal(D, i), {})
    BY <2>1, <2>2, <2>3 DEF Transacts
  <2> QED  BY <2>4
<1>7. ASSUME NEW i \in Id, UserTakes(d, i)  PROVE \E E, M : Transacts(d, E, M)
  <2>1. born' = born /\ Locally(d, TakeServer(D, i)) /\ D.conf[i].kind = "version"
    BY <1>7 DEF UserTakes
  <2>2. Leads(D, TakeServer(D, i), d, {})
    BY <1>0, TakeServerFine
  <2>3. \A F : Rooted(D, F) => Stems(D, TakeServer(D, i), F, {})
    BY <1>0, <2>1, TakeServerStems
  <2>4. Transacts(d, TakeServer(D, i), {})
    BY <2>1, <2>2, <2>3 DEF Transacts
  <2> QED  BY <2>4
<1> QED  BY <1>1, <1>2, <1>3, <1>4, <1>5, <1>6, <1>7 DEF User, Settle

LEMMA UserStep ==
  ASSUME InOrder, NEW d \in Device, User(d) \/ Settle(d)
  PROVE  InOrder'
<1>1. PICK E, M : Transacts(d, E, M)
  BY UserTransacts
<1>2. /\ Locally(d, E) /\ Leads(dev[d], E, d, M) /\ born \subseteq born' /\ M \subseteq born'
  BY <1>1 DEF Transacts
<1> QED  BY <1>2, LocallyStep

\* The engine goes round its push loop, from a database D in order.
LEMMA ProceedsStep ==
  ASSUME InOrder, NEW d \in Device, NEW D, NEW due,
         DeviceOK(d, D, net[d], late[d], cursor[d], srv, born),
         Proceeds(d, D, due), UNCHANGED <<srv, cursor, late, born>>
  PROVE  InOrder'
<1> DEFINE s == Selected(D, due)
<1>1. /\ dev' = [dev EXCEPT ![d] = s.dev]
      /\ net' = [net EXCEPT ![d] = IF s.batch = <<>> THEN Pulling ELSE Pushing(s.batch)]
  BY DEF Proceeds
<1>2. Selects(D, s.dev, s.batch, d)
  BY SelectedFine DEF DeviceOK
<1> HIDE DEF s
<1>3. dev'[d] = s.dev /\ net'[d] \in {Pulling, Pushing(s.batch)} /\ Only(d)
  BY <1>1 DEF InOrder, Only
<1>4. DeviceOK(d, s.dev, net'[d], late[d], cursor[d], srv, born)
  BY <1>2, <1>3, SendingOn DEF InOrder
<1> QED  BY <1>3, <1>4, DeviceStep

\* The server runs a batch of the device d.
LEMMA ServerStep ==
  ASSUME InOrder, NEW d \in Device, Only(d), dev'[d] = dev[d], cursor'[d] = cursor[d],
         born' = born, NEW t, srv' = t, ServerOK(t), KnownTo(t) \subseteq born,
         t.seq >= srv.seq, \A o \in OpId : o[1] # d => t.applied[o] = srv.applied[o],
         DeviceOK(d, dev[d], net'[d], late'[d], cursor[d], t, born)
  PROVE  InOrder'
<1>1. ASSUME NEW e \in Device
      PROVE  DeviceOK(e, dev'[e], net'[e], late'[e], cursor'[e], t, born)
  <2>1. CASE e = d
    BY <2>1
  <2>2. CASE e # d
    <3>1. DeviceOK(e, dev[e], net[e], late[e], cursor[e], srv, born) /\ ServerOK(srv)
      BY DEF InOrder
    <3>2. \A o \in OpId : o[1] = e => t.applied[o] = srv.applied[o]
      BY <2>2
    <3>3. DeviceOK(e, dev[e], net[e], late[e], cursor[e], t, born)
      BY <3>1, <3>2, ServerMovesOn
    <3> QED  BY <2>2, <3>3 DEF Only
  <2> QED  BY <2>1, <2>2
<1> QED  BY <1>1 DEF InOrder, Only

\* Requests arrive at the server.
LEMMA ArrivalStep ==
  ASSUME InOrder, NEW d \in Device,
         PushArrives(d) \/ LatePushArrives(d) \/ PullArrives(d)
  PROVE  InOrder'
<1> DEFINE D == dev[d]
           N == net[d]
           L == late[d]
           c == cursor[d]
<1>0. /\ DeviceOK(d, D, N, L, c, srv, born) /\ ServerOK(srv) /\ KnownTo(srv) \subseteq born
      /\ N \in Request(d)
  BY DEF InOrder, DeviceOK
<1>1. CASE PushArrives(d)
  <2>1. PICK order \in Orders :
          LET r == Applied(srv, N.batch, order)
          IN  /\ srv' = r.srv
              /\ net' = [net EXCEPT ![d].phase = "pushed", ![d].answers = r.answers]
    BY <1>1 DEF PushArrives
  <2> DEFINE r == Applied(srv, N.batch, order)
             R == [N EXCEPT !.phase = "pushed", !.answers = r.answers]
  <2>2. srv' = r.srv /\ net' = [net EXCEPT ![d].phase = "pushed", ![d].answers = r.answers]
        /\ dev' = dev /\ cursor' = cursor /\ late' = late /\ born' = born
    BY <1>1, <2>1 DEF PushArrives
  <2>3. net'[d] = R /\ Only(d)
    BY <2>2 DEF InOrder, Only
  <2>4. /\ ServerOK(r.srv) /\ KnownTo(r.srv) \subseteq born
        /\ DeviceOK(d, D, N, L, c, r.srv, born)
        /\ r.answers \in Seq(Answer) /\ DOMAIN r.answers = DOMAIN N.batch
        /\ \A k \in DOMAIN N.batch : Answers(r.answers[k], N.batch[k])
        /\ r.srv.seq >= srv.seq
        /\ \A o \in OpId : o[1] # d => r.srv.applied[o] = srv.applied[o]
    <3> HIDE DEF r, D, N, L, c
    <3> QED  BY <1>0, ServedOn DEF r
  <2>5. DeviceOK(d, D, R, L, c, r.srv, born)
    <3> HIDE DEF r, D, N, L, c
    <3> QED  BY <2>4, AnsweredOn
  <2> HIDE DEF r, R
  <2> QED  BY <2>2, <2>3, <2>4, <2>5, ServerStep
<1>2. CASE LatePushArrives(d)
  <2>1. PICK order \in Orders : srv' = Applied(srv, L, order).srv
    BY <1>2 DEF LatePushArrives
  <2> DEFINE r == Applied(srv, L, order)
  <2>2. srv' = r.srv /\ late' = [late EXCEPT ![d] = <<>>]
        /\ dev' = dev /\ cursor' = cursor /\ net' = net /\ born' = born
    BY <1>2, <2>1 DEF LatePushArrives
  <2>3. late'[d] = <<>> /\ Only(d)
    BY <2>2 DEF InOrder, Only
  <2>4. /\ ServerOK(r.srv) /\ KnownTo(r.srv) \subseteq born
        /\ DeviceOK(d, D, N, L, c, r.srv, born)
        /\ r.srv.seq >= srv.seq
        /\ \A o \in OpId : o[1] # d => r.srv.applied[o] = srv.applied[o]
    <3> HIDE DEF r, D, N, L, c
    <3> QED  BY <1>0, ServedOn DEF r
  <2>5. DeviceOK(d, D, N, <<>>, c, r.srv, born)
    <3> HIDE DEF r, D, N, L, c
    <3>1. Wires(N, <<>>) \subseteq Wires(N, L) /\ <<>> \in Seq(WireOp(d))
      BY DEF Wires, Range
    <3>2. SeenByServer(d, D, N, <<>>, r.srv) /\ Heard(D, N, <<>>, born)
      BY <2>4, <3>1 DEF DeviceOK, SeenByServer, Heard
    <3> QED  BY <2>4, <3>1, <3>2 DEF DeviceOK
  <2> HIDE DEF r
  <2> QED  BY <2>2, <2>3, <2>4, <2>5, ServerStep
<1>3. CASE PullArrives(d)
  <2> DEFINE all == Changes(srv, c)
             page == IF Len(all) > PageSize THEN SubSeq(all, 1, PageSize) ELSE all
             R == [N EXCEPT !.phase = "pulled", !.page = page, !.more = (Len(page) = PageSize)]
  <2>1. /\ net' = [net EXCEPT ![d].phase = "pulled", ![d].page = page,
                              ![d].more = (Len(page) = PageSize)]
        /\ srv' = srv /\ dev' = dev /\ cursor' = cursor /\ late' = late /\ born' = born
    BY <1>3 DEF PullArrives
  <2>2. net'[d] = R /\ Only(d)
    BY <2>1 DEF InOrder, Only
  <2>3. page \in Seq(PulledChange) /\ \A k \in DOMAIN page :
          \E j \in DOMAIN all : page[k] = all[j]
    <3>1. page = Page(srv, c)
      BY DEF Page
    <3> HIDE DEF page
    <3> QED  BY <1>0, <3>1, PageOfChanges
  <2> HIDE DEF page
  <2>4. DeviceOK(d, D, R, L, c, srv, born)
    <3> HIDE DEF D, N, L, c
    <3> QED  BY <1>0, <2>3, PageOn
  <2> HIDE DEF R
  <2> QED  BY <2>1, <2>2, <2>4, DeviceStep
<1> QED  BY <1>1, <1>2, <1>3

\* The engine takes the answer in, or the request fails.
LEMMA EngineStep ==
  ASSUME InOrder, NEW d \in Device,
         \/ \E due \in SUBSET Retries(d) : Run(d, due)
         \/ PushReturns(d) \/ PullReturns(d)
         \/ PushFails(d) \/ PushUnauthorized(d) \/ PullFails(d)
  PROVE  InOrder'
<1> DEFINE D == dev[d]
           N == net[d]
           L == late[d]
           c == cursor[d]
<1>0. DeviceOK(d, D, N, L, c, srv, born) /\ ServerOK(srv) /\ Fine(D, d)
      /\ N \in Request(d) /\ srv.seq \in Nat
  BY DEF InOrder, DeviceOK, ServerOK, ServerState
<1>1. CASE \E due \in SUBSET Retries(d) : Run(d, due)
  <2>1. PICK due \in SUBSET Retries(d) : Proceeds(d, D, due)
    BY <1>1 DEF Run
  <2>2. UNCHANGED <<srv, cursor, late, born>>
    BY <1>1 DEF Run
  <2> QED  BY <1>0, <2>1, <2>2, ProceedsStep
<1>2. CASE PushReturns(d)
  <2> DEFINE E == PushTakenIn(D, N.batch, N.answers)
  <2>1. /\ N.phase = "pushed" /\ UNCHANGED <<srv, cursor, late, born>>
        /\ \/ \E due \in SUBSET Retries(d) : Proceeds(d, E, due)
           \/ dev' = [dev EXCEPT ![d] = E] /\ net' = [net EXCEPT ![d] = Pulling]
    BY <1>2 DEF PushReturns
  <2>2. Leads(D, E, d, {}) /\ E.made = D.made
    <3> HIDE DEF D, N, L, c
    <3> QED  BY <1>0, <2>1, ResultsTakenIn
  <2>3. E.made <= MaxOps
    BY <1>0, <2>2 DEF DeviceOK
  <2> HIDE DEF E
  <2>4. DeviceOK(d, E, N, L, c, srv, born)
    <3> HIDE DEF D, N, L, c
    <3> QED  BY <1>0, <2>2, <2>3, DeviceLed
  <2>5. CASE \E due \in SUBSET Retries(d) : Proceeds(d, E, due)
    BY <2>1, <2>4, <2>5, ProceedsStep
  <2>6. CASE dev' = [dev EXCEPT ![d] = E] /\ net' = [net EXCEPT ![d] = Pulling]
    <3>1. dev'[d] = E /\ net'[d] = Pulling /\ Only(d)
      BY <2>1, <2>6 DEF InOrder, Only
    <3>2. DeviceOK(d, E, Pulling, L, c, srv, born)
      BY <2>4, RequestOver
    <3> QED  BY <2>1, <3>1, <3>2, DeviceStep
  <2> QED  BY <2>1, <2>5, <2>6
<1>3. CASE PullReturns(d)
  <2> DEFINE E == PageTakenIn(D, N.page)
             R == IF N.more THEN Pulling ELSE Idle
             a == IF N.page = <<>> THEN c ELSE Last(N.page).seq
  <2>1. /\ dev' = [dev EXCEPT ![d] = E] /\ dev'[d].made <= MaxOps
        /\ cursor' = [cursor EXCEPT ![d] = a] /\ net' = [net EXCEPT ![d] = R]
        /\ UNCHANGED <<srv, late, born>>
    BY <1>3 DEF PullReturns
  <2> HIDE DEF a, R, E
  <2>2. dev'[d] = E /\ net'[d] = R /\ cursor'[d] = a
    BY <2>1 DEF InOrder
  <2>3. E.made <= MaxOps
    BY <2>1, <2>2
  <2>4. DeviceOK(d, E, R, L, a, srv, born)
    <3>1. R \in {Idle, Pulling}
      BY DEF R
    <3> HIDE DEF D, N, L, c
    <3> QED  BY <1>0, <2>3, <3>1, PageTakenInOn DEF E, a
  <2>5. Only(d)
    <3>1. a \in Int
      BY <1>0, <2>4 DEF DeviceOK
    <3> QED  BY <2>1, <3>1 DEF InOrder, Only
  <2> QED  BY <2>1, <2>2, <2>4, <2>5, DeviceStep
<1>4. CASE PushFails(d)
  <2>1. /\ net' = [net EXCEPT ![d] = Idle]
        /\ late' = late \/ late' = [late EXCEPT ![d] = N.batch]
        /\ UNCHANGED <<srv, dev, cursor, born>>
    BY <1>4 DEF PushFails
  <2>2. net'[d] = Idle /\ late'[d] \in {L, N.batch, <<>>} /\ Only(d)
    BY <2>1 DEF InOrder, Only
  <2>3. DeviceOK(d, D, Idle, late'[d], c, srv, born)
    <3> HIDE DEF D, N, L, c
    <3> QED  BY <1>0, <2>2, RequestOver
  <2> QED  BY <2>1, <2>2, <2>3, DeviceStep
<1>5. CASE PushUnauthorized(d)
  <2> DEFINE E == AttemptsReverted(D, N.batch)
  <2>1. /\ dev' = [dev EXCEPT ![d] = E] /\ net' = [net EXCEPT ![d] = Idle]
        /\ UNCHANGED <<srv, late, cursor, born>>
    BY <1>5 DEF PushUnauthorized
  <2>2. Leads(D, E, d, {})
    <3>1. \A b \in Range(N.batch) : b \in WireOp(d)
      BY <1>0 DEF Request, Range
    <3> HIDE DEF D, N
    <3> QED  BY <1>0, <3>1, RevertedFine
  <2>3. E.made <= MaxOps
    BY <1>0 DEF AttemptsReverted, DeviceOK, Fine, DeviceState
  <2> HIDE DEF E
  <2>4. dev'[d] = E /\ net'[d] = Idle /\ Only(d)
    BY <2>1 DEF InOrder, Only
  <2>5. DeviceOK(d, E, Idle, L, c, srv, born)
    <3>1. DeviceOK(d, E, N, L, c, srv, born)
      <4> HIDE DEF D, N, L, c
      <4> QED  BY <1>0, <2>2, <2>3, DeviceLed
    <3> QED  BY <3>1, RequestOver
  <2> QED  BY <2>1, <2>4, <2>5, DeviceStep
<1>6. CASE PullFails(d)
  <2>1. net' = [net EXCEPT ![d] = Idle] /\ UNCHANGED <<srv, dev, cursor, late, born>>
    BY <1>6 DEF PullFails
  <2>2. net'[d] = Idle /\ Only(d)
    BY <2>1 DEF InOrder, Only
  <2>3. DeviceOK(d, D, Idle, L, c, srv, born)
    <3> HIDE DEF D, N, L, c
    <3> QED  BY <1>0, RequestOver
  <2> QED  BY <2>1, <2>2, <2>3, DeviceStep
<1> QED  BY <1>1, <1>2, <1>3, <1>4, <1>5, <1>6

LEMMA NextInOrder ==
  ASSUME InOrder, [Next]_vars
  PROVE  InOrder'
<1>1. CASE UNCHANGED vars
  BY <1>1 DEF vars, InOrder
<1>2. ASSUME NEW d \in Device,
             \/ User(d) \/ Settle(d)
             \/ \E due \in SUBSET Retries(d) : Run(d, due)
             \/ PushArrives(d) \/ LatePushArrives(d) \/ PushReturns(d)
             \/ PushFails(d) \/ PushUnauthorized(d)
             \/ PullArrives(d) \/ PullReturns(d) \/ PullFails(d)
      PROVE  InOrder'
  BY <1>2, UserStep, ArrivalStep, EngineStep
<1> QED  BY <1>1, <1>2 DEF Next

LEMMA InOrderAlways == Spec => []InOrder
<1>1. Init => InOrder
  BY InitInOrder
<1>2. InOrder /\ [Next]_vars => InOrder'
  BY NextInOrder
<1> QED  BY <1>1, <1>2, PTL DEF Spec

-----------------------------------------------------------------------------
(* Creates on the server.                                                  *)

OnServer(s) == {i \in Id : Found(s, i)}

\* The log tells of records that are there.
Grounded(s) == \A e \in s.log : e.ver >= 1 /\ Found(s, e.id)

\* C[i]: the ids of the operations that may create record i.  There is one at
\* most, and the server has applied it if it has the record.
OneOrigin(C, s) ==
  \A i \in Id : \A o, p \in C[i] :
    o \in OpId /\ o = p /\ (Found(s, i) => s.applied[o] # NotApplied)

\* An upsert under way that does not create its record is of one that is there,
\* and so is an operation that was answered with a version.
Traced(s, w) ==
  /\ w.action = "upsert" /\ w.base # 0 => Found(s, w.id)
  /\ s.applied[w.opId] >= 1 => Found(s, w.id)

Creates(w) == w.action = "upsert" /\ w.base = 0

\* A version that is answered is of a record that is there; a conflict too, and
\* it is not about a create.
Tells(a, w, s) ==
  /\ a.status = "applied" /\ a.ver >= 1 => Found(s, w.id)
  /\ a.status = "conflict" => /\ Found(s, w.id) /\ a.state.ver >= 1
                              /\ ~ Adoptable(w, a)

LEMMA LoggedGrounds ==
  ASSUME NEW s, ServerOK(s), Grounded(s), NEW i \in Id, NEW r \in Row, r.ver >= 1,
         NEW t, t = Logged(s, i, r)
  PROVE  /\ Grounded(t) /\ OnServer(t) = OnServer(s) \cup {i} /\ t.applied = s.applied
<1>1. /\ s.rec \in [Id -> Row] /\ s.log \in SUBSET Entry
  BY DEF ServerOK, ServerState
<1>2. /\ t.rec = [s.rec EXCEPT ![i] = r] /\ t.applied = s.applied
      /\ \A e \in t.log : e \in s.log \/ (e.id = i /\ e.ver = r.ver)
  BY DEF Logged
<1>3. \A j \in Id : Found(t, j) <=> Found(s, j) \/ j = i
  BY <1>1, <1>2 DEF Found, Row
<1>4. Grounded(t)
  BY <1>1, <1>2, <1>3 DEF Grounded, Entry
<1> QED  BY <1>2, <1>3, <1>4 DEF OnServer

LEMMA CascadedGrounds ==
  ASSUME NEW s, ServerOK(s), Grounded(s), NEW c, NEW order, NEW t, t = Cascaded(s, c, order)
  PROVE  Grounded(t) /\ OnServer(t) = OnServer(s) /\ t.applied = s.applied
<1> DEFINE G == Dependants(s, c)
<1>1. /\ s.rec \in [Id -> Row] /\ s.log \in SUBSET Entry
      /\ G \subseteq Id /\ \A i \in G : Found(s, i)
  BY DEF ServerOK, ServerState, Dependants, Live, Id
<1>2. /\ t.rec = [i \in Id |-> IF i \in G THEN Tombstoned(s, i) ELSE s.rec[i]]
      /\ t.applied = s.applied
      /\ \A e \in t.log : e \in s.log \/ (e.id \in G /\ e.ver = s.rec[e.id].ver + 1)
  BY DEF Cascaded
<1> HIDE DEF G
<1>3. \A j \in Id : s.rec[j].ver \in Nat
  BY <1>1 DEF Row
<1>4. \A j \in Id : Found(t, j) <=> Found(s, j)
  <2>1. \A j \in Id : j \in G => t.rec[j].ver = s.rec[j].ver + 1 /\ Found(s, j)
    BY <1>1, <1>2 DEF Tombstoned
  <2>2. \A j \in Id : j \notin G => t.rec[j] = s.rec[j]
    BY <1>2
  <2> QED  BY <1>3, <2>1, <2>2 DEF Found
<1>5. Grounded(t)
  <2>1. ASSUME NEW e \in t.log  PROVE e.ver >= 1 /\ Found(t, e.id)
    <3>1. CASE e \in s.log
      BY <1>1, <1>4, <3>1 DEF Grounded, Entry
    <3>2. CASE e.id \in G /\ e.ver = s.rec[e.id].ver + 1
      BY <1>1, <1>3, <1>4, <3>2
    <3> QED  BY <1>2, <3>1, <3>2
  <2> QED  BY <2>1 DEF Grounded
<1> QED  BY <1>2, <1>4, <1>5 DEF OnServer

\* What an operation that was not applied before does.
Performs(s, w, t, a, C) ==
  /\ Grounded(t) /\ t.applied = s.applied
  /\ OnServer(s) \subseteq OnServer(t)
  /\ OnServer(t) # OnServer(s) =>
       /\ OnServer(t) = OnServer(s) \cup {w.id}
       /\ w.opId \in C[w.id] /\ a.status = "applied"
  /\ Tells(a, w, t)

LEMMA PerformsNothing ==
  ASSUME NEW s, Grounded(s), NEW w, NEW C, NEW a, Tells(a, w, s),
         NEW o, o = Outcome(s, a)
  PROVE  Performs(s, w, o.srv, o.answer, C)
<1>1. o.srv = s /\ o.answer = a
  BY DEF Outcome
<1> QED  BY <1>1 DEF Performs

LEMMA UpsertPerforms ==
  ASSUME NEW s, ServerOK(s), Grounded(s), NEW w, Valid(w), w.action = "upsert",
         Traced(s, w), NEW C, OneOrigin(C, s), Creates(w) => w.opId \in C[w.id],
         s.applied[w.opId] = NotApplied, NEW o, o = Upsert(s, w)
  PROVE  Performs(s, w, o.srv, o.answer, C)
<1> DEFINE i == w.id
<1>0. i \in Id /\ w.base \in Nat /\ s.rec[i] \in Row /\ w.data \in PayloadOf(i)
  BY DEF Valid, ServerOK, ServerState
<1>1. CASE o = Outcome(s, ErrorAnswer)
  <2>1. Tells(ErrorAnswer, w, s)
    BY DEF ErrorAnswer, Tells
  <2> QED  BY <1>1, <2>1, PerformsNothing
<1>2. CASE w.base = 0 /\ o = Create(s, w)
  <2>1. w.opId \in C[i]
    BY <1>2 DEF Creates
  <2>2. ~ Found(s, i)
    BY <1>0, <2>1 DEF OneOrigin
  <2> DEFINE r == [ver |-> 1, deleted |-> FALSE, data |-> CreatedData(i, w.data)]
             t == Logged(s, i, r)
  <2>3. o.srv = t /\ o.answer = AppliedAnswer(1)
    BY <1>2, <2>2 DEF Create, Outcome
  <2>4. r \in Row /\ r.ver >= 1
    <3>1. CreatedData(i, w.data) \in Payload
      BY <1>0, NewPayload DEF CreatedData, PayloadOf
    <3> QED  BY <3>1 DEF Row
  <2> HIDE DEF r
  <2>5. Grounded(t) /\ OnServer(t) = OnServer(s) \cup {i} /\ t.applied = s.applied
    BY <1>0, <2>4, LoggedGrounds
  <2> HIDE DEF t
  <2>6. Tells(AppliedAnswer(1), w, t)
    BY <1>0, <2>5 DEF Tells, AppliedAnswer, OnServer
  <2>7. OnServer(s) \subseteq OnServer(t) /\ AppliedAnswer(1).status = "applied"
    BY <2>5 DEF AppliedAnswer
  <2>8. Performs(s, w, t, AppliedAnswer(1), C)
    BY <2>1, <2>5, <2>6, <2>7 DEF Performs
  <2> QED  BY <2>3, <2>8
<1>3. CASE w.base # 0 /\ o = Update(s, w)
  <2>1. Found(s, i) /\ s.rec[i].ver >= 1
    BY <1>0, <1>3 DEF Traced, Found, Row
  <2>2. CASE \E code \in {"SYNC_VERSION_CONFLICT", "SYNC_DELETED_CONFLICT"} :
               o = Outcome(s, ConflictAnswer(s, i, code))
    <3>1. o.srv = s /\ o.answer.status = "conflict" /\ o.answer.state.ver = s.rec[i].ver
      BY <1>0, <2>2 DEF Outcome, ConflictAnswer, Row
    <3>2. Tells(o.answer, w, s)
      BY <1>3, <2>1, <3>1 DEF Tells, Adoptable
    <3> QED  BY <3>1, <3>2 DEF Performs
  <2>3. CASE o = Outcome(Logged(s, i, [ver |-> w.base + 1, deleted |-> FALSE,
                                       data |-> w.data]), AppliedAnswer(w.base + 1))
    <3> DEFINE r == [ver |-> w.base + 1, deleted |-> FALSE, data |-> w.data]
               t == Logged(s, i, r)
    <3>1. o.srv = t /\ o.answer = AppliedAnswer(w.base + 1)
      BY <2>3 DEF Outcome
    <3>2. r \in Row /\ r.ver >= 1
      BY <1>0 DEF Row, PayloadOf
    <3> HIDE DEF r
    <3>3. Grounded(t) /\ OnServer(t) = OnServer(s) \cup {i} /\ t.applied = s.applied
      BY <1>0, <3>2, LoggedGrounds
    <3> HIDE DEF t
    <3>4. OnServer(t) = OnServer(s) /\ Found(t, i)
      BY <1>0, <2>1, <3>3 DEF OnServer
    <3>5. Tells(AppliedAnswer(w.base + 1), w, t)
      BY <3>4 DEF Tells, AppliedAnswer
    <3> QED  BY <3>1, <3>3, <3>4, <3>5 DEF Performs
  <2> QED  BY <1>3, <2>1, <2>2, <2>3 DEF Update
<1> QED  BY <1>1, <1>2, <1>3 DEF Upsert

LEMMA DeletePerforms ==
  ASSUME NEW s, ServerOK(s), Grounded(s), NEW w, Valid(w), w.action = "delete", NEW C,
         NEW order \in Orders, NEW o, o = Delete(s, w, order)
  PROVE  Performs(s, w, o.srv, o.answer, C)
<1> DEFINE i == w.id
           d == Logged(s, i, Tombstoned(s, i))
           t == IF i \in Category /\ w.cascade THEN Cascaded(d, i, order) ELSE d
<1>0. i \in Id /\ s.rec[i] \in Row
  BY DEF Valid, ServerOK, ServerState
<1>1. CASE \/ o = Outcome(s, ErrorAnswer)
           \/ ~ Found(s, i) /\ o = Outcome(s, AppliedAnswer(0))
  <2>1. Tells(ErrorAnswer, w, s) /\ Tells(AppliedAnswer(0), w, s)
    BY DEF ErrorAnswer, AppliedAnswer, Tells
  <2> QED  BY <1>1, <2>1, PerformsNothing
<1>2. CASE Found(s, i) /\ o = Outcome(s, AppliedAnswer(s.rec[i].ver))
  <2>1. Tells(AppliedAnswer(s.rec[i].ver), w, s)
    BY <1>2 DEF AppliedAnswer, Tells
  <2> QED  BY <1>2, <2>1, PerformsNothing
<1>3. CASE Found(s, i) /\ o = Outcome(t, AppliedAnswer(s.rec[i].ver + 1))
  <2>1. o.srv = t /\ o.answer = AppliedAnswer(s.rec[i].ver + 1)
    BY <1>3 DEF Outcome
  <2>2. Tombstoned(s, i) \in Row /\ Tombstoned(s, i).data \in Data(i)
        /\ Tombstoned(s, i).ver >= 1
    BY <1>0, TombstonedRow DEF Row
  <2>3. Grounded(d) /\ OnServer(d) = OnServer(s) \cup {i} /\ d.applied = s.applied
    BY <1>0, <2>2, LoggedGrounds
  <2>4. ServerOK(d)
    BY <1>0, <2>2, LoggedMoves DEF Moves
  <2> HIDE DEF d
  <2>5. Grounded(t) /\ OnServer(t) = OnServer(s) \cup {i} /\ t.applied = s.applied
    <3>1. LET e == Cascaded(d, i, order)
          IN  Grounded(e) /\ OnServer(e) = OnServer(d) /\ e.applied = d.applied
      BY <2>3, <2>4, CascadedGrounds
    <3> QED  BY <2>3, <3>1
  <2> HIDE DEF t
  <2>6. OnServer(t) = OnServer(s) /\ Found(t, i)
    BY <1>0, <1>3, <2>5 DEF OnServer
  <2>7. o.answer.status = "applied" /\ Tells(o.answer, w, t)
    <3> DEFINE a == AppliedAnswer(s.rec[i].ver + 1)
    <3>1. a.status = "applied"
      BY DEF AppliedAnswer
    <3> HIDE DEF a
    <3>2. Tells(a, w, t)
      BY <2>6, <3>1 DEF Tells
    <3> QED  BY <2>1, <3>1, <3>2 DEF a
  <2> QED  BY <2>1, <2>5, <2>6, <2>7 DEF Performs
<1>4. \/ ~ Found(s, i) /\ o = Outcome(s, AppliedAnswer(0))
      \/ Found(s, i) /\ o = Outcome(s, AppliedAnswer(s.rec[i].ver))
      \/ o = Outcome(s, ErrorAnswer)
      \/ Found(s, i) /\ o = Outcome(t, AppliedAnswer(s.rec[i].ver + 1))
  BY DEF Delete
<1> HIDE DEF t
<1> QED  BY <1>1, <1>2, <1>3, <1>4

\* Operations have made t of s: what was there is there, and there is no other
\* operation that may create a record.
Roots(s, t, C) == OnServer(s) \subseteq OnServer(t) /\ Grounded(t) /\ OneOrigin(C, t)

LEMMA RootsSelf ==
  ASSUME NEW s, Grounded(s), NEW C, OneOrigin(C, s)
  PROVE  Roots(s, s, C)
BY DEF Roots

LEMMA TracedOn ==
  ASSUME NEW s, NEW t, OnServer(s) \subseteq OnServer(t), NEW v, v.id \in Id, Traced(s, v),
         t.applied[v.opId] = s.applied[v.opId]
  PROVE  Traced(t, v)
BY DEF Traced, OnServer

LEMMA TellsOn ==
  ASSUME NEW s, NEW t, OnServer(s) \subseteq OnServer(t), NEW w, w.id \in Id, NEW a,
         Tells(a, w, s)
  PROVE  Tells(a, w, t)
BY DEF Tells, OnServer

LEMMA RecordedRoots ==
  ASSUME NEW s, ServerOK(s), NEW C, OneOrigin(C, s), NEW w, Valid(w),
         NEW a, a.status = "applied", a.ver \in Nat,
         Traced(s, w), NEW p, p.applied \in [OpId -> Int], Performs(s, w, p, a, C),
         NEW t, t = Recorded(p, w.opId, a.ver)
  PROVE  Roots(s, t, C) /\ Traced(t, w) /\ Tells(a, w, t)
<1>1. /\ t.rec = p.rec /\ t.log = p.log
      /\ t.applied = [p.applied EXCEPT ![w.opId] = a.ver]
  BY DEF Recorded
<1>2. OnServer(t) = OnServer(p) /\ \A i : Found(t, i) <=> Found(p, i)
  BY <1>1 DEF OnServer, Found
<1>3. p.applied = s.applied /\ Grounded(p) /\ OnServer(s) \subseteq OnServer(p)
      /\ Tells(a, w, p) /\ w.id \in Id /\ w.opId \in OpId
  BY DEF Performs, Valid
<1>4. \A o \in OpId : t.applied[o] = IF o = w.opId THEN a.ver ELSE s.applied[o]
  BY <1>1, <1>3
<1>5. Grounded(t)
  BY <1>1, <1>2, <1>3 DEF Grounded
<1>6. Tells(a, w, t)
  BY <1>2, <1>3, TellsOn
<1>7. Traced(t, w)
  <2>1. w.action = "upsert" /\ w.base # 0 => Found(t, w.id)
    BY <1>2, <1>3 DEF Traced, OnServer
  <2>2. t.applied[w.opId] >= 1 => Found(t, w.id)
    BY <1>3, <1>4, <1>6 DEF Tells
  <2> QED  BY <2>1, <2>2 DEF Traced
<1>8. OneOrigin(C, t)
  <2>1. ASSUME NEW i \in Id, NEW o \in C[i], Found(t, i)
        PROVE  t.applied[o] # NotApplied
    <3>0. o \in OpId
      BY DEF OneOrigin
    <3>1. a.ver # NotApplied
      BY DEF NotApplied
    <3>2. CASE o = w.opId
      BY <1>4, <3>0, <3>1, <3>2
    <3>3. CASE o # w.opId
      <4>1. Found(s, i)
        <5>1. i \in OnServer(p)
          BY <1>2, <2>1 DEF OnServer
        <5>2. CASE OnServer(p) = OnServer(s)
          BY <5>1, <5>2 DEF OnServer
        <5>3. CASE OnServer(p) # OnServer(s)
          <6>1. i \in OnServer(s) \/ (i = w.id /\ w.opId \in C[i])
            BY <5>1, <5>3 DEF Performs
          <6>2. w.opId \in C[i] => w.opId = o
            BY DEF OneOrigin
          <6> QED  BY <6>1, <6>2, <3>3 DEF OnServer
        <5> QED  BY <5>2, <5>3
      <4>2. s.applied[o] # NotApplied
        BY <4>1 DEF OneOrigin
      <4> QED  BY <1>4, <3>0, <3>3, <4>2
    <3> QED  BY <3>2, <3>3
  <2>2. \A i \in Id : \A o, q \in C[i] : o \in OpId /\ o = q
    BY DEF OneOrigin
  <2> QED  BY <2>1, <2>2 DEF OneOrigin
<1> QED  BY <1>2, <1>3, <1>5, <1>6, <1>7, <1>8 DEF Roots

LEMMA RefusedRoots ==
  ASSUME NEW s, NEW C, OneOrigin(C, s), NEW w, Valid(w), s.applied[w.opId] = NotApplied,
         Traced(s, w), NEW a, a.status # "applied", NEW t, Performs(s, w, t, a, C)
  PROVE  Roots(s, t, C) /\ Traced(t, w) /\ Tells(a, w, t)
<1>1. OnServer(t) = OnServer(s) /\ t.applied = s.applied /\ Grounded(t) /\ Tells(a, w, t)
  BY DEF Performs
<1>2. OneOrigin(C, t)
  BY <1>1 DEF OneOrigin, OnServer
<1>3. Traced(t, w)
  BY <1>1, TracedOn DEF Valid
<1> QED  BY <1>1, <1>2, <1>3 DEF Roots

LEMMA ApplyRoots ==
  ASSUME NEW s, ServerOK(s), Grounded(s), NEW C, OneOrigin(C, s), NEW w, Valid(w),
         w.action = "upsert" => AppliedTo(s, w), Traced(s, w),
         Creates(w) => w.opId \in C[w.id], NEW order \in Orders, NEW o, o = Apply(s, w, order)
  PROVE  Roots(s, o.srv, C) /\ Traced(o.srv, w) /\ Tells(o.answer, w, o.srv)
<1>1. CASE s.applied[w.opId] # NotApplied
  <2> DEFINE a == AppliedAnswer(s.applied[w.opId])
  <2>1. o.srv = s /\ o.answer = a
    BY <1>1 DEF Apply, Outcome
  <2>2. a.status = "applied" /\ a.ver = s.applied[w.opId]
    BY DEF AppliedAnswer
  <2> HIDE DEF a
  <2>3. Tells(a, w, s)
    BY <2>2 DEF Traced, Tells
  <2> QED  BY <2>1, <2>3, RootsSelf
<1>2. CASE s.applied[w.opId] = NotApplied
  <2> DEFINE p == Perform(s, w, order)
  <2>1. Performs(s, w, p.srv, p.answer, C)
    <3>1. CASE w.action = "upsert"
      <4>1. p = Upsert(s, w)
        BY <3>1 DEF Perform
      <4> HIDE DEF p
      <4> QED  BY <3>1, <4>1, <1>2, UpsertPerforms
    <3>2. CASE w.action = "delete"
      <4>1. p = Delete(s, w, order)
        BY <3>2 DEF Perform
      <4> HIDE DEF p
      <4> QED  BY <3>2, <4>1, DeletePerforms
    <3> QED  BY <3>1, <3>2 DEF Valid
  <2>2. p.srv.applied \in [OpId -> Int] /\ p.answer.ver \in Nat
    <3>1. Moves(s, p.srv, {w.id}) /\ Answers(p.answer, w)
      BY UpsertMoves, DeleteMoves DEF Perform, Valid, Sensible
    <3> QED  BY <3>1 DEF Moves, ServerOK, ServerState, Answers, Answer
  <2>3. \/ /\ p.answer.status = "applied"
           /\ o.srv = Recorded(p.srv, w.opId, p.answer.ver) /\ o.answer = p.answer
        \/ p.answer.status # "applied" /\ o = p
    BY <1>2 DEF Apply, Outcome
  <2> HIDE DEF p
  <2>4. CASE p.answer.status = "applied"
             /\ o.srv = Recorded(p.srv, w.opId, p.answer.ver) /\ o.answer = p.answer
    BY <2>1, <2>2, <2>4, RecordedRoots
  <2>5. CASE p.answer.status # "applied" /\ o = p
    BY <2>1, <2>5, <1>2, RefusedRoots
  <2> QED  BY <2>3, <2>4, <2>5
<1> QED  BY <1>1, <1>2

\* What a batch, or the first operations of one, has made of the server s.
Rooting(s, t, batch, n, C) ==
  /\ Serves(s, t, batch, n) /\ Roots(s, t, C)
  /\ \A k \in 1..n : Traced(t, batch[k])

LEMMA RootingOn ==
  ASSUME NEW s, ServerOK(s), NEW t, NEW batch, NEW n, Batch(batch, n), NEW C,
         Rooting(s, t, batch, n, C),
         \A k \in 1..n : Creates(batch[k]) => batch[k].opId \in C[batch[k].id],
         NEW k \in 1..n, NEW order \in Orders, NEW o, o = Apply(t, batch[k], order)
  PROVE  /\ Rooting(s, o.srv, batch, n, C) /\ Answers(o.answer, batch[k])
         /\ OnServer(t) \subseteq OnServer(o.srv) /\ Tells(o.answer, batch[k], o.srv)
<1> DEFINE w == batch[k]
<1>1. /\ Serves(s, t, batch, n) /\ Roots(s, t, C) /\ ServerOK(t) /\ Grounded(t)
      /\ OneOrigin(C, t) /\ Valid(w) /\ Traced(t, w)
      /\ w.action = "upsert" => AppliedTo(t, w)
      /\ Creates(w) => w.opId \in C[w.id]
  BY DEF Rooting, Roots, Serves, Batch
<1>2. Serves(s, o.srv, batch, n) /\ Answers(o.answer, w)
  BY <1>1, ServesOn
<1>3. ApplyMoves(t, o.srv, o.answer, w)
  BY <1>1, ApplyFine
<1> HIDE DEF w
<1>4. Roots(t, o.srv, C) /\ Traced(o.srv, w) /\ Tells(o.answer, w, o.srv)
  BY <1>1, ApplyRoots DEF w
<1>5. Roots(s, o.srv, C) /\ OnServer(t) \subseteq OnServer(o.srv)
  BY <1>1, <1>4 DEF Roots
<1>6. ASSUME NEW j \in 1..n  PROVE Traced(o.srv, batch[j])
  <2>1. Valid(batch[j]) /\ Traced(t, batch[j])
    BY DEF Batch, Rooting
  <2>2. CASE batch[j].opId = w.opId
    <3>1. batch[j].id = w.id
      BY <2>2 DEF Batch, w
    <3>2. batch[j].action = "upsert" /\ batch[j].base # 0 => Found(o.srv, batch[j].id)
      BY <2>1, <1>5 DEF Traced, OnServer, Valid
    <3> QED  BY <2>2, <3>1, <3>2, <1>4 DEF Traced
  <2>3. CASE batch[j].opId # w.opId
    <3>1. o.srv.applied[batch[j].opId] = t.applied[batch[j].opId]
      BY <2>1, <2>3, <1>3 DEF ApplyMoves, Valid
    <3> QED  BY <2>1, <3>1, <1>5, TracedOn DEF Valid
  <2> QED  BY <2>2, <2>3
<1>7. Rooting(s, o.srv, batch, n, C)
  BY <1>2, <1>5, <1>6 DEF Rooting
<1> QED  BY <1>2, <1>4, <1>5, <1>7 DEF w

LEMMA AppliedRoots ==
  ASSUME NEW s, ServerOK(s), Grounded(s), NEW C, OneOrigin(C, s),
         NEW batch, NEW n, Batch(batch, n),
         \A k \in 1..n : batch[k].action = "upsert" => AppliedTo(s, batch[k]),
         \A k \in 1..n : /\ Traced(s, batch[k])
                         /\ Creates(batch[k]) => batch[k].opId \in C[batch[k].id],
         NEW order \in Orders, NEW r, r = Applied(s, batch, order)
  PROVE  /\ Roots(s, r.srv, C)
         /\ \A k \in 1..n : Traced(r.srv, batch[k]) /\ Tells(r.answers[k], batch[k], r.srv)
<1> DEFINE X == {acc \in [srv : ServerState, answers : Seq(Answer)] :
                   Rooting(s, acc.srv, batch, n, C)}
           Heeds(acc) == \A j \in 1..Len(acc.answers) : Tells(acc.answers[j], batch[j], acc.srv)
           Y == [k \in 0..n |-> {acc \in X : /\ Len(acc.answers) = k
                                             /\ Answering(acc.answers, batch) /\ Heeds(acc)}]
<1>0. n \in Nat /\ DOMAIN batch = 1..n
  BY DEF Batch
<1>1. Unanswered(s) \in X /\ Unanswered(s) \in Y[0]
  <2>1. Serves(s, s, batch, n) /\ s \in ServerState
    BY ServesSelf DEF ServerOK
  <2>2. Rooting(s, s, batch, n, C)
    BY <2>1, RootsSelf DEF Rooting
  <2>3. <<>> \in Seq(Answer) /\ Len(<<>>) = 0 /\ Answering(<<>>, batch) /\ 0 \in 0..n
    BY <1>0 DEF Answering
  <2> QED  BY <2>1, <2>2, <2>3 DEF Unanswered
<1>2. ASSUME NEW acc \in X, NEW k \in 1..n
      PROVE  /\ Onto(acc, batch[k], order) \in X
             /\ acc \in Y[k - 1] => Onto(acc, batch[k], order) \in Y[k]
  <2> DEFINE o == Apply(acc.srv, batch[k], order)
             nxt == Onto(acc, batch[k], order)
  <2>1. acc.srv \in ServerState /\ acc.answers \in Seq(Answer)
        /\ Rooting(s, acc.srv, batch, n, C)
    OBVIOUS
  <2>2. nxt.srv = o.srv /\ nxt.answers = Append(acc.answers, o.answer)
        /\ nxt = [srv |-> nxt.srv, answers |-> nxt.answers]
    BY DEF Onto
  <2> HIDE DEF X, Heeds
  <2>3. /\ Rooting(s, o.srv, batch, n, C) /\ Answers(o.answer, batch[k])
        /\ OnServer(acc.srv) \subseteq OnServer(o.srv) /\ Tells(o.answer, batch[k], o.srv)
    <3> HIDE DEF o
    <3> QED  BY <2>1, RootingOn DEF o
  <2> HIDE DEF o, nxt
  <2>4. o.srv \in ServerState /\ o.answer \in Answer
    BY <2>3 DEF Rooting, Serves, ServerOK, Answers
  <2>5. nxt \in X
    <3>1. nxt.answers \in Seq(Answer)
      BY <2>1, <2>2, <2>4
    <3> QED  BY <2>2, <2>3, <2>4, <3>1 DEF X
  <2>6. ASSUME acc \in Y[k - 1]  PROVE nxt \in Y[k]
    <3>1. k - 1 \in 0..n /\ k \in 0..n /\ (k - 1) + 1 = k
      BY <1>0
    <3>2. Len(acc.answers) = k - 1 /\ Answering(acc.answers, batch) /\ Heeds(acc)
      BY <2>6, <3>1
    <3>3. /\ Answering(nxt.answers, batch) /\ Len(nxt.answers) = k
          /\ \A j \in 1..(k - 1) : nxt.answers[j] = acc.answers[j]
          /\ nxt.answers[k] = o.answer
      BY <2>2, <2>3, <3>1, <3>2, AnsweringOn
    <3>4. ASSUME NEW j \in 1..k  PROVE Tells(nxt.answers[j], batch[j], nxt.srv)
      <4>1. CASE j = k
        BY <2>2, <2>3, <3>3, <4>1
      <4>2. CASE j \in 1..(k - 1)
        <5>1. Tells(acc.answers[j], batch[j], acc.srv)
          BY <3>2, <4>2 DEF Heeds
        <5>2. batch[j].id \in Id
          BY <1>0 DEF Batch, Valid
        <5>3. Tells(acc.answers[j], batch[j], o.srv)
          BY <5>1, <5>2, <2>3, TellsOn
        <5> QED  BY <5>3, <4>2, <2>2, <3>3
      <4> QED  BY <4>1, <4>2
    <3>5. Heeds(nxt)
      BY <3>3, <3>4 DEF Heeds
    <3> QED  BY <2>5, <3>1, <3>3, <3>5
  <2> QED  BY <2>5, <2>6 DEF nxt
<1>3. r \in X /\ r \in Y[n]
  <2> HIDE DEF X, Y
  <2>1. \A acc \in X : \A k \in 1..n : Onto(acc, batch[k], order) \in X
    BY <1>2
  <2>2. \A k \in 1..n : \A acc \in X :
          acc \in Y[k - 1] => Onto(acc, batch[k], order) \in Y[k]
    BY <1>2
  <2>3. Applied(s, batch, order) \in X /\ Applied(s, batch, order) \in Y[n]
    BY <1>0, <1>1, <2>1, <2>2, AppliedFold
  <2> QED  BY <2>3
<1>4. n \in 0..n
  BY <1>0
<1>5. Len(r.answers) = n /\ Heeds(r) /\ Rooting(s, r.srv, batch, n, C)
  BY <1>3, <1>4
<1> QED  BY <1>5 DEF Rooting

-----------------------------------------------------------------------------
(* Creates of a device.                                                    *)

\* What the device, and what is under way of it, says of the server.
Traces(D, N, L, s) ==
  /\ Rooted(D, OnServer(s))
  /\ \A w \in Wires(N, L) : Traced(s, w)
  /\ \A k \in DOMAIN D.out : s.applied[D.out[k].opId] >= 1 => Found(s, D.out[k].id)
  /\ \A k \in DOMAIN N.page : N.page[k].ver >= 1 /\ Found(s, N.page[k].id)
  /\ N.phase = "pushed" =>
       \A k \in DOMAIN N.batch : Tells(N.answers[k], N.batch[k], s)

\* The operations of the device that may create record i.
Creating(D, N, L, i) ==
  Creators(D, i) \cup {w.opId : w \in {v \in Wires(N, L) : v.id = i /\ Creates(v)}}

\* A step of the server about the operations of other devices.
LEMMA ServerTraces ==
  ASSUME NEW d \in Device, NEW D, NEW N, NEW L, NEW c, NEW s, NEW b,
         DeviceOK(d, D, N, L, c, s, b), Traces(D, N, L, s),
         NEW t, OnServer(s) \subseteq OnServer(t),
         \A o \in OpId : o[1] = d => t.applied[o] = s.applied[o]
  PROVE  Traces(D, N, L, t)
<1>0. \A i \in Id : Found(s, i) => Found(t, i)
  BY DEF OnServer
<1>1. Rooted(D, OnServer(t))
  BY RootedGrows DEF Traces
<1>2. \A w \in Wires(N, L) : w.id \in Id /\ w.opId \in OpId /\ w.opId[1] = d
  BY DeviceParts DEF Valid
<1>3. ASSUME NEW w \in Wires(N, L)  PROVE Traced(t, w)
  BY <1>2, TracedOn DEF Traces
<1>4. ASSUME NEW k \in DOMAIN D.out, t.applied[D.out[k].opId] >= 1
      PROVE  Found(t, D.out[k].id)
  <2>1. D.out[k] \in PendingOp(d) /\ D.out[k].opId \in OpId /\ D.out[k].opId[1] = d
    BY DeviceParts
  <2>2. D.out[k].id \in Id /\ t.applied[D.out[k].opId] = s.applied[D.out[k].opId]
    BY <2>1 DEF PendingOp
  <2> QED  BY <2>2, <1>0, <1>4 DEF Traces
<1>5. ASSUME NEW k \in DOMAIN N.page  PROVE N.page[k].ver >= 1 /\ Found(t, N.page[k].id)
  <2>1. N.page[k].id \in Id
    BY DEF DeviceOK, Pullable, PulledChange
  <2> QED  BY <2>1, <1>0 DEF Traces
<1>6. ASSUME N.phase = "pushed", NEW k \in DOMAIN N.batch
      PROVE  Tells(N.answers[k], N.batch[k], t)
  <2>1. N.batch[k] \in Wires(N, L)
    BY DEF Wires, Range
  <2>2. N.batch[k].id \in Id /\ Tells(N.answers[k], N.batch[k], s)
    BY <2>1, <1>2, <1>6 DEF Traces
  <2> QED  BY <2>2, TellsOn
<1> QED  BY <1>1, <1>3, <1>4, <1>5, <1>6 DEF Traces

\* A transaction of the device's own.
LEMMA LedTraces ==
  ASSUME NEW d \in Device, NEW D, NEW N, NEW L, NEW c, NEW s, NEW b,
         DeviceOK(d, D, N, L, c, s, b), Traces(D, N, L, s),
         NEW E, NEW M, Leads(D, E, d, M), E.made <= MaxOps,
         NEW new, Stems(D, E, OnServer(s), new)
  PROVE  /\ Traces(E, N, L, s)
         /\ \A i \in Id \ new : Creating(E, N, L, i) \subseteq Creating(D, N, L, i)
<1>1. Rooted(E, OnServer(s)) /\ \A i \in Id \ new : Creators(E, i) \subseteq Creators(D, i)
  BY DEF Stems
<1>2. ASSUME NEW k \in DOMAIN E.out, s.applied[E.out[k].opId] >= 1
      PROVE  Found(s, E.out[k].id)
  <2>1. /\ E \in DeviceState(d) /\ Numbered(E) /\ Follows(D, E) /\ D.made \in Nat
    BY DeviceParts DEF Leads, Fine
  <2>2. E.out[k] \in PendingOp(d) /\ E.out[k].opId[2] \in 1..E.made /\ E.made \in Nat
    BY <2>1, OutFacts DEF Numbered, DeviceState
  <2>3. CASE E.out[k].opId[2] > D.made
    <3>1. E.out[k].opId[2] \in 1..MaxOps /\ E.out[k].opId = <<d, E.out[k].opId[2]>>
      BY <2>2, OpIdAssumption DEF PendingOp
    <3>2. s.applied[E.out[k].opId] = NotApplied
      BY <2>3, <3>1 DEF DeviceOK, SeenByServer
    <3> QED  BY <3>2, <1>2 DEF NotApplied
  <2>4. CASE ~ (E.out[k].opId[2] > D.made)
    <3>1. PICK j \in DOMAIN D.out : SameOp(E.out[k], D.out[j])
      BY <2>1, <2>4 DEF Follows
    <3> QED  BY <3>1, <1>2 DEF SameOp, Traces
  <2> QED  BY <2>3, <2>4
<1>3. Traces(E, N, L, s)
  BY <1>1, <1>2 DEF Traces
<1>4. \A i \in Id \ new : Creating(E, N, L, i) \subseteq Creating(D, N, L, i)
  BY <1>1 DEF Creating
<1> QED  BY <1>3, <1>4

\* The engine stops awaiting, or awaits a page.
LEMMA OverTraces ==
  ASSUME NEW D, NEW N, NEW L, NEW s, Traces(D, N, L, s),
         NEW R \in {Idle, Pulling}, NEW K \in {L, N.batch, <<>>}
  PROVE  /\ Traces(D, R, K, s)
         /\ \A i \in Id : Creating(D, R, K, i) \subseteq Creating(D, N, L, i)
<1>1. R.batch = <<>> /\ R.page = <<>> /\ R.phase # "pushed"
  <2>1. CASE R = Idle
    BY <2>1 DEF Idle
  <2>2. CASE R = Pulling
    BY <2>2 DEF Idle, Pulling
  <2> QED  BY <2>1, <2>2
<1>2. Wires(R, K) \subseteq Wires(N, L)
  BY <1>1 DEF Wires, Range
<1>3. DOMAIN R.page = {}
  BY <1>1
<1>4. Traces(D, R, K, s)
  BY <1>1, <1>2, <1>3 DEF Traces
<1>5. \A i \in Id : Creating(D, R, K, i) \subseteq Creating(D, N, L, i)
  BY <1>2 DEF Creating
<1> QED  BY <1>4, <1>5

\* The engine sends the batch it has selected, or goes on to pull.
LEMMA SendingTraces ==
  ASSUME NEW d \in Device, NEW D, NEW N, NEW L, NEW s, Traces(D, N, L, s),
         NEW E, NEW batch, Selects(D, E, batch, d), NEW R \in {Pulling, Pushing(batch)}
  PROVE  /\ Traces(E, R, L, s)
         /\ \A i \in Id : Creating(E, R, L, i) \subseteq Creating(D, N, L, i)
<1>0. /\ Rooted(E, OnServer(s)) /\ \A i \in Id : Creators(E, i) \subseteq Creators(D, i)
      /\ E.row = D.row /\ E.conf = D.conf
  <2>1. /\ \A i \in Id : FirstIds(E, i) \subseteq FirstIds(D, i)
        /\ E.row = D.row /\ E.conf = D.conf /\ Rooted(D, OnServer(s))
    BY DEF Selects, Traces
  <2>2. Stems(D, E, OnServer(s), {})
    BY <2>1, SameRowsStems
  <2> QED  BY <2>1, <2>2 DEF Stems
<1>1. ASSUME NEW k \in DOMAIN E.out, s.applied[E.out[k].opId] >= 1
      PROVE  Found(s, E.out[k].id)
  <2>1. PICK j \in DOMAIN D.out : E.out[k].opId = D.out[j].opId /\ E.out[k].id = D.out[j].id
    BY DEF Selects
  <2> QED  BY <2>1, <1>1 DEF Traces
<1>2. ASSUME NEW n \in DOMAIN batch
      PROVE  Traced(s, batch[n]) /\ (Creates(batch[n]) => batch[n].opId \in Creators(E, batch[n].id))
  <2>1. PICK k \in DOMAIN E.out : E.out[k].opId = batch[n].opId /\ E.out[k].id = batch[n].id
    BY DEF Selects
  <2>2. s.applied[batch[n].opId] >= 1 => Found(s, batch[n].id)
    BY <2>1, <1>1
  <2>3. ASSUME batch[n].action = "upsert"
        PROVE  /\ batch[n].base = 0 => batch[n].opId \in Creators(E, batch[n].id)
               /\ batch[n].base # 0 => Found(s, batch[n].id)
    <3>1. /\ batch[n].base = 0 => batch[n].opId \in Creators(E, batch[n].id)
          /\ batch[n].base # 0 => batch[n].id \in OnServer(s)
      BY <2>3, <1>0, SelectedTraces
    <3> QED  BY <3>1 DEF OnServer
  <2> QED  BY <2>2, <2>3 DEF Traced, Creates
<1>3. DOMAIN R.page = {} /\ R.phase # "pushed" /\ Range(R.batch) \subseteq Range(batch)
  <2>1. CASE R = Pulling
    BY <2>1 DEF Pulling, Idle, Range
  <2>2. CASE R = Pushing(batch)
    BY <2>2 DEF Pushing, Idle
  <2> QED  BY <2>1, <2>2
<1>4. Wires(R, L) \subseteq Range(batch) \cup Range(L) /\ Range(L) \subseteq Wires(N, L)
  BY <1>3 DEF Wires
<1>5. \A w \in Wires(R, L) : Traced(s, w)
  BY <1>2, <1>4 DEF Traces, Range
<1>6. Traces(E, R, L, s)
  BY <1>0, <1>1, <1>3, <1>5 DEF Traces
<1>7. ASSUME NEW i \in Id, NEW o \in Creating(E, R, L, i)  PROVE o \in Creating(D, N, L, i)
  <2>1. CASE o \in Creators(E, i)
    BY <2>1, <1>0 DEF Creating
  <2>2. CASE \E w \in Wires(R, L) : w.id = i /\ Creates(w) /\ o = w.opId
    <3>1. PICK w \in Wires(R, L) : w.id = i /\ Creates(w) /\ o = w.opId
      BY <2>2
    <3>2. CASE w \in Range(batch)
      BY <1>0, <1>2, <3>1, <3>2 DEF Creating, Range
    <3>3. CASE w \in Range(L)
      BY <1>4, <3>1, <3>3 DEF Creating
    <3> QED  BY <1>4, <3>2, <3>3
  <2> QED  BY <2>1, <2>2, <1>7 DEF Creating
<1> QED  BY <1>6, <1>7

\* A batch of the device arrives at the server.
LEMMA ServedTraces ==
  ASSUME NEW d \in Device, NEW D, NEW N, NEW L, NEW c, NEW s, NEW b,
         DeviceOK(d, D, N, L, c, s, b), Traces(D, N, L, s), ServerOK(s), Grounded(s),
         NEW C, OneOrigin(C, s), \A i \in Id : Creating(D, N, L, i) \subseteq C[i],
         NEW batch \in {N.batch, L}, NEW order \in Orders,
         NEW r, r = Applied(s, batch, order)
  PROVE  /\ Roots(s, r.srv, C) /\ Traces(D, N, L, r.srv)
         /\ \A k \in DOMAIN batch : Tells(r.answers[k], batch[k], r.srv)
<1> DEFINE n == Len(batch)
<1>1. /\ Batch(batch, n) /\ DOMAIN batch = 1..n
      /\ \A k \in 1..n : /\ batch[k] \in Wires(N, L)
                         /\ batch[k].action = "upsert" => AppliedTo(s, batch[k])
  BY UnderWay
<1> HIDE DEF n
<1>2. \A w \in Wires(N, L) : Valid(w) /\ w.id \in Id /\ w.opId \in OpId /\ Traced(s, w)
  BY DeviceParts DEF Valid, Traces
<1>3. \A k \in 1..n : /\ Traced(s, batch[k])
                      /\ Creates(batch[k]) => batch[k].opId \in C[batch[k].id]
  BY <1>1, <1>2 DEF Creating
<1>4. /\ Roots(s, r.srv, C)
      /\ \A k \in 1..n : Traced(r.srv, batch[k]) /\ Tells(r.answers[k], batch[k], r.srv)
  BY <1>1, <1>3, AppliedRoots
<1>5. \A o \in OpId : \/ r.srv.applied[o] = s.applied[o]
                     \/ \E k \in 1..n : batch[k].opId = o
  <2>1. Serves(s, r.srv, batch, n)
    BY <1>1, AppliedFine
  <2> QED  BY <2>1 DEF Serves
<1>6. OnServer(s) \subseteq OnServer(r.srv) /\ \A i \in Id : Found(s, i) => Found(r.srv, i)
  BY <1>4 DEF Roots, OnServer
<1>7. ASSUME NEW w \in Wires(N, L)  PROVE Traced(r.srv, w)
  <2>1. CASE r.srv.applied[w.opId] = s.applied[w.opId]
    BY <2>1, <1>2, <1>6, TracedOn
  <2>2. CASE \E k \in 1..n : batch[k].opId = w.opId
    <3>1. PICK k \in 1..n : batch[k].opId = w.opId
      BY <2>2
    <3>2. batch[k].id = w.id
      BY <1>1, <3>1 DEF DeviceOK
    <3>3. Traced(r.srv, batch[k])
      BY <1>4
    <3> QED  BY <3>1, <3>2, <3>3, <1>2, <1>6 DEF Traced
  <2> QED  BY <2>1, <2>2, <1>2, <1>5
<1>8. ASSUME NEW k \in DOMAIN D.out, r.srv.applied[D.out[k].opId] >= 1
      PROVE  Found(r.srv, D.out[k].id)
  <2>0. D.out[k].opId \in OpId /\ D.out[k] \in PendingOp(d)
    BY DeviceParts
  <2>1. CASE r.srv.applied[D.out[k].opId] = s.applied[D.out[k].opId]
    BY <2>0, <2>1, <1>6, <1>8 DEF Traces, PendingOp
  <2>2. CASE \E j \in 1..n : batch[j].opId = D.out[k].opId
    <3>1. PICK j \in 1..n : batch[j].opId = D.out[k].opId
      BY <2>2
    <3>2. SentAsIs(D, batch[j])
      BY <1>1 DEF DeviceOK
    <3>3. batch[j].id = D.out[k].id
      BY <3>1, <3>2 DEF SentAsIs
    <3>4. Traced(r.srv, batch[j])
      BY <1>4
    <3> QED  BY <3>1, <3>3, <3>4, <1>8 DEF Traced
  <2> QED  BY <2>0, <2>1, <2>2, <1>5
<1>9. ASSUME NEW k \in DOMAIN N.page
      PROVE  N.page[k].ver >= 1 /\ Found(r.srv, N.page[k].id)
  <2>1. N.page[k].id \in Id
    BY DEF DeviceOK, Pullable, PulledChange
  <2> QED  BY <2>1, <1>6 DEF Traces
<1>10. ASSUME N.phase = "pushed", NEW k \in DOMAIN N.batch
       PROVE  Tells(N.answers[k], N.batch[k], r.srv)
  <2>1. N.batch[k] \in Wires(N, L)
    BY DEF Wires, Range
  <2>2. N.batch[k].id \in Id /\ Tells(N.answers[k], N.batch[k], s)
    BY <2>1, <1>2, <1>10 DEF Traces
  <2> QED  BY <2>2, <1>6, TellsOn
<1>11. Rooted(D, OnServer(r.srv))
  BY <1>6, RootedGrows DEF Traces
<1>12. Traces(D, N, L, r.srv)
  BY <1>7, <1>8, <1>9, <1>10, <1>11 DEF Traces
<1> QED  BY <1>1, <1>4, <1>12

LEMMA AnsweredTraces ==
  ASSUME NEW D, NEW N, NEW L, NEW s, Traces(D, N, L, s), NEW answers,
         \A k \in DOMAIN N.batch : Tells(answers[k], N.batch[k], s),
         NEW R, R.batch = N.batch, R.page = N.page, R.answers = answers
  PROVE  /\ Traces(D, R, L, s)
         /\ \A i \in Id : Creating(D, R, L, i) \subseteq Creating(D, N, L, i)
BY DEF Traces, Wires, Creating

LEMMA PageTraces ==
  ASSUME NEW D, NEW N, NEW L, NEW s, Traces(D, N, L, s),
         NEW R, R.batch = N.batch, R.phase # "pushed",
         \A k \in DOMAIN R.page : R.page[k].ver >= 1 /\ Found(s, R.page[k].id)
  PROVE  /\ Traces(D, R, L, s)
         /\ \A i \in Id : Creating(D, R, L, i) \subseteq Creating(D, N, L, i)
BY DEF Traces, Wires, Creating

\* The answers to a batch of the device can be trusted.
LEMMA AnswersTrusted ==
  ASSUME NEW d \in Device, NEW D, NEW N, NEW L, NEW c, NEW s, NEW b,
         DeviceOK(d, D, N, L, c, s, b), Traces(D, N, L, s), N.phase = "pushed"
  PROVE  /\ Len(N.batch) \in Nat /\ DOMAIN N.batch = 1..Len(N.batch)
         /\ Trusted(D, N.batch, N.answers, Len(N.batch), OnServer(s))
<1> DEFINE batch == N.batch
           answers == N.answers
           n == Len(batch)
<1>1. /\ n \in Nat /\ DOMAIN batch = 1..n
      /\ \A k \in 1..n : /\ batch[k] \in Wires(N, L) /\ Answers(answers[k], batch[k])
                         /\ Tells(answers[k], batch[k], s)
  <2>1. batch \in Seq(WireOp(d)) /\ n \in Nat /\ DOMAIN batch = 1..n
    BY DEF DeviceOK, Request
  <2>2. \A k \in 1..n : batch[k] \in Wires(N, L)
    BY <2>1 DEF Wires, Range
  <2> QED  BY <2>1, <2>2 DEF DeviceOK, AsAnswered, Traces
<1> HIDE DEF batch, answers, n
<1>2. ASSUME NEW k \in 1..n
      PROVE  /\ batch[k].id \in Id /\ batch[k].opId[2] <= D.made
             /\ answers[k].ver \in Nat
             /\ answers[k].state \in Row /\ answers[k].state.data \in Data(batch[k].id)
             /\ answers[k].status = "applied" =>
                  \A j \in DOMAIN D.out : D.out[j].opId = batch[k].opId =>
                    /\ D.out[j].sent
                    /\ D.out[j].action = "upsert" => answers[k].ver = D.out[j].base + 1
                    /\ answers[k].ver >= 1 => D.out[j].id \in OnServer(s)
             /\ answers[k].status = "conflict" =>
                  /\ batch[k].id \in OnServer(s) /\ answers[k].state.ver >= 1
                  /\ ~ Adoptable(batch[k], answers[k])
  <2>1. batch[k] \in Wires(N, L) /\ Answers(answers[k], batch[k])
        /\ Tells(answers[k], batch[k], s)
    BY <1>1
  <2>2. SentAsIs(D, batch[k])
    BY <2>1 DEF DeviceOK
  <2>3. batch[k].id \in Id /\ batch[k].opId[2] \in 1..D.made
    BY <2>2 DEF SentAsIs, Valid
  <2>4. D.made \in Nat
    BY DeviceParts
  <2>5. /\ answers[k].ver \in Nat /\ answers[k].state \in Row
        /\ answers[k].state.data \in Data(batch[k].id)
    BY <2>1 DEF Answers, Answer
  <2>6. ASSUME answers[k].status = "applied", NEW j \in DOMAIN D.out,
               D.out[j].opId = batch[k].opId
        PROVE  /\ D.out[j].sent
               /\ D.out[j].action = "upsert" => answers[k].ver = D.out[j].base + 1
               /\ answers[k].ver >= 1 => D.out[j].id \in OnServer(s)
    <3>1. /\ D.out[j].sent /\ D.out[j].id = batch[k].id
          /\ D.out[j].action = batch[k].action /\ D.out[j].base = batch[k].base
      BY <2>2, <2>6 DEF SentAsIs
    <3>2. answers[k].ver >= 1 => Found(s, batch[k].id)
      BY <2>1, <2>6 DEF Tells
    <3>3. batch[k].action = "upsert" => answers[k].ver = batch[k].base + 1
      BY <2>1, <2>6 DEF Answers
    <3> QED  BY <2>3, <3>1, <3>2, <3>3 DEF OnServer
  <2>7. answers[k].status = "conflict" =>
          /\ batch[k].id \in OnServer(s) /\ answers[k].state.ver >= 1
          /\ ~ Adoptable(batch[k], answers[k])
    BY <2>1, <2>3 DEF Tells, OnServer
  <2> QED  BY <2>3, <2>4, <2>5, <2>6, <2>7
<1>3. Trusted(D, batch, answers, n, OnServer(s))
  BY <1>2 DEF Trusted
<1> QED  BY <1>1, <1>3 DEF batch, answers, n

LEMMA ResultsTraces ==
  ASSUME NEW d \in Device, NEW D, NEW N, NEW L, NEW c, NEW s, NEW b,
         DeviceOK(d, D, N, L, c, s, b), Traces(D, N, L, s), N.phase = "pushed",
         NEW E, E = PushTakenIn(D, N.batch, N.answers)
  PROVE  /\ Traces(E, N, L, s)
         /\ \A i \in Id : Creating(E, N, L, i) \subseteq Creating(D, N, L, i)
<1>1. /\ Len(N.batch) \in Nat /\ DOMAIN N.batch = 1..Len(N.batch)
      /\ Trusted(D, N.batch, N.answers, Len(N.batch), OnServer(s))
  BY AnswersTrusted
<1>2. Stems(D, E, OnServer(s), {})
  BY <1>1, PushTakenInStems DEF DeviceOK, Traces
<1>3. Leads(D, E, d, {}) /\ E.made = D.made
  BY ResultsTakenIn
<1>4. E.made <= MaxOps
  BY <1>3, DeviceParts
<1> QED  BY <1>2, <1>3, <1>4, LedTraces

LEMMA PageTakenTraces ==
  ASSUME NEW d \in Device, NEW D, NEW N, NEW L, NEW c, NEW s, NEW b,
         DeviceOK(d, D, N, L, c, s, b), Traces(D, N, L, s),
         NEW E, E = PageTakenIn(D, N.page), E.made <= MaxOps
  PROVE  /\ Traces(E, N, L, s)
         /\ \A i \in Id : Creating(E, N, L, i) \subseteq Creating(D, N, L, i)
<1> DEFINE page == N.page
           n == Len(page)
<1>1. /\ n \in Nat /\ DOMAIN page = 1..n
      /\ \A k \in 1..n : /\ page[k] \in PulledChange /\ page[k].data \in Data(page[k].id)
                         /\ page[k].ver >= 1 /\ page[k].id \in OnServer(s)
  <2>1. page \in Seq(PulledChange) /\ n \in Nat /\ DOMAIN page = 1..n
    BY DEF DeviceOK, Request
  <2>2. \A k \in 1..n : Pullable(page[k], s) /\ page[k].ver >= 1 /\ Found(s, page[k].id)
    BY <2>1 DEF DeviceOK, Traces
  <2> QED  BY <2>1, <2>2 DEF Pullable, PulledChange, OnServer
<1> HIDE DEF n, page
<1>2. E = PageTakenIn(D, page) /\ Fine(D, d) /\ Rooted(D, OnServer(s))
  BY DEF page, DeviceOK, Traces
<1>3. Stems(D, E, OnServer(s), {})
  BY <1>1, <1>2, PageTakenInStems
<1>4. Leads(D, E, d, {page[k].id : k \in 1..n})
  BY <1>1, <1>2, PageTakenInFine
<1> QED  BY <1>3, <1>4, LedTraces

-----------------------------------------------------------------------------
(* The origins of records.                                                 *)

\* The operations, of any device, that may create record i.
Origins == [i \in Id |-> UNION {Creating(dev[d], net[d], late[d], i) : d \in Device}]

\* A record has one origin at most, and every device knows of it.
Originated ==
  /\ Grounded(srv) /\ OneOrigin(Origins, srv)
  /\ \A d \in Device : Traces(dev[d], net[d], late[d], srv)

LEMMA InitOriginated ==
  ASSUME Init
  PROVE  Originated
<1>1. /\ srv.rec = [i \in Id |-> Absent] /\ srv.log = {}
      /\ srv.applied = [o \in OpId |-> NotApplied]
  BY DEF Init, EmptyServer
<1>2. ASSUME NEW d \in Device
      PROVE  /\ Traces(dev[d], net[d], late[d], srv)
             /\ \A i \in Id : Creating(dev[d], net[d], late[d], i) = {}
  <2> DEFINE D == EmptyDevice(d)
  <2>1. dev[d] = D /\ net[d] = Idle /\ late[d] = <<>>
    BY DEF Init
  <2>2. D.row = [i \in Id |-> NoRow] /\ D.out = <<>> /\ D.conf = [i \in Id |-> NoConflict]
    BY DEF EmptyDevice
  <2> HIDE DEF D
  <2>3. Idle.batch = <<>> /\ Idle.page = <<>> /\ Idle.phase = "idle"
    BY DEF Idle
  <2>4. Wires(Idle, <<>>) = {} /\ DOMAIN Idle.page = {} /\ DOMAIN D.out = {}
    BY <2>2, <2>3 DEF Wires, Range
  <2>5. Rooted(D, OnServer(srv))
    BY <2>2, NoRowFacts DEF Rooted, LiveRow, HasRow, NoConflict
  <2>6. Traces(D, Idle, <<>>, srv)
    BY <2>3, <2>4, <2>5 DEF Traces
  <2>7. \A i \in Id : Creating(D, Idle, <<>>, i) = {}
    BY <2>4 DEF Creating, Creators, FirstIds, OpsOf
  <2> QED  BY <2>1, <2>6, <2>7
<1>3. \A i \in Id : Origins[i] = {}
  BY <1>2 DEF Origins
<1>4. OneOrigin(Origins, srv)
  BY <1>3 DEF OneOrigin
<1>5. Grounded(srv)
  BY <1>1 DEF Grounded
<1> QED  BY <1>2, <1>4, <1>5 DEF Originated

\* What the device has not heard of it does not create.
LEMMA UnheardCreatesNot ==
  ASSUME NEW d \in Device, NEW D, NEW N, NEW L, NEW c, NEW s, NEW b,
         DeviceOK(d, D, N, L, c, s, b), NEW i \in Id, i \notin b
  PROVE  Creating(D, N, L, i) = {}
<1>1. ~ HasRow(D, i) /\ \A w \in Wires(N, L) : w.id # i
  BY DEF DeviceOK, Heard
<1>2. OpsOf(D, i) = {}
  BY <1>1 DEF DeviceOK, Fine, Sound
<1> QED  BY <1>1, <1>2 DEF Creating, Creators, FirstIds

\* A record with nothing under way has one first operation at most.
LEMMA FreshCreates ==
  ASSUME NEW d \in Device, NEW D, NEW N, NEW L, NEW c, NEW s, NEW b,
         DeviceOK(d, D, N, L, c, s, b), NEW i \in Id, \A w \in Wires(N, L) : w.id # i
  PROVE  \A o, p \in Creating(D, N, L, i) : o \in OpId /\ o = p
<1>1. Creating(D, N, L, i) \subseteq FirstIds(D, i)
  BY DEF Creating, Creators
<1>2. D \in DeviceState(d) /\ \A k \in OpsOf(D, i) : k \in Nat /\ D.out[k].opId \in OpId
  <2>1. D \in DeviceState(d)
    BY DeviceParts
  <2>2. DOMAIN D.out = 1..Len(D.out)
    BY <2>1, OutFacts
  <2> QED  BY <2>1, <2>2, DeviceParts DEF OpsOf
<1>3. ASSUME NEW o \in FirstIds(D, i), NEW p \in FirstIds(D, i)
      PROVE  o \in OpId /\ o = p
  <2>1. PICK k \in OpsOf(D, i) : o = D.out[k].opId /\ \A j \in OpsOf(D, i) : k <= j
    BY DEF FirstIds
  <2>2. PICK m \in OpsOf(D, i) : p = D.out[m].opId /\ \A j \in OpsOf(D, i) : m <= j
    BY DEF FirstIds
  <2>3. k <= m /\ m <= k /\ k \in Nat /\ m \in Nat
    BY <1>2, <2>1, <2>2
  <2>4. k = m
    BY <2>3
  <2> QED  BY <1>2, <2>1, <2>2, <2>4
<1> QED  BY <1>1, <1>3

\* A step of a device that leaves the server alone, and may bring new records.
LEMMA DeviceOrigins ==
  ASSUME InOrder, Originated, NEW d \in Device, Only(d), srv' = srv,
         NEW new \in SUBSET Id, new \cap born = {},
         Traces(dev'[d], net'[d], late'[d], srv),
         \A i \in Id \ new : Creating(dev'[d], net'[d], late'[d], i)
                               \subseteq Creating(dev[d], net[d], late[d], i),
         \A i \in new : \A o, p \in Creating(dev'[d], net'[d], late'[d], i) :
           o \in OpId /\ o = p
  PROVE  Originated'
<1> DEFINE Old(e, i) == Creating(dev[e], net[e], late[e], i)
           New(e, i) == Creating(dev'[e], net'[e], late'[e], i)
<1>1. \A e \in Device \ {d} : \A i \in Id : New(e, i) = Old(e, i)
  BY DEF Only
<1>2. \A e \in Device : Traces(dev'[e], net'[e], late'[e], srv)
  BY DEF Only, Originated
<1>3. \A i \in Id : /\ \A o : o \in Origins'[i] <=> \E e \in Device : o \in New(e, i)
                    /\ \A o : o \in Origins[i] <=> \E e \in Device : o \in Old(e, i)
  BY DEF Origins
<1>4. \A i \in Id \ new : New(d, i) \subseteq Old(d, i)
  OBVIOUS
<1>5. \A i \in new : \A o, p \in New(d, i) : o \in OpId /\ o = p
  OBVIOUS
<1>6. \A e \in Device : \A i \in new : Old(e, i) = {}
  <2>1. ASSUME NEW e \in Device, NEW i \in new  PROVE Old(e, i) = {}
    <3>1. DeviceOK(e, dev[e], net[e], late[e], cursor[e], srv, born)
      BY DEF InOrder
    <3> QED  BY <3>1, UnheardCreatesNot
  <2> QED  BY <2>1
<1>7. \A i \in new : ~ Found(srv, i)
  BY DEF InOrder, KnownTo
<1> HIDE DEF Old, New
<1>8. ASSUME NEW i \in Id, NEW o \in Origins'[i], NEW p \in Origins'[i]
      PROVE  o \in OpId /\ o = p /\ (Found(srv, i) => srv.applied[o] # NotApplied)
  <2>1. CASE i \in new
    <3>1. o \in New(d, i) /\ p \in New(d, i)
      BY <1>1, <1>3, <1>6, <2>1
    <3> QED  BY <3>1, <1>5, <1>7, <2>1
  <2>2. CASE i \notin new
    <3>1. o \in Origins[i] /\ p \in Origins[i]
      BY <1>1, <1>3, <1>4, <2>2
    <3> QED  BY <3>1 DEF Originated, OneOrigin
  <2> QED  BY <2>1, <2>2
<1>9. OneOrigin(Origins', srv)
  BY <1>8 DEF OneOrigin
<1> QED  BY <1>2, <1>9 DEF Originated

\* A step of the engine brings no record.
LEMMA EngineOrigins ==
  ASSUME InOrder, Originated, NEW d \in Device, Only(d), srv' = srv,
         Traces(dev'[d], net'[d], late'[d], srv),
         \A i \in Id : Creating(dev'[d], net'[d], late'[d], i)
                         \subseteq Creating(dev[d], net[d], late[d], i)
  PROVE  Originated'
<1>1. {} \in SUBSET Id /\ {} \cap born = {}
  OBVIOUS
<1>2. \A i \in Id \ {} : Creating(dev'[d], net'[d], late'[d], i)
                           \subseteq Creating(dev[d], net[d], late[d], i)
  OBVIOUS
<1>3. \A i \in {} : \A o, p \in Creating(dev'[d], net'[d], late'[d], i) : o \in OpId /\ o = p
  OBVIOUS
<1> QED  BY <1>1, <1>2, <1>3, DeviceOrigins

\* The server runs a batch of the device d, or of none.
LEMMA ServerOrigins ==
  ASSUME InOrder, Originated, NEW d \in Device, Only(d), dev'[d] = dev[d],
         NEW t, srv' = t, Roots(srv, t, Origins),
         \A o \in OpId : o[1] # d => t.applied[o] = srv.applied[o],
         Traces(dev[d], net'[d], late'[d], t),
         \A i \in Id : Creating(dev[d], net'[d], late'[d], i)
                         \subseteq Creating(dev[d], net[d], late[d], i)
  PROVE  Originated'
<1>1. ASSUME NEW e \in Device
      PROVE  Traces(dev'[e], net'[e], late'[e], t)
  <2>1. CASE e = d
    BY <2>1
  <2>2. CASE e # d
    <3>1. /\ DeviceOK(e, dev[e], net[e], late[e], cursor[e], srv, born)
          /\ Traces(dev[e], net[e], late[e], srv)
      BY DEF InOrder, Originated
    <3>2. \A o \in OpId : o[1] = e => t.applied[o] = srv.applied[o]
      BY <2>2
    <3>3. OnServer(srv) \subseteq OnServer(t)
      BY DEF Roots
    <3>4. Traces(dev[e], net[e], late[e], t)
      BY <3>1, <3>2, <3>3, ServerTraces
    <3> QED  BY <2>2, <3>4 DEF Only
  <2> QED  BY <2>1, <2>2
<1>2. \A e \in Device : \A i \in Id :
        Creating(dev'[e], net'[e], late'[e], i) \subseteq Creating(dev[e], net[e], late[e], i)
  BY DEF Only
<1>3. \A i \in Id : Origins'[i] \subseteq Origins[i]
  BY <1>2 DEF Origins
<1>4. OneOrigin(Origins', t) /\ Grounded(t)
  BY <1>3 DEF Roots, OneOrigin
<1> QED  BY <1>1, <1>4 DEF Originated

LEMMA UserOrigins ==
  ASSUME InOrder, Originated, NEW d \in Device, User(d) \/ Settle(d)
  PROVE  Originated'
<1> DEFINE D == dev[d]
           N == net[d]
           L == late[d]
<1>1. PICK E, M : Transacts(d, E, M)
  BY UserTransacts
<1>2. /\ E.made <= MaxOps /\ dev' = [dev EXCEPT ![d] = E] /\ srv' = srv
      /\ cursor' = cursor /\ net' = net /\ late' = late
      /\ born' = born \cup M /\ M \in SUBSET (Id \ born)
      /\ Leads(D, E, d, M)
  BY <1>1 DEF Transacts, Locally
<1>3. dev'[d] = E /\ net'[d] = N /\ late'[d] = L /\ Only(d)
  BY <1>2 DEF InOrder, Only
<1>4. DeviceOK(d, D, N, L, cursor[d], srv, born) /\ Traces(D, N, L, srv)
  BY DEF InOrder, Originated
<1>5. Stems(D, E, OnServer(srv), M)
  BY <1>1, <1>4 DEF Transacts, Traces
<1>6. /\ Traces(E, N, L, srv)
      /\ \A i \in Id \ M : Creating(E, N, L, i) \subseteq Creating(D, N, L, i)
  <2> HIDE DEF D, N, L
  <2> QED  BY <1>2, <1>4, <1>5, LedTraces
<1>7. DeviceOK(d, E, N, L, cursor[d], srv, born')
  <2> HIDE DEF D, N, L
  <2> QED  BY <1>2, <1>4, DeviceLed
<1>8. ASSUME NEW i \in M  PROVE \A o, p \in Creating(E, N, L, i) : o \in OpId /\ o = p
  <2>1. i \in Id /\ \A w \in Wires(N, L) : w.id # i
    BY <1>2, <1>4 DEF DeviceOK, Heard
  <2> HIDE DEF D, N, L
  <2> QED  BY <1>7, <2>1, FreshCreates
<1>9. M \in SUBSET Id /\ M \cap born = {}
  BY <1>2
<1> HIDE DEF D, N, L
<1>10. /\ Traces(dev'[d], net'[d], late'[d], srv)
       /\ \A i \in Id \ M : Creating(dev'[d], net'[d], late'[d], i)
                              \subseteq Creating(dev[d], net[d], late[d], i)
       /\ \A i \in M : \A o, p \in Creating(dev'[d], net'[d], late'[d], i) :
            o \in OpId /\ o = p
  BY <1>3, <1>6, <1>8 DEF D, N, L
<1> QED  BY <1>2, <1>3, <1>9, <1>10, DeviceOrigins

\* The engine goes round its push loop, from a database D in order.
LEMMA ProceedsOrigins ==
  ASSUME InOrder, Originated, NEW d \in Device, NEW D, NEW due, Fine(D, d),
         Traces(D, net[d], late[d], srv),
         \A i \in Id : Creating(D, net[d], late[d], i)
                         \subseteq Creating(dev[d], net[d], late[d], i),
         Proceeds(d, D, due), UNCHANGED <<srv, cursor, late, born>>
  PROVE  Originated'
<1> DEFINE s == Selected(D, due)
           R == net'[d]
<1>1. /\ dev' = [dev EXCEPT ![d] = s.dev]
      /\ net' = [net EXCEPT ![d] = IF s.batch = <<>> THEN Pulling ELSE Pushing(s.batch)]
  BY DEF Proceeds
<1>2. Selects(D, s.dev, s.batch, d)
  BY SelectedFine
<1> HIDE DEF s
<1>3. dev'[d] = s.dev /\ R \in {Pulling, Pushing(s.batch)} /\ Only(d) /\ late' = late
  BY <1>1 DEF InOrder, Only
<1> HIDE DEF R
<1>4. /\ Traces(s.dev, R, late[d], srv)
      /\ \A i \in Id : Creating(s.dev, R, late[d], i) \subseteq Creating(D, net[d], late[d], i)
  BY <1>2, <1>3, SendingTraces
<1>5. /\ Traces(dev'[d], net'[d], late'[d], srv)
      /\ \A i \in Id : Creating(dev'[d], net'[d], late'[d], i)
                         \subseteq Creating(dev[d], net[d], late[d], i)
  BY <1>3, <1>4 DEF R
<1> QED  BY <1>3, <1>5, EngineOrigins

\* Requests arrive at the server.
LEMMA ArrivalOrigins ==
  ASSUME InOrder, Originated, NEW d \in Device,
         PushArrives(d) \/ LatePushArrives(d) \/ PullArrives(d)
  PROVE  Originated'
<1> DEFINE D == dev[d]
           N == net[d]
           L == late[d]
           c == cursor[d]
<1>0. /\ DeviceOK(d, D, N, L, c, srv, born) /\ ServerOK(srv) /\ KnownTo(srv) \subseteq born
      /\ N \in Request(d) /\ Traces(D, N, L, srv) /\ Grounded(srv)
      /\ OneOrigin(Origins, srv) /\ \A i \in Id : Creating(D, N, L, i) \subseteq Origins[i]
  BY DEF InOrder, DeviceOK, Originated, Origins
<1>1. CASE PushArrives(d)
  <2>1. PICK order \in Orders :
          LET r == Applied(srv, N.batch, order)
          IN  /\ srv' = r.srv
              /\ net' = [net EXCEPT ![d].phase = "pushed", ![d].answers = r.answers]
    BY <1>1 DEF PushArrives
  <2> DEFINE r == Applied(srv, N.batch, order)
             R == [N EXCEPT !.phase = "pushed", !.answers = r.answers]
  <2>2. srv' = r.srv /\ net' = [net EXCEPT ![d].phase = "pushed", ![d].answers = r.answers]
        /\ dev' = dev /\ cursor' = cursor /\ late' = late /\ born' = born
    BY <1>1, <2>1 DEF PushArrives
  <2>3. net'[d] = R /\ late'[d] = L /\ Only(d)
    BY <2>2 DEF InOrder, Only
  <2>4. R.batch = N.batch /\ R.page = N.page /\ R.answers = r.answers
    BY <1>0 DEF Request
  <2> HIDE DEF R
  <2>5. /\ Roots(srv, r.srv, Origins) /\ Traces(D, N, L, r.srv)
        /\ \A k \in DOMAIN N.batch : Tells(r.answers[k], N.batch[k], r.srv)
        /\ \A o \in OpId : o[1] # d => r.srv.applied[o] = srv.applied[o]
    <3> HIDE DEF r, D, N, L, c
    <3> QED  BY <1>0, ServedTraces, ServedOn DEF r
  <2>6. /\ Traces(D, R, L, r.srv)
        /\ \A i \in Id : Creating(D, R, L, i) \subseteq Creating(D, N, L, i)
    <3> HIDE DEF r, D, N, L, c
    <3> QED  BY <2>4, <2>5, AnsweredTraces
  <2> HIDE DEF r
  <2> QED  BY <2>2, <2>3, <2>5, <2>6, ServerOrigins
<1>2. CASE LatePushArrives(d)
  <2>1. PICK order \in Orders : srv' = Applied(srv, L, order).srv
    BY <1>2 DEF LatePushArrives
  <2> DEFINE r == Applied(srv, L, order)
  <2>2. srv' = r.srv /\ late' = [late EXCEPT ![d] = <<>>]
        /\ dev' = dev /\ cursor' = cursor /\ net' = net /\ born' = born
    BY <1>2, <2>1 DEF LatePushArrives
  <2>3. net'[d] = N /\ late'[d] = <<>> /\ Only(d)
    BY <2>2 DEF InOrder, Only
  <2>4. /\ Roots(srv, r.srv, Origins) /\ Traces(D, N, L, r.srv)
        /\ \A o \in OpId : o[1] # d => r.srv.applied[o] = srv.applied[o]
    <3> HIDE DEF r, D, N, L, c
    <3> QED  BY <1>0, ServedTraces, ServedOn DEF r
  <2>5. /\ Traces(D, N, <<>>, r.srv)
        /\ \A i \in Id : Creating(D, N, <<>>, i) \subseteq Creating(D, N, L, i)
    <3>1. Wires(N, <<>>) \subseteq Wires(N, L)
      BY DEF Wires, Range
    <3> HIDE DEF r, D, N, L
    <3> QED  BY <2>4, <3>1 DEF Traces, Creating
  <2> HIDE DEF r
  <2> QED  BY <2>2, <2>3, <2>4, <2>5, ServerOrigins
<1>3. CASE PullArrives(d)
  <2> DEFINE all == Changes(srv, c)
             page == IF Len(all) > PageSize THEN SubSeq(all, 1, PageSize) ELSE all
             R == [N EXCEPT !.phase = "pulled", !.page = page, !.more = (Len(page) = PageSize)]
  <2>1. /\ net' = [net EXCEPT ![d].phase = "pulled", ![d].page = page,
                              ![d].more = (Len(page) = PageSize)]
        /\ srv' = srv /\ dev' = dev /\ cursor' = cursor /\ late' = late /\ born' = born
    BY <1>3 DEF PullArrives
  <2>2. net'[d] = R /\ late'[d] = L /\ dev'[d] = D /\ Only(d)
    BY <2>1 DEF InOrder, Only
  <2>3. \A k \in DOMAIN page : \E j \in DOMAIN all : page[k] = all[j]
    <3>1. page = Page(srv, c)
      BY DEF Page
    <3> HIDE DEF page
    <3> QED  BY <1>0, <3>1, PageOfChanges
  <2>4. \A k \in DOMAIN page : page[k].ver >= 1 /\ Found(srv, page[k].id)
    <3>1. \A j \in DOMAIN all : all[j].ver >= 1 /\ Found(srv, all[j].id)
      BY <1>0, ChangesFacts DEF Grounded, Reports
    <3> HIDE DEF page, all
    <3> QED  BY <2>3, <3>1
  <2>5. R.batch = N.batch /\ R.page = page /\ R.phase # "pushed"
    BY <1>0 DEF Request
  <2> HIDE DEF page, R
  <2>6. /\ Traces(D, R, L, srv)
        /\ \A i \in Id : Creating(D, R, L, i) \subseteq Creating(D, N, L, i)
    <3> HIDE DEF D, N, L, c
    <3> QED  BY <1>0, <2>4, <2>5, PageTraces
  <2> QED  BY <2>1, <2>2, <2>6, EngineOrigins
<1> QED  BY <1>1, <1>2, <1>3

\* The engine takes the answer in, or the request fails.
LEMMA EngineStepOrigins ==
  ASSUME InOrder, Originated, NEW d \in Device,
         \/ \E due \in SUBSET Retries(d) : Run(d, due)
         \/ PushReturns(d) \/ PullReturns(d)
         \/ PushFails(d) \/ PushUnauthorized(d) \/ PullFails(d)
  PROVE  Originated'
<1> DEFINE D == dev[d]
           N == net[d]
           L == late[d]
           c == cursor[d]
<1>0. /\ DeviceOK(d, D, N, L, c, srv, born) /\ Fine(D, d) /\ D.made <= MaxOps
      /\ N \in Request(d) /\ Traces(D, N, L, srv)
  BY DEF InOrder, DeviceOK, Originated
<1>1. CASE \E due \in SUBSET Retries(d) : Run(d, due)
  <2>1. PICK due \in SUBSET Retries(d) : Proceeds(d, D, due)
    BY <1>1 DEF Run
  <2>2. UNCHANGED <<srv, cursor, late, born>>
    BY <1>1 DEF Run
  <2> QED  BY <1>0, <2>1, <2>2, ProceedsOrigins
<1>2. CASE PushReturns(d)
  <2> DEFINE E == PushTakenIn(D, N.batch, N.answers)
  <2>1. /\ N.phase = "pushed" /\ UNCHANGED <<srv, cursor, late, born>>
        /\ \/ \E due \in SUBSET Retries(d) : Proceeds(d, E, due)
           \/ dev' = [dev EXCEPT ![d] = E] /\ net' = [net EXCEPT ![d] = Pulling]
    BY <1>2 DEF PushReturns
  <2>2. /\ Fine(E, d) /\ Traces(E, N, L, srv)
        /\ \A i \in Id : Creating(E, N, L, i) \subseteq Creating(D, N, L, i)
    <3> HIDE DEF D, N, L, c
    <3>1. Leads(D, E, d, {})
      BY <1>0, <2>1, ResultsTakenIn
    <3> QED  BY <1>0, <2>1, <3>1, ResultsTraces DEF Leads
  <2> HIDE DEF E
  <2>3. CASE \E due \in SUBSET Retries(d) : Proceeds(d, E, due)
    BY <2>1, <2>2, <2>3, ProceedsOrigins
  <2>4. CASE dev' = [dev EXCEPT ![d] = E] /\ net' = [net EXCEPT ![d] = Pulling]
    <3>1. dev'[d] = E /\ net'[d] = Pulling /\ late'[d] = L /\ Only(d)
      BY <2>1, <2>4 DEF InOrder, Only
    <3>2. /\ Traces(E, Pulling, L, srv)
          /\ \A i \in Id : Creating(E, Pulling, L, i) \subseteq Creating(E, N, L, i)
      BY <2>2, OverTraces
    <3> QED  BY <2>1, <2>2, <3>1, <3>2, EngineOrigins
  <2> QED  BY <2>1, <2>3, <2>4
<1>3. CASE PullReturns(d)
  <2> DEFINE E == PageTakenIn(D, N.page)
             R == IF N.more THEN Pulling ELSE Idle
             a == IF N.page = <<>> THEN c ELSE Last(N.page).seq
  <2>1. /\ dev' = [dev EXCEPT ![d] = E] /\ dev'[d].made <= MaxOps
        /\ cursor' = [cursor EXCEPT ![d] = a] /\ net' = [net EXCEPT ![d] = R]
        /\ UNCHANGED <<srv, late, born>>
    BY <1>3 DEF PullReturns
  <2> HIDE DEF a, R, E
  <2>2. dev'[d] = E /\ net'[d] = R /\ late'[d] = L /\ Only(d) /\ E.made <= MaxOps
    <3>1. InOrder'
      BY <1>3, EngineStep
    <3> QED  BY <2>1, <3>1 DEF InOrder, Only
  <2>3. /\ Traces(E, N, L, srv)
        /\ \A i \in Id : Creating(E, N, L, i) \subseteq Creating(D, N, L, i)
    <3> HIDE DEF D, N, L, c
    <3> QED  BY <1>0, <2>2, PageTakenTraces DEF E
  <2>4. /\ Traces(E, R, L, srv)
        /\ \A i \in Id : Creating(E, R, L, i) \subseteq Creating(E, N, L, i)
    <3>1. R \in {Idle, Pulling}
      BY DEF R
    <3> HIDE DEF D, N, L
    <3> QED  BY <2>3, <3>1, OverTraces
  <2> QED  BY <2>1, <2>2, <2>3, <2>4, EngineOrigins
<1>4. CASE PushFails(d)
  <2>1. /\ net' = [net EXCEPT ![d] = Idle]
        /\ late' = late \/ late' = [late EXCEPT ![d] = N.batch]
        /\ UNCHANGED <<srv, dev, cursor, born>>
    BY <1>4 DEF PushFails
  <2>2. net'[d] = Idle /\ late'[d] \in {L, N.batch, <<>>} /\ Only(d)
    BY <2>1 DEF InOrder, Only
  <2>3. /\ Traces(D, Idle, late'[d], srv)
        /\ \A i \in Id : Creating(D, Idle, late'[d], i) \subseteq Creating(D, N, L, i)
    <3> HIDE DEF D, N, L
    <3> QED  BY <1>0, <2>2, OverTraces
  <2> QED  BY <2>1, <2>2, <2>3, EngineOrigins
<1>5. CASE PushUnauthorized(d)
  <2> DEFINE E == AttemptsReverted(D, N.batch)
  <2>1. /\ dev' = [dev EXCEPT ![d] = E] /\ net' = [net EXCEPT ![d] = Idle]
        /\ UNCHANGED <<srv, late, cursor, born>>
    BY <1>5 DEF PushUnauthorized
  <2>2. /\ Leads(D, E, d, {}) /\ E.row = D.row /\ E.conf = D.conf
        /\ \A i \in Id : FirstIds(E, i) \subseteq FirstIds(D, i)
    <3>1. \A b \in Range(N.batch) : b \in WireOp(d)
      BY <1>0 DEF Request, Range
    <3> HIDE DEF D, N
    <3> QED  BY <1>0, <3>1, RevertedFine
  <2>3. E.made <= MaxOps
    BY <1>0 DEF AttemptsReverted, Fine, DeviceState
  <2> HIDE DEF E
  <2>4. dev'[d] = E /\ net'[d] = Idle /\ late'[d] = L /\ Only(d)
    BY <2>1 DEF InOrder, Only
  <2>5. /\ Traces(E, N, L, srv)
        /\ \A i \in Id : Creating(E, N, L, i) \subseteq Creating(D, N, L, i)
    <3>1. Stems(D, E, OnServer(srv), {})
      BY <1>0, <2>2, SameRowsStems DEF Traces
    <3> HIDE DEF D, N, L, c
    <3> QED  BY <1>0, <2>2, <2>3, <3>1, LedTraces
  <2>6. /\ Traces(E, Idle, L, srv)
        /\ \A i \in Id : Creating(E, Idle, L, i) \subseteq Creating(E, N, L, i)
    <3> HIDE DEF D, N, L
    <3> QED  BY <2>5, OverTraces
  <2> QED  BY <2>1, <2>4, <2>5, <2>6, EngineOrigins
<1>6. CASE PullFails(d)
  <2>1. net' = [net EXCEPT ![d] = Idle] /\ UNCHANGED <<srv, dev, cursor, late, born>>
    BY <1>6 DEF PullFails
  <2>2. net'[d] = Idle /\ Only(d)
    BY <2>1 DEF InOrder, Only
  <2>3. /\ Traces(D, Idle, L, srv)
        /\ \A i \in Id : Creating(D, Idle, L, i) \subseteq Creating(D, N, L, i)
    <3> HIDE DEF D, N, L
    <3> QED  BY <1>0, OverTraces
  <2> QED  BY <2>1, <2>2, <2>3, EngineOrigins
<1> QED  BY <1>1, <1>2, <1>3, <1>4, <1>5, <1>6

LEMMA NextOriginated ==
  ASSUME InOrder, Originated, [Next]_vars
  PROVE  Originated'
<1>1. CASE UNCHANGED vars
  BY <1>1 DEF vars, Originated, Origins
<1>2. ASSUME NEW d \in Device,
             \/ User(d) \/ Settle(d)
             \/ \E due \in SUBSET Retries(d) : Run(d, due)
             \/ PushArrives(d) \/ LatePushArrives(d) \/ PushReturns(d)
             \/ PushFails(d) \/ PushUnauthorized(d)
             \/ PullArrives(d) \/ PullReturns(d) \/ PullFails(d)
      PROVE  Originated'
  BY <1>2, UserOrigins, ArrivalOrigins, EngineStepOrigins
<1> QED  BY <1>1, <1>2 DEF Next

LEMMA OriginatedAlways == Spec => []Originated
<1>1. Init => Originated
  BY InitOriginated
<1>2. InOrder /\ Originated /\ [Next]_vars => Originated'
  BY NextOriginated
<1> QED  BY <1>1, <1>2, InOrderAlways, PTL DEF Spec

-----------------------------------------------------------------------------
(* What follows.                                                           *)

LEMMA InOrderTyped ==
  ASSUME InOrder
  PROVE  TypeOK /\ DirtyIffPending
<1>1. ASSUME NEW d \in Device
      PROVE  /\ Fine(dev[d], d) /\ dev[d] \in DeviceState(d) /\ dev[d].made \in 0..MaxOps
             /\ cursor[d] \in 0..srv.seq
  <2>1. DeviceOK(d, dev[d], net[d], late[d], cursor[d], srv, born)
    BY DEF InOrder
  <2> QED  BY <2>1, OpIdAssumption DEF DeviceOK, Fine, DeviceState
<1>2. ASSUME NEW d \in Device, NEW i \in Id
      PROVE  /\ dev[d].row[i].ver \in Nat /\ dev[d].row[i].sv \in Nat
             /\ HasRow(dev[d], i) => dev[d].row[i].data \in PayloadOf(i)
             /\ Pending(d, i) => HasRow(dev[d], i)
             /\ Pending(d, i) => ~ Clean(dev[d], i)
             /\ LiveRow(dev[d], i) /\ ~ Clean(dev[d], i) => Pending(d, i)
  BY <1>1, RowOf DEF Pending, Waiting
<1>3. ASSUME NEW d \in Device, NEW i \in Id
      PROVE  dev[d].conf[i].kind \in {"none", "version", "deleted"}
  <2>1. dev[d].conf[i] \in ConflictRow
    BY <1>1 DEF DeviceState
  <2> QED  BY <2>1 DEF ConflictRow
<1>4. cursor \in [Device -> 0..srv.seq]
  BY <1>1 DEF InOrder
<1> QED  BY <1>1, <1>2, <1>3, <1>4 DEF TypeOK, DirtyIffPending

\* Every database is well-formed, an operation is about a record the device
\* holds, and no cursor is ahead of the log (TypeOK), for any number of devices
\* and records, any payloads and any losses.
THEOREM DatabasesTyped == Spec => []TypeOK
<1>1. InOrder => TypeOK
  BY InOrderTyped
<1> QED  BY <1>1, InOrderAlways, PTL

\* Design D5: a CLEAN record has no pending operation, and a live DIRTY one has.
THEOREM NoEditWithoutOperation == Spec => []DirtyIffPending
<1>1. InOrder => DirtyIffPending
  BY InOrderTyped
<1> QED  BY <1>1, InOrderAlways, PTL

LEMMA OriginatedUnborn ==
  ASSUME InOrder, Originated
  PROVE  UnbornUnknown
<1> SUFFICES ASSUME NEW d \in Device, NEW i \in Id, LiveRow(dev[d], i), Unborn(dev[d], i)
             PROVE  ~ Found(srv, i)
  BY DEF UnbornUnknown
<1> DEFINE D == dev[d]
<1>1. /\ DeviceOK(d, D, net[d], late[d], cursor[d], srv, born)
      /\ Traces(D, net[d], late[d], srv)
      /\ Fine(D, d) /\ D \in DeviceState(d) /\ Rooted(D, OnServer(srv))
  BY DEF InOrder, DeviceOK, Fine, Originated, Traces
<1>2. D.row[i].sv = 0 /\ \A k \in OpsOf(D, i) : ~ D.out[k].sent
  BY DEF Unborn
<1>3. OpsOf(D, i) # {}
  BY <1>1, <1>2, UnconfirmedWaits
<1>4. PICK k \in OpsOf(D, i) : \A j \in OpsOf(D, i) : k <= j
  <2>1. OpsOf(D, i) \subseteq Nat
    BY <1>1 DEF OpsOf, DeviceState
  <2> QED  BY <1>3, <2>1, LeastElement
<1>5. D.out[k].action = "upsert"
  <2>1. D.out[k] \in PendingOp(d)
    BY <1>1, OutFacts DEF OpsOf
  <2>2. D.out[k].action = "delete" => D.row[i].deleted
    BY <1>1, RowOf DEF Sound
  <2> QED  BY <2>1, <2>2 DEF PendingOp, LiveRow
<1>6. D.out[k].opId \in Origins[i]
  <2>1. D.out[k].opId \in Creating(D, net[d], late[d], i)
    BY <1>2, <1>4, <1>5 DEF Creating, Creators, FirstIds
  <2> QED  BY <2>1 DEF Origins
<1>7. srv.applied[D.out[k].opId] = NotApplied
  BY <1>1, <1>2, <1>4 DEF DeviceOK, SeenByServer, OpsOf
<1> QED  BY <1>6, <1>7 DEF Originated, OneOrigin

\* What remove wipes as never sent the server does not have, whatever requests
\* and answers were lost, repeated or late.
THEOREM UnbornNotOnServer == Spec => []UnbornUnknown
<1>1. InOrder /\ Originated => UnbornUnknown
  BY OriginatedUnborn
<1> QED  BY <1>1, InOrderAlways, OriginatedAlways, PTL

\* What a step of the engine leaves of an edit.
EditKept(D, E, i) ==
  LiveRow(D, i) /\ ~ Clean(D, i) =>
    \/ E.row[i].data = D.row[i].data /\ ~ E.row[i].deleted
    \/ E.conf[i].local = D.row[i].data

\* The answers to a push, and a page, leave every edit in its row or in a
\* conflict.
LEMMA AnswersKeepEdits ==
  ASSUME NEW d \in Device, NEW D, NEW N, NEW L, NEW c, NEW s, NEW b,
         DeviceOK(d, D, N, L, c, s, b), Traces(D, N, L, s), NEW i \in Id
  PROVE  /\ N.phase = "pushed" => EditKept(D, PushTakenIn(D, N.batch, N.answers), i)
         /\ EditKept(D, PageTakenIn(D, N.page), i)
<1> DEFINE x == D.row[i].data
<1> SUFFICES ASSUME LiveRow(D, i), ~ Clean(D, i)
             PROVE  /\ N.phase = "pushed" => EditKept(D, PushTakenIn(D, N.batch, N.answers), i)
                    /\ EditKept(D, PageTakenIn(D, N.page), i)
  BY DEF EditKept
<1>1. Fine(D, d) /\ x # NoData /\ ~ D.row[i].deleted
  <2>1. Fine(D, d)
    BY DEF DeviceOK
  <2> QED  BY <2>1 DEF LiveRow, HasRow
<1>2. ASSUME N.phase = "pushed"  PROVE EditKept(D, PushTakenIn(D, N.batch, N.answers), i)
  <2>1. /\ Len(N.batch) \in Nat /\ DOMAIN N.batch = 1..Len(N.batch)
        /\ Trusted(D, N.batch, N.answers, Len(N.batch), OnServer(s))
    BY <1>2, AnswersTrusted
  <2>2. Retained(D, i, x)
    BY <1>1 DEF Retained
  <2> HIDE DEF x
  <2>3. Retained(PushTakenIn(D, N.batch, N.answers), i, x)
    BY <1>1, <2>1, <2>2, PushTakenInRetains
  <2> QED  BY <2>3 DEF Retained, EditKept, x
<1>3. EditKept(D, PageTakenIn(D, N.page), i)
  <2>1. /\ Len(N.page) \in Nat /\ DOMAIN N.page = 1..Len(N.page)
        /\ \A k \in 1..Len(N.page) : /\ N.page[k] \in PulledChange
                                     /\ N.page[k].data \in Data(N.page[k].id)
    <3>1. N.page \in Seq(PulledChange) /\ \A k \in DOMAIN N.page : Pullable(N.page[k], s)
      BY DEF DeviceOK, Request
    <3> QED  BY <3>1 DEF Pullable
  <2>2. Held(D, i, x)
    BY <1>1 DEF Held
  <2> HIDE DEF x
  <2>3. Held(PageTakenIn(D, N.page), i, x)
    BY <1>1, <2>1, <2>2, PageTakenInHolds
  <2> QED  BY <2>3 DEF Held, EditKept, x
<1> QED  BY <1>2, <1>3

\* A request of the device's changes hands without its database losing an edit.
LEMMA EditsKept ==
  ASSUME InOrder, Originated, [Next]_vars, NEW d \in Device, net'[d] # net[d], NEW i \in Id
  PROVE  EditKept(dev[d], dev'[d], i)
<1> DEFINE D == dev[d]
           N == net[d]
<1>0. /\ DeviceOK(d, D, N, late[d], cursor[d], srv, born) /\ Fine(D, d)
      /\ N \in Request(d) /\ Traces(D, N, late[d], srv)
      /\ DOMAIN dev = Device /\ DOMAIN net = Device
  BY DEF InOrder, DeviceOK, Originated
<1>1. ASSUME NEW E, E.row = D.row, E.conf = D.conf  PROVE EditKept(D, E, i)
  BY <1>1 DEF EditKept, LiveRow
<1>2. ASSUME NEW E, NEW due, Fine(E, d), EditKept(D, E, i), Proceeds(d, E, due)
      PROVE  EditKept(D, dev'[d], i)
  <2>1. dev'[d] = Selected(E, due).dev
    BY <1>0, <1>2 DEF Proceeds
  <2>2. Selected(E, due).dev.row = E.row /\ Selected(E, due).dev.conf = E.conf
    BY <1>2, SelectedFine DEF Selects
  <2> HIDE DEF D
  <2> QED  BY <1>2, <2>1, <2>2 DEF EditKept
<1>3. PICK e \in Device :
        \/ User(e) \/ Settle(e)
        \/ \E due \in SUBSET Retries(e) : Run(e, due)
        \/ PushArrives(e) \/ LatePushArrives(e) \/ PushReturns(e)
        \/ PushFails(e) \/ PushUnauthorized(e)
        \/ PullArrives(e) \/ PullReturns(e) \/ PullFails(e)
  <2>1. ~ UNCHANGED vars
    BY DEF vars
  <2> QED  BY <2>1 DEF Next
<1>4. CASE User(e) \/ Settle(e)
  <2>1. PICK E, M : Transacts(e, E, M)
    BY <1>4, UserTransacts
  <2> QED  BY <2>1 DEF Transacts, Locally
<1>5. CASE LatePushArrives(e)
  BY <1>5 DEF LatePushArrives
<1>6. CASE \E due \in SUBSET Retries(e) : Run(e, due)
  <2>1. PICK due \in SUBSET Retries(e) : Run(e, due)
    BY <1>6
  <2>2. e = d
    BY <1>0, <2>1 DEF Run, Proceeds
  <2>3. Proceeds(d, D, due)
    BY <2>1, <2>2 DEF Run
  <2> QED  BY <1>0, <1>1, <1>2, <2>3
<1>7. CASE PushArrives(e) \/ PushFails(e) \/ PullArrives(e) \/ PullFails(e)
  <2>1. dev' = dev
    BY <1>7 DEF PushArrives, PushFails, PullArrives, PullFails
  <2> QED  BY <1>1, <2>1
<1>8. CASE PushReturns(e)
  <2>1. e = d
    BY <1>0, <1>8 DEF PushReturns, Proceeds
  <2> DEFINE E == PushTakenIn(D, N.batch, N.answers)
  <2>2. /\ N.phase = "pushed"
        /\ \/ \E due \in SUBSET Retries(d) : Proceeds(d, E, due)
           \/ dev' = [dev EXCEPT ![d] = E]
    BY <1>8, <2>1 DEF PushReturns
  <2>3. EditKept(D, E, i) /\ Fine(E, d)
    <3> HIDE DEF D, N
    <3>1. Leads(D, E, d, {})
      BY <1>0, <2>2, ResultsTakenIn
    <3> QED  BY <1>0, <2>2, <3>1, AnswersKeepEdits DEF Leads
  <2> HIDE DEF E
  <2>4. CASE dev' = [dev EXCEPT ![d] = E]
    BY <1>0, <2>3, <2>4
  <2> QED  BY <1>2, <2>2, <2>3, <2>4
<1>9. CASE PushUnauthorized(e)
  <2>1. e = d
    BY <1>0, <1>9 DEF PushUnauthorized
  <2>2. dev'[d] = AttemptsReverted(D, N.batch)
    BY <1>0, <1>9, <2>1 DEF PushUnauthorized
  <2>3. \A b \in Range(N.batch) : b \in WireOp(d)
    BY <1>0 DEF Request, Range
  <2>4. /\ AttemptsReverted(D, N.batch).row = D.row
        /\ AttemptsReverted(D, N.batch).conf = D.conf
    <3> HIDE DEF D, N
    <3> QED  BY <1>0, <2>3, RevertedFine
  <2> QED  BY <1>1, <2>2, <2>4
<1>10. CASE PullReturns(e)
  <2>1. e = d
    BY <1>0, <1>10 DEF PullReturns
  <2>2. dev'[d] = PageTakenIn(D, N.page)
    BY <1>0, <1>10, <2>1 DEF PullReturns
  <2>3. EditKept(D, PageTakenIn(D, N.page), i)
    <3> HIDE DEF D, N
    <3> QED  BY <1>0, AnswersKeepEdits
  <2> QED  BY <2>2, <2>3
<1> QED  BY <1>3, <1>4, <1>5, <1>6, <1>7, <1>8, <1>9, <1>10

\* Pull never overwrites an edit that waits, no conflict is settled by
\* discarding it, and no answer, late or repeated, makes the engine do so.
THEOREM EngineLosesNoEdit == Spec => NoEditLost
<1>1. InOrder /\ Originated /\ [Next]_vars =>
        [\A d \in Device, i \in Id :
           LET r == dev[d].row[i]
               s == dev'[d].row[i]
           IN  net'[d] # net[d] /\ LiveRow(dev[d], i) /\ ~ Clean(dev[d], i)
                 => \/ s.data = r.data /\ ~ s.deleted
                    \/ dev'[d].conf[i].local = r.data]_vars
  BY EditsKept DEF EditKept
<1> QED  BY <1>1, InOrderAlways, OriginatedAlways, PTL DEF Spec, NoEditLost

-----------------------------------------------------------------------------
(* What the server tells.                                                  *)

\* The server's rows have data, and the last word of its log on a record is the
\* record's state.
Honest(s) ==
  /\ \A i \in Id : Found(s, i) => s.rec[i].data # NoData
  /\ \A e \in s.log :
       /\ e.ver <= s.rec[e.id].ver
       /\ e.ver = s.rec[e.id].ver => (e.action = "tombstone" <=> s.rec[e.id].deleted)

\* From s to t a row changes with its version only, which grows.
Grows(s, t) ==
  \A i \in Id : t.rec[i] = s.rec[i] \/ s.rec[i].ver < t.rec[i].ver

LEMMA GrowsOn ==
  ASSUME NEW s, ServerOK(s), NEW t, ServerOK(t), NEW u, ServerOK(u), Grows(s, t), Grows(t, u)
  PROVE  Grows(s, u)
<1>1. \A i \in Id : s.rec[i].ver \in Nat /\ t.rec[i].ver \in Nat /\ u.rec[i].ver \in Nat
  BY DEF ServerOK, ServerState, Row
<1> QED  BY <1>1 DEF Grows

LEMMA SaysOn ==
  ASSUME NEW s, ServerOK(s), NEW t, ServerOK(t), Grows(s, t), NEW i \in Id,
         NEW v \in Int, NEW deleted, NEW data, Says(s, i, v, deleted, data)
  PROVE  Says(t, i, v, deleted, data)
<1>1. s.rec[i].ver \in Nat /\ t.rec[i].ver \in Nat
  BY DEF ServerOK, ServerState, Row
<1> QED  BY <1>1 DEF Grows, Says

LEMMA MatchesOn ==
  ASSUME NEW s, ServerOK(s), NEW t, ServerOK(t), Grows(s, t), NEW i \in Id,
         NEW v \in Int, NEW deleted, NEW data, NEW plain, Matches(s, i, v, deleted, data, plain)
  PROVE  Matches(t, i, v, deleted, data, plain)
<1>1. s.rec[i].ver \in Nat /\ t.rec[i].ver \in Nat
  BY DEF ServerOK, ServerState, Row
<1>2. CASE t.rec[i] = s.rec[i]
  BY <1>2 DEF Matches
<1>3. CASE s.rec[i].ver < t.rec[i].ver
  BY <1>1, <1>3 DEF Matches
<1> QED  BY <1>2, <1>3 DEF Grows

LEMMA DoneAsOn ==
  ASSUME NEW s, ServerOK(s), NEW t, ServerOK(t), Grows(s, t), NEW o, o.id \in Id,
         o.opId \in OpId, DoneAs(s, o), t.applied[o.opId] = s.applied[o.opId]
  PROVE  DoneAs(t, o)
<1>1. s.applied[o.opId] \in Int
  BY DEF ServerOK, ServerState
<1> QED  BY <1>1, SaysOn DEF DoneAs

\* What is done of an operation is done of the same operation elsewhere.
LEMMA DoneAsSame ==
  ASSUME NEW s, NEW w, DoneAs(s, w), NEW o, o.opId = w.opId, o.id = w.id,
         o.action = w.action, o.action = "delete" \/ (o.base = w.base /\ o.data = w.data)
  PROVE  DoneAs(s, o)
BY DEF DoneAs, Says, Written

LEMMA LoggedGrows ==
  ASSUME NEW s, ServerOK(s), Honest(s), NEW i \in Id, NEW r \in Row,
         r.ver > s.rec[i].ver, r.data # NoData, NEW t, t = Logged(s, i, r)
  PROVE  /\ Grows(s, t) /\ Honest(t) /\ t.rec[i] = r
<1>1. /\ s.rec \in [Id -> Row] /\ s.log \in SUBSET Entry
  BY DEF ServerOK, ServerState
<1>2. t.rec = [s.rec EXCEPT ![i] = r]
  BY DEF Logged
<1>3. \A e \in t.log :
        \/ e \in s.log
        \/ e.id = i /\ e.ver = r.ver /\ (e.action = "tombstone" <=> r.deleted)
  BY DEF Logged
<1>4. t.rec[i] = r /\ \A j \in Id : j # i => t.rec[j] = s.rec[j]
  BY <1>1, <1>2
<1>5. Grows(s, t)
  BY <1>4 DEF Grows
<1>6. \A j \in Id : Found(t, j) => t.rec[j].data # NoData
  BY <1>4 DEF Honest, Found
<1>7. ASSUME NEW e \in t.log
      PROVE  /\ e.ver <= t.rec[e.id].ver
             /\ e.ver = t.rec[e.id].ver => (e.action = "tombstone" <=> t.rec[e.id].deleted)
  <2>1. CASE e \in s.log /\ e.id # i
    BY <1>1, <1>4, <2>1 DEF Honest, Entry
  <2>2. CASE e \in s.log /\ e.id = i
    <3>1. e.ver <= s.rec[i].ver /\ e.ver \in Nat /\ s.rec[i].ver \in Nat /\ r.ver \in Nat
      BY <1>1, <2>2 DEF Honest, Entry, Row
    <3> QED  BY <1>4, <2>2, <3>1
  <2>3. CASE e.id = i /\ e.ver = r.ver /\ (e.action = "tombstone" <=> r.deleted)
    BY <1>4, <2>3 DEF Row
  <2> QED  BY <1>3, <2>1, <2>2, <2>3
<1> QED  BY <1>4, <1>5, <1>6, <1>7 DEF Honest

LEMMA CascadedGrows ==
  ASSUME NEW s, ServerOK(s), Honest(s), NEW c, NEW order, NEW t, t = Cascaded(s, c, order)
  PROVE  Grows(s, t) /\ Honest(t)
<1> DEFINE G == Dependants(s, c)
<1>1. /\ s.rec \in [Id -> Row] /\ s.log \in SUBSET Entry
      /\ G \subseteq Id /\ \A i \in G : Found(s, i)
  BY DEF ServerOK, ServerState, Dependants, Live, Id
<1>2. /\ t.rec = [i \in Id |-> IF i \in G THEN Tombstoned(s, i) ELSE s.rec[i]]
      /\ \A e \in t.log :
           \/ e \in s.log
           \/ e.id \in G /\ e.ver = s.rec[e.id].ver + 1 /\ e.action = "tombstone"
  BY DEF Cascaded
<1> HIDE DEF G
<1>3. \A j \in Id : s.rec[j].ver \in Nat
  BY <1>1 DEF Row
<1>4. /\ \A j \in G : /\ t.rec[j].ver = s.rec[j].ver + 1 /\ t.rec[j].deleted
                      /\ t.rec[j].data = s.rec[j].data
      /\ \A j \in Id : j \notin G => t.rec[j] = s.rec[j]
  BY <1>1, <1>2 DEF Tombstoned
<1>5. Grows(s, t)
  <2>1. ASSUME NEW j \in Id  PROVE t.rec[j] = s.rec[j] \/ s.rec[j].ver < t.rec[j].ver
    <3>1. CASE j \in G
      BY <1>3, <1>4, <3>1
    <3>2. CASE j \notin G
      BY <1>4, <3>2
    <3> QED  BY <3>1, <3>2
  <2> QED  BY <2>1 DEF Grows
<1>6. ASSUME NEW j \in Id, Found(t, j)  PROVE t.rec[j].data # NoData
  <2>1. CASE j \in G
    BY <1>1, <1>4, <2>1 DEF Honest
  <2>2. CASE j \notin G
    BY <1>4, <1>6, <2>2 DEF Honest, Found
  <2> QED  BY <2>1, <2>2
<1>7. ASSUME NEW e \in t.log
      PROVE  /\ e.ver <= t.rec[e.id].ver
             /\ e.ver = t.rec[e.id].ver => (e.action = "tombstone" <=> t.rec[e.id].deleted)
  <2>1. CASE e \in s.log /\ e.id \notin G
    BY <1>1, <1>4, <2>1 DEF Honest, Entry
  <2>2. CASE e \in s.log /\ e.id \in G
    <3>1. e.ver <= s.rec[e.id].ver /\ e.ver \in Nat /\ e.id \in Id
      BY <1>1, <2>2 DEF Honest, Entry
    <3> QED  BY <1>3, <1>4, <2>2, <3>1
  <2>3. CASE e.id \in G /\ e.ver = s.rec[e.id].ver + 1 /\ e.action = "tombstone"
    <3>1. e.id \in Id /\ s.rec[e.id].ver \in Nat
      BY <1>1, <1>3, <2>3
    <3> QED  BY <1>4, <2>3, <3>1
  <2> QED  BY <1>2, <2>1, <2>2, <2>3
<1> QED  BY <1>5, <1>6, <1>7 DEF Honest

\* The answer a to the operation w is true of the server s.
Attests(a, w, s) ==
  /\ a.status = "applied" =>
       a.ver >= 1 /\ Says(s, w.id, a.ver, w.action = "delete", Written(w))
  /\ a.status = "conflict" =>
       /\ Says(s, w.id, a.state.ver, a.state.deleted, a.state.data)
       /\ a.code = "SYNC_DELETED_CONFLICT" => a.state.deleted

LEMMA AttestsOn ==
  ASSUME NEW s, ServerOK(s), NEW t, ServerOK(t), Grows(s, t), NEW w, w.id \in Id,
         NEW a \in Answer, Attests(a, w, s)
  PROVE  Attests(a, w, t)
<1>1. a.ver \in Int /\ a.state.ver \in Int
  <2>1. a.ver \in Nat /\ a.state \in Row
    BY DEF Answer
  <2> QED  BY <2>1 DEF Row
<1> QED  BY <1>1, SaysOn DEF Attests

LEMMA ConflictAttests ==
  ASSUME NEW s, ServerOK(s), Honest(s), NEW w, w.id \in Id, Found(s, w.id), NEW code,
         code = "SYNC_DELETED_CONFLICT" => s.rec[w.id].deleted
  PROVE  Attests(ConflictAnswer(s, w.id, code), w, s)
<1> DEFINE i == w.id
           a == ConflictAnswer(s, i, code)
<1>1. s.rec[i] \in Row /\ s.rec[i].ver \in Nat /\ s.rec[i].deleted \in BOOLEAN
  BY DEF ServerOK, ServerState, Row
<1>2. /\ a.status = "conflict" /\ a.code = code /\ a.state.ver = s.rec[i].ver
      /\ a.state.deleted = s.rec[i].deleted
      /\ ~ s.rec[i].deleted => a.state.data = s.rec[i].data
  BY <1>1 DEF ConflictAnswer, Live, Row
<1>3. ~ s.rec[i].deleted => s.rec[i].data # NoData
  BY DEF Honest
<1> HIDE DEF a
<1>4. Says(s, i, a.state.ver, a.state.deleted, a.state.data)
  BY <1>1, <1>2, <1>3 DEF Says
<1>5. Attests(a, w, s)
  BY <1>2, <1>4 DEF Attests
<1> QED  BY <1>5 DEF a

\* An operation is done: the server has grown and its answer is true.
Does(s, w, t, a) ==
  /\ Grows(s, t) /\ Honest(t) /\ t.applied = s.applied
  /\ Attests(a, w, t)

LEMMA DoesNothing ==
  ASSUME NEW s, Honest(s), NEW w, NEW a, Attests(a, w, s), NEW o, o = Outcome(s, a)
  PROVE  Does(s, w, o.srv, o.answer)
<1>1. o.srv = s /\ o.answer = a
  BY DEF Outcome
<1> QED  BY <1>1 DEF Does, Grows

LEMMA WritesGrow ==
  ASSUME NEW s, ServerOK(s), Honest(s), NEW w, w.id \in Id, w.action = "upsert",
         NEW v \in Nat, v > s.rec[w.id].ver, NEW data \in Payload, data = Written(w),
         NEW r, r = [ver |-> v, deleted |-> FALSE, data |-> data],
         NEW o, o = Outcome(Logged(s, w.id, r), AppliedAnswer(v))
  PROVE  Does(s, w, o.srv, o.answer)
<1> DEFINE i == w.id
           t == Logged(s, i, r)
           a == AppliedAnswer(v)
<1>0. o.srv = t /\ o.answer = a
  BY DEF Outcome
<1>1. r \in Row /\ r.ver = v /\ ~ r.deleted /\ r.data = data /\ data # NoData
      /\ r.deleted = FALSE
  BY NoDataAssumption DEF Row
<1>2. a.status = "applied" /\ a.ver = v
  BY DEF AppliedAnswer
<1>3. t.applied = s.applied
  BY DEF Logged
<1> HIDE DEF a
<1>4. Grows(s, t) /\ Honest(t) /\ t.rec[i] = r
  BY <1>1, LoggedGrows
<1> HIDE DEF t
<1>5. s.rec[i].ver \in Nat
  BY DEF ServerOK, ServerState, Row
<1>6. v >= 1 /\ (w.action = "delete") = FALSE
  BY <1>5
<1>7. Says(t, i, v, FALSE, Written(w))
  BY <1>1, <1>4 DEF Says
<1>8. Attests(a, w, t)
  BY <1>2, <1>6, <1>7 DEF Attests
<1> QED  BY <1>0, <1>3, <1>4, <1>8 DEF Does

LEMMA UpsertDoes ==
  ASSUME NEW s, ServerOK(s), Honest(s), NEW w, Valid(w), w.action = "upsert",
         Traced(s, w), NEW o, o = Upsert(s, w)
  PROVE  Does(s, w, o.srv, o.answer)
<1> DEFINE i == w.id
<1>0. /\ i \in Id /\ w.base \in Nat /\ s.rec[i] \in Row /\ w.data \in PayloadOf(i)
      /\ s.rec[i].ver \in Nat
  BY DEF Valid, ServerOK, ServerState, Row
<1>1. CASE o = Outcome(s, ErrorAnswer)
  <2>1. Attests(ErrorAnswer, w, s)
    BY DEF ErrorAnswer, Attests
  <2> QED  BY <1>1, <2>1, DoesNothing
<1>2. CASE w.base = 0 /\ o = Create(s, w)
  <2>1. CASE Found(s, i)
    <3>1. o = Outcome(s, ConflictAnswer(s, i, "SYNC_ALREADY_EXISTS"))
      BY <1>2, <2>1 DEF Create
    <3>2. Attests(ConflictAnswer(s, i, "SYNC_ALREADY_EXISTS"), w, s)
      BY <1>0, <2>1, ConflictAttests
    <3> QED  BY <3>1, <3>2, DoesNothing
  <2>2. CASE ~ Found(s, i)
    <3> DEFINE data == CreatedData(i, w.data)
    <3>1. data \in Payload
      BY <1>0, NewPayload DEF CreatedData, PayloadOf
    <3>2. data = Written(w)
      BY <1>2 DEF Written
    <3>3. o = Outcome(Logged(s, i, [ver |-> 1, deleted |-> FALSE, data |-> data]),
                      AppliedAnswer(1))
      BY <1>2, <2>2 DEF Create
    <3>4. 1 > s.rec[i].ver
      BY <1>0, <2>2 DEF Found
    <3> HIDE DEF data
    <3> QED  BY <1>0, <3>1, <3>2, <3>3, <3>4, WritesGrow
  <2> QED  BY <2>1, <2>2
<1>3. CASE w.base # 0 /\ o = Update(s, w)
  <2>1. Found(s, i)
    BY <1>3 DEF Traced
  <2>2. CASE s.rec[i].deleted
    <3>1. o = Outcome(s, ConflictAnswer(s, i, "SYNC_DELETED_CONFLICT"))
      BY <1>3, <2>1, <2>2 DEF Update
    <3>2. Attests(ConflictAnswer(s, i, "SYNC_DELETED_CONFLICT"), w, s)
      BY <1>0, <2>1, <2>2, ConflictAttests
    <3> QED  BY <3>1, <3>2, DoesNothing
  <2>3. CASE ~ s.rec[i].deleted /\ s.rec[i].ver # w.base
    <3>1. o = Outcome(s, ConflictAnswer(s, i, "SYNC_VERSION_CONFLICT"))
      BY <1>3, <2>1, <2>3 DEF Update
    <3>2. Attests(ConflictAnswer(s, i, "SYNC_VERSION_CONFLICT"), w, s)
      BY <1>0, <2>1, ConflictAttests
    <3> QED  BY <3>1, <3>2, DoesNothing
  <2>4. CASE ~ s.rec[i].deleted /\ s.rec[i].ver = w.base
    <3>1. o = Outcome(Logged(s, i, [ver |-> w.base + 1, deleted |-> FALSE,
                                    data |-> w.data]), AppliedAnswer(w.base + 1))
      BY <1>3, <2>1, <2>4 DEF Update
    <3>2. w.data \in Payload /\ w.data = Written(w)
      BY <1>0, <1>3 DEF Written, PayloadOf
    <3>3. w.base + 1 > s.rec[i].ver /\ w.base + 1 \in Nat
      BY <1>0, <2>4
    <3> QED  BY <1>0, <3>1, <3>2, <3>3, WritesGrow
  <2> QED  BY <2>2, <2>3, <2>4
<1> QED  BY <1>1, <1>2, <1>3 DEF Upsert

LEMMA DeleteDoes ==
  ASSUME NEW s, ServerOK(s), Honest(s), NEW w, Valid(w), w.action = "delete",
         Found(s, w.id), NEW order \in Orders, NEW o, o = Delete(s, w, order)
  PROVE  Does(s, w, o.srv, o.answer)
<1> DEFINE i == w.id
           r == Tombstoned(s, i)
           u == Logged(s, i, r)
           t == IF i \in Category /\ w.cascade THEN Cascaded(u, i, order) ELSE u
<1>0. /\ i \in Id /\ s.rec[i] \in Row /\ s.rec[i].ver \in Nat /\ s.rec[i].ver >= 1
      /\ s.rec[i].deleted \in BOOLEAN
  BY DEF Valid, ServerOK, ServerState, Row, Found
<1>1. CASE o = Outcome(s, ErrorAnswer)
  <2>1. Attests(ErrorAnswer, w, s)
    BY DEF ErrorAnswer, Attests
  <2> QED  BY <1>1, <2>1, DoesNothing
<1>2. CASE s.rec[i].deleted /\ o = Outcome(s, AppliedAnswer(s.rec[i].ver))
  <2> DEFINE a == AppliedAnswer(s.rec[i].ver)
  <2>1. a.status = "applied" /\ a.ver = s.rec[i].ver
    BY DEF AppliedAnswer
  <2>2. Says(s, i, s.rec[i].ver, TRUE, Written(w))
    BY <1>0, <1>2 DEF Says
  <2> HIDE DEF a
  <2>3. (w.action = "delete") = TRUE
    OBVIOUS
  <2>4. Attests(a, w, s)
    BY <1>0, <2>1, <2>2, <2>3 DEF Attests
  <2> QED  BY <1>2, <2>4, DoesNothing DEF a
<1>3. CASE o = Outcome(t, AppliedAnswer(s.rec[i].ver + 1))
  <2> DEFINE a == AppliedAnswer(s.rec[i].ver + 1)
  <2>1. o.srv = t /\ o.answer = a
    BY <1>3 DEF Outcome
  <2>2. a.status = "applied" /\ a.ver = s.rec[i].ver + 1
    BY DEF AppliedAnswer
  <2> HIDE DEF a
  <2>3. r \in Row /\ r.data \in Data(i) /\ r.ver = s.rec[i].ver + 1
    BY <1>0, TombstonedRow
  <2>4. r.deleted = TRUE /\ r.data # NoData
    BY <1>0 DEF Tombstoned, Honest
  <2> HIDE DEF r
  <2>5. r.ver > s.rec[i].ver /\ r.ver \in Int /\ r.ver >= 1
    BY <1>0, <2>3
  <2>6. ServerOK(u)
    BY <1>0, <2>3, LoggedMoves DEF Moves
  <2>7. Grows(s, u) /\ Honest(u) /\ u.rec[i] = r /\ u.applied = s.applied
    <3>1. u.applied = s.applied
      BY DEF Logged
    <3> QED  BY <1>0, <2>3, <2>4, <2>5, <3>1, LoggedGrows
  <2> HIDE DEF u
  <2>8. Says(u, i, r.ver, TRUE, Written(w))
    BY <2>3, <2>4, <2>7, <1>0 DEF Says
  <2>9. /\ Grows(s, t) /\ Honest(t) /\ t.applied = s.applied
        /\ Says(t, i, r.ver, TRUE, Written(w))
    <3>1. CASE i \in Category /\ w.cascade
      <4> DEFINE x == Cascaded(u, i, order)
      <4>0. t = x /\ x.applied = u.applied
        BY <3>1 DEF Cascaded
      <4>1. Grows(u, x) /\ Honest(x)
        BY <2>6, <2>7, CascadedGrows
      <4>2. ServerOK(x)
        BY <2>6, <3>1, CascadedMoves DEF Moves
      <4> HIDE DEF x
      <4>3. Grows(s, x)
        BY <2>6, <2>7, <4>1, <4>2, GrowsOn
      <4>4. Says(x, i, r.ver, TRUE, Written(w))
        BY <1>0, <2>5, <2>6, <2>8, <4>1, <4>2, SaysOn
      <4> HIDE DEF t
      <4> QED  BY <2>7, <4>0, <4>1, <4>3, <4>4
    <3>2. CASE ~ (i \in Category /\ w.cascade)
      BY <2>7, <2>8, <3>2
    <3> QED  BY <3>1, <3>2
  <2> HIDE DEF t
  <2>10. Attests(a, w, t)
    <3>1. (w.action = "delete") = TRUE
      OBVIOUS
    <3>2. a.ver = r.ver /\ a.ver >= 1
      BY <2>2, <2>3, <2>5
    <3>3. Says(t, i, a.ver, w.action = "delete", Written(w))
      BY <2>9, <3>1, <3>2
    <3> QED  BY <2>2, <3>2, <3>3 DEF Attests
  <2> QED  BY <2>1, <2>9, <2>10 DEF Does
<1>4. \/ o = Outcome(s, ErrorAnswer)
      \/ s.rec[i].deleted /\ o = Outcome(s, AppliedAnswer(s.rec[i].ver))
      \/ o = Outcome(t, AppliedAnswer(s.rec[i].ver + 1))
  BY DEF Delete
<1> HIDE DEF t
<1> QED  BY <1>1, <1>2, <1>3, <1>4

LEMMA RecordedDoes ==
  ASSUME NEW s, NEW w, w.opId \in OpId, NEW p, p.applied \in [OpId -> Int], NEW a,
         a.status = "applied", Does(s, w, p, a), NEW t, t = Recorded(p, w.opId, a.ver)
  PROVE  Grows(s, t) /\ Honest(t) /\ DoneAs(t, w) /\ Attests(a, w, t)
<1>1. /\ t.rec = p.rec /\ t.log = p.log
      /\ t.applied = [p.applied EXCEPT ![w.opId] = a.ver]
  BY DEF Recorded
<1>2. Grows(s, t)
  BY <1>1 DEF Does, Grows
<1>3. Honest(t)
  BY <1>1 DEF Does, Honest, Found
<1>4. a.ver >= 1 /\ Says(t, w.id, a.ver, w.action = "delete", Written(w))
  BY <1>1 DEF Does, Attests, Says
<1>5. t.applied[w.opId] = a.ver
  BY <1>1
<1>6. DoneAs(t, w)
  BY <1>4, <1>5 DEF DoneAs
<1>7. Attests(a, w, t)
  BY <1>4 DEF Attests
<1> QED  BY <1>2, <1>3, <1>6, <1>7

LEMMA ApplyDoes ==
  ASSUME NEW s, ServerOK(s), Honest(s), NEW w, Valid(w), Traced(s, w), DoneAs(s, w),
         w.action = "delete" => Found(s, w.id), NEW order \in Orders,
         NEW o, o = Apply(s, w, order)
  PROVE  /\ Grows(s, o.srv) /\ Honest(o.srv) /\ DoneAs(o.srv, w)
         /\ Attests(o.answer, w, o.srv)
<1>1. CASE s.applied[w.opId] # NotApplied
  <2> DEFINE a == AppliedAnswer(s.applied[w.opId])
  <2>1. o.srv = s /\ o.answer = a
    BY <1>1 DEF Apply, Outcome
  <2>2. a.status = "applied" /\ a.ver = s.applied[w.opId]
    BY DEF AppliedAnswer
  <2> HIDE DEF a
  <2>3. Attests(a, w, s)
    BY <1>1, <2>2 DEF DoneAs, Attests
  <2> QED  BY <2>1, <2>3 DEF Grows
<1>2. CASE s.applied[w.opId] = NotApplied
  <2> DEFINE p == Perform(s, w, order)
  <2>1. Does(s, w, p.srv, p.answer)
    <3>1. CASE w.action = "upsert"
      <4>1. p = Upsert(s, w)
        BY <3>1 DEF Perform
      <4> HIDE DEF p
      <4> QED  BY <3>1, <4>1, UpsertDoes
    <3>2. CASE w.action = "delete"
      <4>1. p = Delete(s, w, order)
        BY <3>2 DEF Perform
      <4> HIDE DEF p
      <4> QED  BY <3>2, <4>1, DeleteDoes
    <3> QED  BY <3>1, <3>2 DEF Valid
  <2>2. p.srv.applied \in [OpId -> Int] /\ w.opId \in OpId
    BY <2>1 DEF Does, ServerOK, ServerState, Valid
  <2>3. \/ /\ p.answer.status = "applied"
           /\ o.srv = Recorded(p.srv, w.opId, p.answer.ver) /\ o.answer = p.answer
        \/ p.answer.status # "applied" /\ o = p
    BY <1>2 DEF Apply, Outcome
  <2> HIDE DEF p
  <2>4. CASE p.answer.status = "applied"
             /\ o.srv = Recorded(p.srv, w.opId, p.answer.ver) /\ o.answer = p.answer
    BY <2>1, <2>2, <2>4, RecordedDoes
  <2>5. CASE p.answer.status # "applied" /\ o = p
    <3>1. DoneAs(p.srv, w)
      BY <1>2, <2>1 DEF Does, DoneAs
    <3> QED  BY <2>1, <2>5, <3>1 DEF Does
  <2> QED  BY <2>3, <2>4, <2>5
<1> QED  BY <1>1, <1>2

\* The operations of a batch under one id write the same.
Alike(batch, n) ==
  \A j, k \in 1..n : batch[j].opId = batch[k].opId /\ batch[j].action = "upsert"
                       => batch[j].data = batch[k].data

\* The operation w, as far as it is done, is done as it says.
Performed(s, w) == DoneAs(s, w) /\ (w.action = "delete" => Found(s, w.id))

LEMMA PerformedOn ==
  ASSUME NEW s, ServerOK(s), NEW t, ServerOK(t), Grows(s, t),
         OnServer(s) \subseteq OnServer(t), NEW w, Valid(w),
         Performed(s, w), t.applied[w.opId] = s.applied[w.opId]
  PROVE  Performed(t, w)
<1>1. DoneAs(t, w)
  BY DoneAsOn DEF Performed, Valid
<1> QED  BY <1>1 DEF Performed, OnServer, Valid

\* What a batch, or the first operations of one, has made of the server s.
Doing(s, t, batch, n, C) ==
  /\ Rooting(s, t, batch, n, C)
  /\ Grows(s, t) /\ Honest(t)
  /\ \A k \in 1..n : Performed(t, batch[k])

LEMMA DoingOn ==
  ASSUME NEW s, ServerOK(s), NEW t, NEW batch, NEW n, Batch(batch, n), Alike(batch, n), NEW C,
         Doing(s, t, batch, n, C),
         \A k \in 1..n : Creates(batch[k]) => batch[k].opId \in C[batch[k].id],
         NEW k \in 1..n, NEW order \in Orders, NEW o, o = Apply(t, batch[k], order)
  PROVE  /\ Doing(s, o.srv, batch, n, C) /\ Answers(o.answer, batch[k])
         /\ Grows(t, o.srv) /\ ServerOK(o.srv) /\ ServerOK(t) /\ Attests(o.answer, batch[k], o.srv)
<1> DEFINE w == batch[k]
<1>1. /\ ServerOK(t) /\ Valid(w) /\ Traced(t, w) /\ Performed(t, w) /\ Honest(t)
      /\ w.action = "upsert" => AppliedTo(t, w)
  BY DEF Doing, Rooting, Serves, Batch
<1>2. /\ Rooting(s, o.srv, batch, n, C) /\ Answers(o.answer, w)
      /\ OnServer(t) \subseteq OnServer(o.srv)
  BY RootingOn DEF Doing
<1>3. ApplyMoves(t, o.srv, o.answer, w)
  BY <1>1, ApplyFine
<1> HIDE DEF w
<1>4. /\ Grows(t, o.srv) /\ Honest(o.srv) /\ DoneAs(o.srv, w) /\ Attests(o.answer, w, o.srv)
  BY <1>1, ApplyDoes DEF Performed, w
<1>5. ServerOK(o.srv)
  BY <1>3 DEF ApplyMoves
<1>6. Grows(s, o.srv)
  BY <1>1, <1>4, <1>5, GrowsOn DEF Doing
<1>7. ASSUME NEW j \in 1..n  PROVE Performed(o.srv, batch[j])
  <2>1. Valid(batch[j]) /\ Performed(t, batch[j])
    BY DEF Batch, Doing
  <2>2. CASE batch[j].opId = w.opId
    <3>1. /\ batch[j].id = w.id /\ batch[j].action = w.action /\ batch[j].base = w.base
          /\ w.action = "upsert" => batch[j].data = w.data
      BY <2>2 DEF Batch, Alike, w
    <3>2. DoneAs(o.srv, batch[j])
      BY <1>1, <1>4, <2>2, <3>1, DoneAsSame DEF Valid
    <3>3. batch[j].action = "delete" => Found(o.srv, batch[j].id)
      BY <1>2, <2>1 DEF Performed, OnServer, Valid
    <3> QED  BY <3>2, <3>3 DEF Performed
  <2>3. CASE batch[j].opId # w.opId
    <3>1. o.srv.applied[batch[j].opId] = t.applied[batch[j].opId]
      BY <2>1, <2>3, <1>3 DEF ApplyMoves, Valid
    <3> QED  BY <1>1, <1>2, <1>4, <1>5, <2>1, <3>1, PerformedOn
  <2> QED  BY <2>2, <2>3
<1>8. Doing(s, o.srv, batch, n, C)
  BY <1>2, <1>4, <1>6, <1>7 DEF Doing
<1> QED  BY <1>1, <1>2, <1>4, <1>5, <1>8 DEF w

LEMMA AppliedDoes ==
  ASSUME NEW s, ServerOK(s), Grounded(s), Honest(s), NEW C, OneOrigin(C, s),
         NEW batch, NEW n, Batch(batch, n), Alike(batch, n),
         \A k \in 1..n : batch[k].action = "upsert" => AppliedTo(s, batch[k]),
         \A k \in 1..n : /\ Traced(s, batch[k]) /\ Performed(s, batch[k])
                         /\ Creates(batch[k]) => batch[k].opId \in C[batch[k].id],
         NEW order \in Orders, NEW r, r = Applied(s, batch, order)
  PROVE  /\ Doing(s, r.srv, batch, n, C)
         /\ \A k \in 1..n : Attests(r.answers[k], batch[k], r.srv)
<1> DEFINE X == {acc \in [srv : ServerState, answers : Seq(Answer)] :
                   Doing(s, acc.srv, batch, n, C)}
           Heeds(acc) == \A j \in 1..Len(acc.answers) : Attests(acc.answers[j], batch[j], acc.srv)
           Y == [k \in 0..n |-> {acc \in X : /\ Len(acc.answers) = k
                                             /\ Answering(acc.answers, batch) /\ Heeds(acc)}]
<1>0. n \in Nat /\ DOMAIN batch = 1..n
  BY DEF Batch
<1>1. Unanswered(s) \in X /\ Unanswered(s) \in Y[0]
  <2>1. Serves(s, s, batch, n) /\ s \in ServerState
    BY ServesSelf DEF ServerOK
  <2>2. Rooting(s, s, batch, n, C)
    BY <2>1, RootsSelf DEF Rooting
  <2>3. Doing(s, s, batch, n, C)
    BY <2>2 DEF Doing, Grows
  <2>4. <<>> \in Seq(Answer) /\ Len(<<>>) = 0 /\ Answering(<<>>, batch) /\ 0 \in 0..n
    BY <1>0 DEF Answering
  <2> QED  BY <2>1, <2>3, <2>4 DEF Unanswered
<1>2. ASSUME NEW acc \in X, NEW k \in 1..n
      PROVE  /\ Onto(acc, batch[k], order) \in X
             /\ acc \in Y[k - 1] => Onto(acc, batch[k], order) \in Y[k]
  <2> DEFINE o == Apply(acc.srv, batch[k], order)
             nxt == Onto(acc, batch[k], order)
  <2>1. acc.srv \in ServerState /\ acc.answers \in Seq(Answer)
        /\ Doing(s, acc.srv, batch, n, C)
    OBVIOUS
  <2>2. nxt.srv = o.srv /\ nxt.answers = Append(acc.answers, o.answer)
        /\ nxt = [srv |-> nxt.srv, answers |-> nxt.answers]
    BY DEF Onto
  <2> HIDE DEF X, Heeds
  <2>3. /\ Doing(s, o.srv, batch, n, C) /\ Answers(o.answer, batch[k])
        /\ Grows(acc.srv, o.srv) /\ ServerOK(o.srv) /\ ServerOK(acc.srv)
        /\ Attests(o.answer, batch[k], o.srv)
    <3> HIDE DEF o
    <3> QED  BY <2>1, DoingOn DEF o
  <2> HIDE DEF o, nxt
  <2>4. o.srv \in ServerState /\ o.answer \in Answer
    BY <2>3 DEF ServerOK, Answers
  <2>5. nxt \in X
    <3>1. nxt.answers \in Seq(Answer)
      BY <2>1, <2>2, <2>4
    <3> QED  BY <2>2, <2>3, <2>4, <3>1 DEF X
  <2>6. ASSUME acc \in Y[k - 1]  PROVE nxt \in Y[k]
    <3>1. k - 1 \in 0..n /\ k \in 0..n /\ (k - 1) + 1 = k
      BY <1>0
    <3>2. Len(acc.answers) = k - 1 /\ Answering(acc.answers, batch) /\ Heeds(acc)
      BY <2>6, <3>1
    <3>3. /\ Answering(nxt.answers, batch) /\ Len(nxt.answers) = k
          /\ \A j \in 1..(k - 1) : nxt.answers[j] = acc.answers[j]
          /\ nxt.answers[k] = o.answer
      BY <2>2, <2>3, <3>1, <3>2, AnsweringOn
    <3>4. ASSUME NEW j \in 1..k  PROVE Attests(nxt.answers[j], batch[j], nxt.srv)
      <4>1. CASE j = k
        BY <2>2, <2>3, <3>3, <4>1
      <4>2. CASE j \in 1..(k - 1)
        <5>1. Attests(acc.answers[j], batch[j], acc.srv) /\ acc.answers[j] \in Answer
          BY <2>1, <3>2, <4>2 DEF Heeds
        <5>2. batch[j].id \in Id
          BY <1>0 DEF Batch, Valid
        <5>3. Attests(acc.answers[j], batch[j], o.srv)
          BY <5>1, <5>2, <2>3, AttestsOn
        <5> QED  BY <5>3, <4>2, <2>2, <3>3
      <4> QED  BY <4>1, <4>2
    <3>5. Heeds(nxt)
      BY <3>3, <3>4 DEF Heeds
    <3> QED  BY <2>5, <3>1, <3>3, <3>5
  <2> QED  BY <2>5, <2>6 DEF nxt
<1>3. r \in X /\ r \in Y[n]
  <2> HIDE DEF X, Y
  <2>1. \A acc \in X : \A k \in 1..n : Onto(acc, batch[k], order) \in X
    BY <1>2
  <2>2. \A k \in 1..n : \A acc \in X :
          acc \in Y[k - 1] => Onto(acc, batch[k], order) \in Y[k]
    BY <1>2
  <2>3. Applied(s, batch, order) \in X /\ Applied(s, batch, order) \in Y[n]
    BY <1>0, <1>1, <2>1, <2>2, AppliedFold
  <2> QED  BY <2>3
<1>4. n \in 0..n
  BY <1>0
<1>5. Len(r.answers) = n /\ Heeds(r) /\ Doing(s, r.srv, batch, n, C)
  BY <1>3, <1>4
<1> QED  BY <1>5

-----------------------------------------------------------------------------
(* What devices hold and messages carry is true of the server.            *)

\* A pulled change says what was so.
ChangeSays(s, ch) == Says(s, ch.id, ch.ver, ch.action = "tombstone", ch.data)

\* What the device holds, and what is under way of it, is true of the server.
Speaks(D, N, L, s, plain) ==
  /\ Candid(D, s, plain)
  /\ \A w \in Wires(N, L) : Performed(s, w) /\ Quotes(D, w)
  /\ \A v, w \in Wires(N, L) : v.opId = w.opId /\ v.action = "upsert" => v.data = w.data
  /\ \A k \in DOMAIN N.page : ChangeSays(s, N.page[k])
  /\ N.phase = "pushed" =>
       \A k \in DOMAIN N.batch : Attests(N.answers[k], N.batch[k], s)

LEMMA CandidOn ==
  ASSUME NEW d, NEW D, D \in DeviceState(d), NEW s, ServerOK(s), NEW t, ServerOK(t),
         Grows(s, t), NEW plain, Candid(D, s, plain),
         \A k \in DOMAIN D.out : D.out[k].sent => DoneAs(t, D.out[k])
  PROVE  Candid(D, t, plain)
<1>1. \A i \in Id : D.row[i].sv \in Int /\ D.conf[i].state.ver \in Int
  BY DEF DeviceState, LocalRow, ConflictRow, Row
<1>2. ASSUME NEW i \in Id  PROVE JustAt(D, t, plain, i)
  <2> DEFINE r == D.row[i]
             c == D.conf[i]
             Q == Queue(D, i)
             F == Lasts(D, i)
             H == Heads(D, i)
  <2>1. Just(s, plain, i, r, c, Q, F, H)
    BY DEF Candid, JustAt
  <2>2. \A o \in Q : o.sent => DoneAs(t, o)
    BY DEF Queue, OpsOf
  <2>3. r.sv \in Int /\ c.state.ver \in Int
    BY <1>1
  <2> HIDE DEF r, c, Q, F, H
  <2>4. r.data # NoData /\ r.ver = r.sv => Matches(t, i, r.sv, r.deleted, r.data, plain)
    BY <2>1, <2>3, MatchesOn DEF Just
  <2>5. c.kind = "version" => Says(t, i, c.state.ver, c.state.deleted, c.state.data)
    BY <2>1, <2>3, SaysOn DEF Just
  <2>6. Just(t, plain, i, r, c, Q, F, H)
    BY <2>1, <2>2, <2>4, <2>5 DEF Just
  <2> QED  BY <2>6 DEF JustAt, r, c, Q, F, H
<1> QED  BY <1>2 DEF Candid

\* The server has moved on, and still does what the device has sent.
LEMMA ServerSpeaks ==
  ASSUME NEW d \in Device, NEW D, NEW N, NEW L, NEW c, NEW s, NEW b,
         DeviceOK(d, D, N, L, c, s, b), NEW plain, Speaks(D, N, L, s, plain),
         ServerOK(s), NEW t, ServerOK(t), Grows(s, t),
         \A k \in DOMAIN D.out : D.out[k].sent => DoneAs(t, D.out[k]),
         \A w \in Wires(N, L) : Performed(t, w)
  PROVE  Speaks(D, N, L, t, plain)
<1>1. Candid(D, t, plain)
  BY DeviceParts, CandidOn DEF Speaks
<1>2. ASSUME NEW k \in DOMAIN N.page  PROVE ChangeSays(t, N.page[k])
  <2>1. N.page[k].id \in Id /\ N.page[k].ver \in Int
    BY DEF DeviceOK, Pullable, PulledChange
  <2>2. ChangeSays(s, N.page[k])
    BY DEF Speaks
  <2> QED  BY <2>1, <2>2, SaysOn DEF ChangeSays
<1>3. ASSUME N.phase = "pushed", NEW k \in DOMAIN N.batch
      PROVE  Attests(N.answers[k], N.batch[k], t)
  <2>1. N.batch[k] \in Wires(N, L)
    BY DEF Wires, Range
  <2>2. N.batch[k].id \in Id
    BY <2>1, DeviceParts DEF Valid
  <2>3. N.answers[k] \in Answer
    BY <1>3 DEF DeviceOK, AsAnswered, Answers
  <2>4. Attests(N.answers[k], N.batch[k], s)
    BY <1>3 DEF Speaks
  <2> QED  BY <2>2, <2>3, <2>4, AttestsOn
<1> QED  BY <1>1, <1>2, <1>3 DEF Speaks

LEMMA OthersSpeak ==
  ASSUME NEW d \in Device, NEW D, NEW N, NEW L, NEW c, NEW s, NEW b,
         DeviceOK(d, D, N, L, c, s, b), NEW plain, Speaks(D, N, L, s, plain),
         ServerOK(s), NEW t, ServerOK(t), Grows(s, t), OnServer(s) \subseteq OnServer(t),
         \A o \in OpId : o[1] = d => t.applied[o] = s.applied[o]
  PROVE  Speaks(D, N, L, t, plain)
<1>1. ASSUME NEW k \in DOMAIN D.out, D.out[k].sent  PROVE DoneAs(t, D.out[k])
  <2>1. /\ D.out[k].id \in Id /\ D.out[k].opId \in OpId
        /\ t.applied[D.out[k].opId] = s.applied[D.out[k].opId]
    BY DeviceParts DEF PendingOp
  <2>2. D.out[k] \in Queue(D, D.out[k].id)
    BY DEF Queue, OpsOf
  <2>3. DoneAs(s, D.out[k])
    BY <1>1, <2>1, <2>2 DEF Speaks, Candid, JustAt, Just
  <2> QED  BY <2>1, <2>3, DoneAsOn
<1>2. ASSUME NEW w \in Wires(N, L)  PROVE Performed(t, w)
  <2>1. Valid(w) /\ w.opId[1] = d
    BY DeviceParts
  <2>2. t.applied[w.opId] = s.applied[w.opId]
    BY <2>1 DEF Valid
  <2>3. Performed(s, w)
    BY DEF Speaks
  <2> QED  BY <2>1, <2>2, <2>3, PerformedOn
<1> QED  BY <1>1, <1>2, ServerSpeaks

\* A transaction of the device's own.
LEMMA LedSpeaks ==
  ASSUME NEW d \in Device, NEW D, NEW N, NEW L, NEW c, NEW s, NEW b,
         DeviceOK(d, D, N, L, c, s, b), NEW plain, Speaks(D, N, L, s, plain),
         NEW E, NEW M, Leads(D, E, d, M), Candid(E, s, plain)
  PROVE  Speaks(E, N, L, s, plain)
<1>0. /\ D.made \in Nat /\ Follows(D, E)
      /\ \A k \in DOMAIN E.out : E.out[k].sent \in BOOLEAN
      /\ \A k \in DOMAIN D.out : D.out[k].sent \in BOOLEAN
  <2>1. E \in DeviceState(d) /\ Follows(D, E)
    BY DEF Leads, Fine
  <2>2. \A k \in DOMAIN E.out : E.out[k].sent \in BOOLEAN
    BY <2>1, OutFacts DEF PendingOp
  <2> QED  BY <2>1, <2>2, DeviceParts
<1>1. ASSUME NEW w \in Wires(N, L)  PROVE Quotes(E, w)
  <2>1. SentAsIs(D, w) /\ Quotes(D, w) /\ w.opId[2] \in 1..D.made
    BY DEF DeviceOK, Speaks, SentAsIs
  <2>2. ASSUME w.action = "upsert", NEW k \in DOMAIN E.out, E.out[k].opId = w.opId
        PROVE  E.out[k].data = w.data
    <3>1. PICK j \in DOMAIN D.out : SameOp(E.out[k], D.out[j])
      BY <1>0, <2>1, <2>2 DEF Follows
    <3>2. D.out[j].opId = w.opId
      BY <2>2, <3>1 DEF SameOp
    <3>3. D.out[j].sent /\ D.out[j].data = w.data
      BY <2>1, <2>2, <3>2 DEF SentAsIs, Quotes
    <3> QED  BY <1>0, <3>1, <3>3 DEF SameOp
  <2> QED  BY <2>2 DEF Quotes
<1> QED  BY <1>1 DEF Speaks

\* The engine stops awaiting, or awaits a page.
LEMMA OverSpeaks ==
  ASSUME NEW D, NEW N, NEW L, NEW s, NEW plain, Speaks(D, N, L, s, plain),
         NEW R \in {Idle, Pulling}, NEW K \in {L, N.batch, <<>>}
  PROVE  Speaks(D, R, K, s, plain)
<1>1. R.batch = <<>> /\ R.page = <<>> /\ R.phase # "pushed"
  <2>1. CASE R = Idle
    BY <2>1 DEF Idle
  <2>2. CASE R = Pulling
    BY <2>2 DEF Idle, Pulling
  <2> QED  BY <2>1, <2>2
<1>2. Wires(R, K) \subseteq Wires(N, L)
  BY <1>1 DEF Wires, Range
<1>3. DOMAIN R.page = {}
  BY <1>1
<1> QED  BY <1>1, <1>2, <1>3 DEF Speaks

\* The engine sends the batch it has selected, or goes on to pull.
LEMMA SendingSpeaks ==
  ASSUME NEW d \in Device, NEW D, NEW N, NEW L, NEW c, NEW s, NEW b,
         DeviceOK(d, D, N, L, c, s, b), Traces(D, N, L, s), ServerOK(s),
         NEW plain, Speaks(D, N, L, s, plain), NEW due,
         NEW E, NEW batch, E = Selected(D, due).dev, batch = Selected(D, due).batch,
         NEW R \in {Pulling, Pushing(batch)}
  PROVE  Speaks(E, R, L, s, plain)
<1>0. Fine(D, d) /\ D \in DeviceState(d) /\ Rooted(D, OnServer(s)) /\ Candid(D, s, plain)
  BY DEF DeviceOK, Fine, Traces, Speaks
<1>1. Selects(D, E, batch, d)
  <2>1. Selects(D, Selected(D, due).dev, Selected(D, due).batch, d)
    BY <1>0, SelectedFine
  <2> QED  BY <2>1
<1>2. \A k \in DOMAIN D.out : ~ D.out[k].sent => s.applied[D.out[k].opId] = NotApplied
  BY DEF DeviceOK, SeenByServer
<1>3. /\ Candid(E, s, plain)
      /\ \A n \in DOMAIN batch :
           /\ DoneAs(s, batch[n]) /\ Quotes(E, batch[n])
           /\ batch[n].action = "delete" => D.row[batch[n].id].sv # 0
  BY <1>0, <1>2, SelectedCandid
<1>4. ASSUME NEW w \in Range(batch)
      PROVE  /\ Performed(s, w) /\ Quotes(E, w)
             /\ \E k \in DOMAIN E.out : E.out[k].opId = w.opId
  <2>1. PICK n \in DOMAIN batch : w = batch[n]
    BY DEF Range
  <2>2. batch[n] \in WireOp(d)
    BY <1>1 DEF Selects
  <2>3. w.id \in Id /\ D.row[w.id].sv \in Nat
    BY <1>0, <2>1, <2>2 DEF WireOp, DeviceState, LocalRow
  <2>4. w.action = "delete" => Found(s, w.id)
    BY <1>0, <1>3, <2>1, <2>3 DEF Rooted, OnServer
  <2>5. \E k \in DOMAIN E.out : E.out[k].opId = w.opId
    BY <1>1, <2>1 DEF Selects
  <2> QED  BY <1>3, <2>1, <2>4, <2>5 DEF Performed
<1>5. ASSUME NEW w \in Range(L)  PROVE Performed(s, w) /\ Quotes(E, w)
  <2>0. w \in Wires(N, L)
    BY DEF Wires
  <2>1. SentAsIs(D, w) /\ Quotes(D, w) /\ Performed(s, w)
    BY <2>0 DEF DeviceOK, Speaks
  <2>2. ASSUME w.action = "upsert", NEW k \in DOMAIN E.out, E.out[k].opId = w.opId
        PROVE  E.out[k].data = w.data
    <3>1. PICK j \in DOMAIN D.out :
            /\ E.out[k].opId = D.out[j].opId
            /\ D.out[j].sent => SameOp(E.out[k], D.out[j])
      BY <1>1 DEF Selects
    <3>2. D.out[j].sent /\ D.out[j].data = w.data
      BY <2>1, <2>2, <3>1 DEF SentAsIs, Quotes
    <3>3. E.out[k].sent \in BOOLEAN /\ D.out[j].sent \in BOOLEAN
      <4>1. E \in DeviceState(d)
        BY <1>1 DEF Selects, Fine
      <4> QED  BY <1>0, <4>1, OutFacts DEF PendingOp
    <3> QED  BY <3>1, <3>2, <3>3 DEF SameOp
  <2> QED  BY <2>1, <2>2 DEF Quotes
<1>6. DOMAIN R.page = {} /\ R.phase # "pushed" /\ Range(R.batch) \subseteq Range(batch)
  <2>1. CASE R = Pulling
    BY <2>1 DEF Pulling, Idle, Range
  <2>2. CASE R = Pushing(batch)
    BY <2>2 DEF Pushing, Idle
  <2> QED  BY <2>1, <2>2
<1>7. Wires(R, L) \subseteq Range(batch) \cup Range(L) /\ Range(L) \subseteq Wires(N, L)
  BY <1>6 DEF Wires
<1>8. ASSUME NEW v \in Wires(R, L), NEW w \in Wires(R, L), v.opId = w.opId, v.action = "upsert"
      PROVE  v.data = w.data
  <2>1. CASE v \in Range(L) /\ w \in Range(L)
    BY <1>7, <1>8, <2>1 DEF Speaks
  <2>2. CASE v \in Range(batch) \/ w \in Range(batch)
    <3>1. PICK k \in DOMAIN E.out : E.out[k].opId = v.opId
      BY <1>4, <1>8, <2>2
    <3>2. DeviceOK(d, E, R, L, c, s, b)
      BY <1>1, SendingOn
    <3>3. w.action = "upsert"
      BY <1>8, <3>2 DEF DeviceOK
    <3>4. Quotes(E, v) /\ Quotes(E, w)
      BY <1>4, <1>5, <1>7
    <3> QED  BY <1>8, <3>1, <3>3, <3>4 DEF Quotes
  <2> QED  BY <1>7, <2>1, <2>2
<1>9. \A w \in Wires(R, L) : Performed(s, w) /\ Quotes(E, w)
  BY <1>4, <1>5, <1>7
<1> QED  BY <1>3, <1>6, <1>8, <1>9 DEF Speaks

\* A batch of the device arrives at the server.
LEMMA ServedSpeaks ==
  ASSUME NEW d \in Device, NEW D, NEW N, NEW L, NEW c, NEW s, NEW b,
         DeviceOK(d, D, N, L, c, s, b), Traces(D, N, L, s), ServerOK(s), Grounded(s),
         Honest(s), NEW plain, Speaks(D, N, L, s, plain),
         NEW C, OneOrigin(C, s), \A i \in Id : Creating(D, N, L, i) \subseteq C[i],
         NEW batch \in {N.batch, L}, NEW order \in Orders,
         NEW r, r = Applied(s, batch, order)
  PROVE  /\ Grows(s, r.srv) /\ Honest(r.srv) /\ Speaks(D, N, L, r.srv, plain)
         /\ \A k \in DOMAIN batch : Attests(r.answers[k], batch[k], r.srv)
<1> DEFINE n == Len(batch)
<1>1. /\ Batch(batch, n) /\ DOMAIN batch = 1..n
      /\ \A k \in 1..n : /\ batch[k] \in Wires(N, L)
                         /\ batch[k].action = "upsert" => AppliedTo(s, batch[k])
  BY UnderWay
<1> HIDE DEF n
<1>2. \A w \in Wires(N, L) : Valid(w) /\ w.id \in Id /\ w.opId \in OpId /\ Traced(s, w)
                             /\ Performed(s, w) /\ Quotes(D, w)
  BY DeviceParts DEF Valid, Traces, Speaks
<1>3. \A k \in 1..n : /\ Traced(s, batch[k]) /\ Performed(s, batch[k])
                      /\ Creates(batch[k]) => batch[k].opId \in C[batch[k].id]
  BY <1>1, <1>2 DEF Creating
<1>4. Alike(batch, n)
  BY <1>1 DEF Alike, Speaks
<1>5. /\ Doing(s, r.srv, batch, n, C)
      /\ \A k \in 1..n : Attests(r.answers[k], batch[k], r.srv)
  BY <1>1, <1>3, <1>4, AppliedDoes
<1> DEFINE t == r.srv
<1>6. /\ Grows(s, t) /\ Honest(t) /\ ServerOK(t) /\ OnServer(s) \subseteq OnServer(t)
      /\ \A k \in 1..n : Performed(t, batch[k])
      /\ \A o \in OpId : (\A k \in 1..n : batch[k].opId # o) => t.applied[o] = s.applied[o]
  BY <1>5 DEF Doing, Rooting, Serves, Roots
<1> HIDE DEF t
<1>7. ASSUME NEW w \in Wires(N, L)  PROVE Performed(t, w)
  <2>1. CASE \E k \in 1..n : batch[k].opId = w.opId
    <3>1. PICK k \in 1..n : batch[k].opId = w.opId
      BY <2>1
    <3>2. /\ batch[k].id = w.id /\ batch[k].action = w.action /\ batch[k].base = w.base
      BY <1>1, <3>1 DEF DeviceOK
    <3>3. w.action = "upsert" => batch[k].data = w.data
      BY <1>1, <3>1, <3>2 DEF Speaks
    <3>4. Performed(t, batch[k]) /\ w.action \in {"upsert", "delete"}
      BY <1>2, <1>6 DEF Valid
    <3>5. DoneAs(t, w)
      BY <3>1, <3>2, <3>3, <3>4, DoneAsSame DEF Performed
    <3> QED  BY <3>2, <3>4, <3>5 DEF Performed
  <2>2. CASE \A k \in 1..n : batch[k].opId # w.opId
    <3>1. t.applied[w.opId] = s.applied[w.opId]
      BY <1>2, <1>6, <2>2
    <3> QED  BY <1>2, <1>6, <3>1, PerformedOn
  <2> QED  BY <2>1, <2>2
<1>8. ASSUME NEW k \in DOMAIN D.out, D.out[k].sent  PROVE DoneAs(t, D.out[k])
  <2>0. D.out[k].opId \in OpId /\ D.out[k].id \in Id /\ D.out[k].action \in {"upsert", "delete"}
    BY DeviceParts DEF PendingOp
  <2>1. CASE \E j \in 1..n : batch[j].opId = D.out[k].opId
    <3>1. PICK j \in 1..n : batch[j].opId = D.out[k].opId
      BY <2>1
    <3>2. SentAsIs(D, batch[j]) /\ Quotes(D, batch[j])
      BY <1>1, <1>2 DEF DeviceOK
    <3>3. /\ D.out[k].id = batch[j].id /\ D.out[k].action = batch[j].action
          /\ D.out[k].base = batch[j].base
          /\ D.out[k].action = "upsert" => D.out[k].data = batch[j].data
      BY <3>1, <3>2 DEF SentAsIs, Quotes
    <3>4. DoneAs(t, batch[j])
      BY <1>6 DEF Performed
    <3> QED  BY <2>0, <3>1, <3>3, <3>4, DoneAsSame
  <2>2. CASE \A j \in 1..n : batch[j].opId # D.out[k].opId
    <3>1. t.applied[D.out[k].opId] = s.applied[D.out[k].opId]
      BY <1>6, <2>0, <2>2
    <3>2. D.out[k] \in Queue(D, D.out[k].id)
      BY DEF Queue, OpsOf
    <3>3. DoneAs(s, D.out[k])
      BY <1>8, <2>0, <3>2 DEF Speaks, Candid, JustAt, Just
    <3> QED  BY <1>6, <2>0, <3>1, <3>3, DoneAsOn
  <2> QED  BY <2>1, <2>2
<1>9. Speaks(D, N, L, t, plain)
  BY <1>6, <1>7, <1>8, ServerSpeaks
<1> QED  BY <1>1, <1>5, <1>6, <1>9 DEF t

LEMMA AnsweredSpeaks ==
  ASSUME NEW D, NEW N, NEW L, NEW s, NEW plain, Speaks(D, N, L, s, plain), NEW answers,
         \A k \in DOMAIN N.batch : Attests(answers[k], N.batch[k], s),
         NEW R, R.batch = N.batch, R.page = N.page, R.answers = answers
  PROVE  Speaks(D, R, L, s, plain)
BY DEF Speaks, Wires

LEMMA PageSpeaks ==
  ASSUME NEW D, NEW N, NEW L, NEW s, NEW plain, Speaks(D, N, L, s, plain),
         NEW R, R.batch = N.batch, R.phase # "pushed",
         \A k \in DOMAIN R.page : ChangeSays(s, R.page[k])
  PROVE  Speaks(D, R, L, s, plain)
BY DEF Speaks, Wires

LEMMA ChangesSay ==
  ASSUME NEW s, ServerOK(s), Honest(s), Grounded(s), NEW c, NEW k \in DOMAIN Changes(s, c)
  PROVE  ChangeSays(s, Changes(s, c)[k])
<1> DEFINE ch == Changes(s, c)[k]
<1>1. PICK e \in s.log : Reports(ch, e, s)
  BY ChangesFacts
<1> HIDE DEF ch
<1>2. e.id \in Id /\ e.action \in {"upsert", "tombstone"} /\ s.rec[e.id].deleted \in BOOLEAN
  BY DEF ServerOK, ServerState, Entry, Row
<1>3. s.rec[e.id].data # NoData
  BY <1>2 DEF Honest, Grounded
<1>4. /\ e.ver <= s.rec[e.id].ver
      /\ e.ver = s.rec[e.id].ver => (e.action = "tombstone" <=> s.rec[e.id].deleted)
  BY DEF Honest
<1>5. /\ ch.id = e.id /\ ch.ver = e.ver /\ ch.action = e.action
      /\ e.action = "upsert" => ch.data = s.rec[e.id].data
  BY <1>1 DEF Reports
<1>6. Says(s, e.id, e.ver, e.action = "tombstone", ch.data)
  BY <1>2, <1>3, <1>4, <1>5 DEF Says
<1>7. ChangeSays(s, ch)
  BY <1>5, <1>6 DEF ChangeSays
<1> QED  BY <1>7 DEF ch

\* The answers to the device's push say what is so.
LEMMA AnswersTruthful ==
  ASSUME NEW d \in Device, NEW D, NEW N, NEW L, NEW c, NEW s, NEW b,
         DeviceOK(d, D, N, L, c, s, b), Traces(D, N, L, s), N.phase = "pushed",
         NEW plain, Speaks(D, N, L, s, plain)
  PROVE  Truthful(D, N.batch, N.answers, Len(N.batch), s)
<1> DEFINE batch == N.batch
           answers == N.answers
           n == Len(batch)
<1>1. /\ n \in Nat /\ DOMAIN batch = 1..n
      /\ Trusted(D, batch, answers, n, OnServer(s))
  BY AnswersTrusted
<1>2. \A k \in 1..n : batch[k] \in Wires(N, L) /\ Attests(answers[k], batch[k], s)
  BY <1>1 DEF Speaks, Wires, Range
<1> HIDE DEF batch, answers, n
<1>4. ASSUME NEW k \in 1..n
      PROVE  /\ answers[k].status = "conflict" =>
                  LET t == answers[k].state
                  IN  /\ Says(s, batch[k].id, t.ver, t.deleted, t.data)
                      /\ answers[k].code = "SYNC_DELETED_CONFLICT" => t.deleted
             /\ answers[k].status = "applied" =>
                  /\ answers[k].ver >= 1
                  /\ \A j \in DOMAIN D.out : D.out[j].opId = batch[k].opId =>
                       LET o == D.out[j]
                       IN  Says(s, o.id, answers[k].ver, o.action = "delete", Written(o))
  <2>1. Attests(answers[k], batch[k], s)
    BY <1>2
  <2>2. ASSUME answers[k].status = "applied", NEW j \in DOMAIN D.out,
               D.out[j].opId = batch[k].opId
        PROVE  LET o == D.out[j]
               IN  Says(s, o.id, answers[k].ver, o.action = "delete", Written(o))
    <3>1. SentAsIs(D, batch[k]) /\ Quotes(D, batch[k])
      BY <1>2 DEF DeviceOK, Speaks
    <3>2. /\ D.out[j].id = batch[k].id /\ D.out[j].action = batch[k].action
          /\ D.out[j].base = batch[k].base
          /\ batch[k].action = "upsert" => D.out[j].data = batch[k].data
          /\ batch[k].action \in {"upsert", "delete"}
      BY <2>2, <3>1 DEF SentAsIs, Quotes, Valid
    <3>3. Says(s, batch[k].id, answers[k].ver, batch[k].action = "delete", Written(batch[k]))
      BY <2>1, <2>2 DEF Attests
    <3> DEFINE w == batch[k]
               o == D.out[j]
    <3>4. CASE w.action = "delete"
      BY <3>2, <3>3, <3>4 DEF Says
    <3>5. CASE w.action = "upsert"
      <4>1. Written(o) = Written(w)
        BY <3>2, <3>5 DEF Written
      <4> QED  BY <3>2, <3>3, <4>1
    <3> QED  BY <3>2, <3>4, <3>5
  <2> QED  BY <2>1, <2>2 DEF Attests
<1>5. Truthful(D, batch, answers, n, s)
  BY <1>4 DEF Truthful
<1> QED  BY <1>5 DEF batch, answers, n

\* The device takes the results in.
LEMMA ResultsSpeak ==
  ASSUME NEW d \in Device, NEW D, NEW N, NEW L, NEW c, NEW s, NEW b,
         DeviceOK(d, D, N, L, c, s, b), Traces(D, N, L, s), N.phase = "pushed",
         NEW plain, Speaks(D, N, L, s, plain), NEW E, E = PushTakenIn(D, N.batch, N.answers)
  PROVE  Speaks(E, N, L, s, plain)
<1> DEFINE batch == N.batch
           answers == N.answers
           n == Len(batch)
<1>1. /\ n \in Nat /\ DOMAIN batch = 1..n
      /\ Trusted(D, batch, answers, n, OnServer(s))
  BY AnswersTrusted
<1>2. Truthful(D, batch, answers, n, s)
  BY AnswersTruthful
<1>3. E = PushTakenIn(D, batch, answers)
  OBVIOUS
<1> HIDE DEF batch, answers, n
<1>4. Candid(E, s, plain)
  BY <1>1, <1>2, <1>3, PushTakenInCandid DEF DeviceOK, Speaks
<1>5. Leads(D, E, d, {})
  BY <1>3, ResultsTakenIn DEF batch, answers
<1> QED  BY <1>4, <1>5, LedSpeaks

\* The device takes the page in.
LEMMA PageTakenSpeaks ==
  ASSUME NEW d \in Device, NEW D, NEW N, NEW L, NEW c, NEW s, NEW b,
         DeviceOK(d, D, N, L, c, s, b), Traces(D, N, L, s),
         NEW plain, Speaks(D, N, L, s, plain), NEW E, E = PageTakenIn(D, N.page)
  PROVE  Speaks(E, N, L, s, plain)
<1> DEFINE page == N.page
           n == Len(page)
<1>1. /\ n \in Nat /\ DOMAIN page = 1..n
      /\ \A k \in 1..n : /\ page[k] \in PulledChange /\ page[k].data \in Data(page[k].id)
                         /\ page[k].ver >= 1
                         /\ Says(s, page[k].id, page[k].ver, page[k].action = "tombstone",
                                 page[k].data)
  <2>1. page \in Seq(PulledChange) /\ n \in Nat /\ DOMAIN page = 1..n
    BY DEF DeviceOK, Request
  <2>2. \A k \in 1..n : Pullable(page[k], s) /\ page[k].ver >= 1 /\ ChangeSays(s, page[k])
    BY <2>1 DEF DeviceOK, Traces, Speaks
  <2> QED  BY <2>1, <2>2 DEF Pullable, ChangeSays
<1> HIDE DEF n, page
<1>2. E = PageTakenIn(D, page) /\ Fine(D, d) /\ Candid(D, s, plain)
  BY DEF page, DeviceOK, Speaks
<1>3. Candid(E, s, plain)
  BY <1>1, <1>2, PageTakenInCandid
<1>4. Leads(D, E, d, {page[k].id : k \in 1..n})
  BY <1>1, <1>2, PageTakenInFine
<1> QED  BY <1>3, <1>4, LedSpeaks

\* What the server, the devices and the messages between them say is true.
Spoken(plain) ==
  /\ Honest(srv)
  /\ \A d \in Device : Speaks(dev[d], net[d], late[d], srv, plain)

\* The users' data is plain: no category is archived.
Plainly(plain) == plain => \A data \in UserData : ~ data.archived

LEMMA InitSpoken ==
  ASSUME Init, NEW plain
  PROVE  Spoken(plain)
<1>1. srv.rec = [i \in Id |-> Absent] /\ srv.log = {}
  BY DEF Init, EmptyServer
<1>2. Honest(srv)
  BY <1>1 DEF Honest, Found, Absent
<1>3. ASSUME NEW d \in Device  PROVE Speaks(dev[d], net[d], late[d], srv, plain)
  <2> DEFINE D == EmptyDevice(d)
  <2>1. dev[d] = D /\ net[d] = Idle /\ late[d] = <<>>
    BY DEF Init
  <2>2. D.row = [i \in Id |-> NoRow] /\ D.out = <<>> /\ D.conf = [i \in Id |-> NoConflict]
    BY DEF EmptyDevice
  <2> HIDE DEF D
  <2>3. Idle.batch = <<>> /\ Idle.page = <<>> /\ Idle.phase = "idle"
    BY DEF Idle
  <2>4. Wires(Idle, <<>>) = {} /\ DOMAIN Idle.page = {} /\ DOMAIN D.out = {}
    BY <2>2, <2>3 DEF Wires, Range
  <2>5. ASSUME NEW i \in Id  PROVE JustAt(D, srv, plain, i)
    <3>1. OpsOf(D, i) = {}
      BY <2>4 DEF OpsOf
    <3>2. Queue(D, i) = {} /\ Lasts(D, i) = {} /\ Heads(D, i) = {}
      BY <3>1, NoQueue
    <3>3. D.row[i].data = NoData /\ D.conf[i].kind = "none"
      BY <2>2, NoRowFacts DEF NoConflict
    <3>4. Just(srv, plain, i, D.row[i], D.conf[i], {}, {}, {})
      BY <3>3, QuietJust
    <3> QED  BY <3>2, <3>4 DEF JustAt
  <2>6. Candid(D, srv, plain)
    BY <2>5 DEF Candid
  <2>7. Speaks(D, Idle, <<>>, srv, plain)
    BY <2>3, <2>4, <2>6 DEF Speaks
  <2> QED  BY <2>1, <2>7
<1> QED  BY <1>2, <1>3 DEF Spoken

\* A transaction of the user's.
LEMMA UserCandid ==
  ASSUME InOrder, Originated, NEW d \in Device, User(d) \/ Settle(d),
         NEW plain, Plainly(plain), Candid(dev[d], srv, plain)
  PROVE  Candid(dev'[d], srv, plain)
<1> DEFINE D == dev[d]
           E == dev'[d]
<1>0. /\ Fine(D, d) /\ Rooted(D, OnServer(srv))
      /\ \A i \in Id : HasRow(D, i) => i \in born
      /\ \A i \in Id : D.conf[i].local \in Data(i)
      /\ \A F : Locally(d, F) => E = F
  BY DEF InOrder, DeviceOK, Fine, Told, Heard, Originated, Traces, Locally
<1> HIDE DEF E
<1>1. ASSUME NEW i \in Id, UserCreates(d, i)  PROVE Candid(E, srv, plain)
  <2>1. PICK data \in UserData \cap PayloadOf(i) : Locally(d, LocalCreate(D, i, data))
    BY <1>1 DEF UserCreates
  <2>2. ~ HasRow(D, i)
    BY <1>0, <1>1 DEF UserCreates
  <2>3. Candid(LocalCreate(D, i, data), srv, plain)
    BY <1>0, <2>2, CreateCandid
  <2> QED  BY <1>0, <2>1, <2>3
<1>2. ASSUME NEW i \in Id, UserUpdates(d, i)  PROVE Candid(E, srv, plain)
  <2>1. PICK data \in UserData \cap PayloadOf(i) : Locally(d, LocalUpdate(D, i, data))
    BY <1>2 DEF UserUpdates
  <2>2. LiveRow(D, i) /\ (plain => ~ data.archived)
    BY <1>2 DEF UserUpdates, Plainly
  <2>3. Candid(LocalUpdate(D, i, data), srv, plain)
    BY <1>0, <2>2, UpdateCandid
  <2> QED  BY <1>0, <2>1, <2>3
<1>3. ASSUME NEW i \in Id, NEW cascade \in BOOLEAN, UserRemoves(d, i, cascade)
      PROVE  Candid(E, srv, plain)
  <2>1. LiveRow(D, i) /\ Locally(d, LocalRemove(D, i, cascade))
    BY <1>3 DEF UserRemoves
  <2>2. Candid(LocalRemove(D, i, cascade), srv, plain)
    BY <1>0, <2>1, RemoveCandid
  <2> QED  BY <1>0, <2>1, <2>2
<1>4. ASSUME NEW i \in Id, UserDismisses(d, i)  PROVE Candid(E, srv, plain)
  <2>1. Locally(d, Resolved(D, i))
    BY <1>4 DEF UserDismisses
  <2>2. Candid(Resolved(D, i), srv, plain)
    BY <1>0, ResolvedCandid
  <2> QED  BY <1>0, <2>1, <2>2
<1>5. ASSUME NEW i \in Id, NEW j \in Id, UserRestores(d, i, j)
      PROVE  Candid(E, srv, plain)
  <2> DEFINE lost == D.conf[i].local
             F == LocalCreate(D, j, lost)
  <2>1. /\ lost # NoData /\ (i \in Category <=> j \in Category) /\ j \notin born
        /\ Locally(d, F) \/ Locally(d, Resolved(F, i))
    BY <1>5 DEF UserRestores
  <2>2. lost \in PayloadOf(j)
    <3>1. lost \in PayloadOf(i)
      BY <1>0, <2>1 DEF Data
    <3> QED  BY <2>1, <3>1 DEF PayloadOf
  <2> HIDE DEF lost
  <2>3. ~ HasRow(D, j)
    BY <1>0, <2>1
  <2>4. Candid(F, srv, plain) /\ Fine(F, d)
    BY <1>0, <2>2, <2>3, CreateCandid, CreateFine DEF Leads
  <2> HIDE DEF F
  <2>5. Candid(Resolved(F, i), srv, plain)
    BY <2>4, ResolvedCandid
  <2> QED  BY <1>0, <2>1, <2>4, <2>5
<1>6. ASSUME NEW i \in Id, UserKeeps(d, i)  PROVE Candid(E, srv, plain)
  <2>1. Locally(d, KeepLocal(D, i)) /\ D.conf[i].kind = "version"
    BY <1>6 DEF UserKeeps
  <2>2. Candid(KeepLocal(D, i), srv, plain)
    BY <1>0, <2>1, KeepLocalCandid
  <2> QED  BY <1>0, <2>1, <2>2
<1>7. ASSUME NEW i \in Id, UserTakes(d, i)  PROVE Candid(E, srv, plain)
  <2>1. Locally(d, TakeServer(D, i)) /\ D.conf[i].kind = "version"
    BY <1>7 DEF UserTakes
  <2>2. Candid(TakeServer(D, i), srv, plain)
    BY <1>0, <2>1, TakeServerCandid
  <2> QED  BY <1>0, <2>1, <2>2
<1>8. Candid(E, srv, plain)
  BY <1>1, <1>2, <1>3, <1>4, <1>5, <1>6, <1>7 DEF User, Settle
<1> QED  BY <1>8 DEF E

\* A step of a device that leaves the server alone.
LEMMA DeviceSpoken ==
  ASSUME NEW plain, Spoken(plain), NEW d \in Device, Only(d), srv' = srv,
         Speaks(dev'[d], net'[d], late'[d], srv, plain)
  PROVE  Spoken(plain)'
<1>1. ASSUME NEW e \in Device  PROVE Speaks(dev'[e], net'[e], late'[e], srv, plain)
  BY DEF Only, Spoken
<1> QED  BY <1>1 DEF Spoken

LEMMA UserSpoken ==
  ASSUME InOrder, Originated, NEW plain, Plainly(plain), Spoken(plain),
         NEW d \in Device, User(d) \/ Settle(d)
  PROVE  Spoken(plain)'
<1> DEFINE D == dev[d]
           N == net[d]
           L == late[d]
<1>1. PICK E, M : Transacts(d, E, M)
  BY UserTransacts
<1>2. /\ dev' = [dev EXCEPT ![d] = E] /\ srv' = srv
      /\ cursor' = cursor /\ net' = net /\ late' = late
      /\ Leads(D, E, d, M)
  BY <1>1 DEF Transacts, Locally
<1>3. dev'[d] = E /\ net'[d] = N /\ late'[d] = L /\ Only(d)
  BY <1>2 DEF InOrder, Only
<1>4. DeviceOK(d, D, N, L, cursor[d], srv, born) /\ Speaks(D, N, L, srv, plain)
  BY DEF InOrder, Spoken
<1>5. Candid(E, srv, plain)
  BY <1>3, <1>4, UserCandid DEF Speaks
<1>6. Speaks(E, N, L, srv, plain)
  <2> HIDE DEF D, N, L
  <2> QED  BY <1>2, <1>4, <1>5, LedSpeaks
<1> HIDE DEF D, N, L
<1>7. Speaks(dev'[d], net'[d], late'[d], srv, plain)
  BY <1>3, <1>6
<1> QED  BY <1>2, <1>3, <1>7, DeviceSpoken

\* The engine goes round its push loop, from a database D in order.
LEMMA ProceedsSpoken ==
  ASSUME InOrder, NEW plain, Spoken(plain), NEW d \in Device, NEW D, NEW due,
         DeviceOK(d, D, net[d], late[d], cursor[d], srv, born),
         Traces(D, net[d], late[d], srv), Speaks(D, net[d], late[d], srv, plain),
         Proceeds(d, D, due), UNCHANGED <<srv, cursor, late, born>>
  PROVE  Spoken(plain)'
<1> DEFINE E == Selected(D, due).dev
           batch == Selected(D, due).batch
           R == net'[d]
<1>1. /\ dev' = [dev EXCEPT ![d] = E]
      /\ net' = [net EXCEPT ![d] = IF batch = <<>> THEN Pulling ELSE Pushing(batch)]
  BY DEF Proceeds
<1>2. E = Selected(D, due).dev /\ batch = Selected(D, due).batch
  OBVIOUS
<1> HIDE DEF E, batch
<1>3. dev'[d] = E /\ R \in {Pulling, Pushing(batch)} /\ Only(d) /\ late' = late
  BY <1>1 DEF InOrder, Only
<1> HIDE DEF R
<1>4. ServerOK(srv)
  BY DEF InOrder
<1>5. Speaks(E, R, late[d], srv, plain)
  BY <1>2, <1>3, <1>4, SendingSpeaks
<1>6. Speaks(dev'[d], net'[d], late'[d], srv, plain)
  BY <1>3, <1>5 DEF R
<1> QED  BY <1>3, <1>6, DeviceSpoken

\* The server runs a batch of the device d.
LEMMA ServerSpoken ==
  ASSUME InOrder, NEW plain, Spoken(plain), NEW d \in Device, Only(d), dev'[d] = dev[d],
         NEW t, srv' = t, ServerOK(t), Grows(srv, t), Honest(t),
         OnServer(srv) \subseteq OnServer(t),
         \A o \in OpId : o[1] # d => t.applied[o] = srv.applied[o],
         Speaks(dev[d], net'[d], late'[d], t, plain)
  PROVE  Spoken(plain)'
<1>1. ASSUME NEW e \in Device  PROVE Speaks(dev'[e], net'[e], late'[e], t, plain)
  <2>1. CASE e = d
    BY <2>1
  <2>2. CASE e # d
    <3>1. /\ DeviceOK(e, dev[e], net[e], late[e], cursor[e], srv, born)
          /\ Speaks(dev[e], net[e], late[e], srv, plain) /\ ServerOK(srv)
      BY DEF InOrder, Spoken
    <3>2. \A o \in OpId : o[1] = e => t.applied[o] = srv.applied[o]
      BY <2>2
    <3>3. Speaks(dev[e], net[e], late[e], t, plain)
      BY <3>1, <3>2, OthersSpeak
    <3> QED  BY <2>2, <3>3 DEF Only
  <2> QED  BY <2>1, <2>2
<1> QED  BY <1>1 DEF Spoken

\* Requests arrive at the server.
LEMMA ArrivalSpoken ==
  ASSUME InOrder, Originated, NEW plain, Spoken(plain), NEW d \in Device,
         PushArrives(d) \/ LatePushArrives(d) \/ PullArrives(d)
  PROVE  Spoken(plain)'
<1> DEFINE D == dev[d]
           N == net[d]
           L == late[d]
           c == cursor[d]
<1>0. /\ DeviceOK(d, D, N, L, c, srv, born) /\ ServerOK(srv) /\ KnownTo(srv) \subseteq born
      /\ N \in Request(d) /\ Traces(D, N, L, srv) /\ Grounded(srv) /\ Honest(srv)
      /\ OneOrigin(Origins, srv) /\ Speaks(D, N, L, srv, plain)
      /\ \A i \in Id : Creating(D, N, L, i) \subseteq Origins[i]
  BY DEF InOrder, DeviceOK, Originated, Origins, Spoken
<1>1. ASSUME NEW batch \in {N.batch, L}, NEW order \in Orders,
             NEW r, r = Applied(srv, batch, order)
      PROVE  /\ ServerOK(r.srv) /\ OnServer(srv) \subseteq OnServer(r.srv)
             /\ \A o \in OpId : o[1] # d => r.srv.applied[o] = srv.applied[o]
             /\ Grows(srv, r.srv) /\ Honest(r.srv) /\ Speaks(D, N, L, r.srv, plain)
             /\ \A k \in DOMAIN batch : Attests(r.answers[k], batch[k], r.srv)
  <2> HIDE DEF D, N, L, c
  <2>1. /\ ServerOK(r.srv)
        /\ \A o \in OpId : o[1] # d => r.srv.applied[o] = srv.applied[o]
    BY <1>0, <1>1, ServedOn
  <2>2. OnServer(srv) \subseteq OnServer(r.srv)
    BY <1>0, <1>1, ServedTraces DEF Roots
  <2>3. /\ Grows(srv, r.srv) /\ Honest(r.srv) /\ Speaks(D, N, L, r.srv, plain)
        /\ \A k \in DOMAIN batch : Attests(r.answers[k], batch[k], r.srv)
    BY <1>0, <1>1, ServedSpeaks
  <2> QED  BY <2>1, <2>2, <2>3
<1>2. CASE PushArrives(d)
  <2>1. PICK order \in Orders :
          LET r == Applied(srv, N.batch, order)
          IN  /\ srv' = r.srv
              /\ net' = [net EXCEPT ![d].phase = "pushed", ![d].answers = r.answers]
    BY <1>2 DEF PushArrives
  <2> DEFINE r == Applied(srv, N.batch, order)
             R == [N EXCEPT !.phase = "pushed", !.answers = r.answers]
  <2>2. /\ srv' = r.srv
        /\ net' = [net EXCEPT ![d].phase = "pushed", ![d].answers = r.answers]
        /\ dev' = dev /\ cursor' = cursor /\ late' = late /\ born' = born
    BY <1>2, <2>1 DEF PushArrives
  <2>3. net'[d] = R /\ late'[d] = L /\ dev'[d] = dev[d] /\ Only(d)
    BY <2>2 DEF InOrder, Only
  <2>4. R.batch = N.batch /\ R.page = N.page /\ R.answers = r.answers
    BY <1>0 DEF Request
  <2>5. r = Applied(srv, N.batch, order) /\ N.batch \in {N.batch, L}
    OBVIOUS
  <2> HIDE DEF R, r
  <2>6. /\ ServerOK(r.srv) /\ OnServer(srv) \subseteq OnServer(r.srv)
        /\ \A o \in OpId : o[1] # d => r.srv.applied[o] = srv.applied[o]
        /\ Grows(srv, r.srv) /\ Honest(r.srv) /\ Speaks(D, N, L, r.srv, plain)
        /\ \A k \in DOMAIN N.batch : Attests(r.answers[k], N.batch[k], r.srv)
    <3> HIDE DEF D, N, L
    <3> QED  BY <1>1, <2>5
  <2>7. Speaks(D, R, L, r.srv, plain)
    <3> HIDE DEF D, N, L
    <3> QED  BY <2>4, <2>6, AnsweredSpeaks
  <2>8. Speaks(dev[d], net'[d], late'[d], r.srv, plain)
    BY <2>3, <2>7
  <2> QED  BY <2>2, <2>3, <2>6, <2>8, ServerSpoken
<1>3. CASE LatePushArrives(d)
  <2>1. PICK order \in Orders : srv' = Applied(srv, L, order).srv
    BY <1>3 DEF LatePushArrives
  <2> DEFINE r == Applied(srv, L, order)
  <2>2. srv' = r.srv /\ late' = [late EXCEPT ![d] = <<>>]
        /\ dev' = dev /\ cursor' = cursor /\ net' = net /\ born' = born
    BY <1>3, <2>1 DEF LatePushArrives
  <2>3. net'[d] = N /\ late'[d] = <<>> /\ dev'[d] = dev[d] /\ Only(d)
    BY <2>2 DEF InOrder, Only
  <2>4. r = Applied(srv, L, order) /\ L \in {N.batch, L}
    OBVIOUS
  <2> HIDE DEF r
  <2>5. /\ ServerOK(r.srv) /\ OnServer(srv) \subseteq OnServer(r.srv)
        /\ \A o \in OpId : o[1] # d => r.srv.applied[o] = srv.applied[o]
        /\ Grows(srv, r.srv) /\ Honest(r.srv) /\ Speaks(D, N, L, r.srv, plain)
    <3> HIDE DEF D, N, L
    <3> QED  BY <1>1, <2>4
  <2>6. Speaks(D, N, <<>>, r.srv, plain)
    <3>1. Wires(N, <<>>) \subseteq Wires(N, L)
      BY DEF Wires, Range
    <3> HIDE DEF D, N, L
    <3> QED  BY <2>5, <3>1 DEF Speaks
  <2>7. Speaks(dev[d], net'[d], late'[d], r.srv, plain)
    BY <2>3, <2>6
  <2> QED  BY <2>2, <2>3, <2>5, <2>7, ServerSpoken
<1>4. CASE PullArrives(d)
  <2> DEFINE all == Changes(srv, c)
             page == IF Len(all) > PageSize THEN SubSeq(all, 1, PageSize) ELSE all
             R == [N EXCEPT !.phase = "pulled", !.page = page, !.more = (Len(page) = PageSize)]
  <2>1. /\ net' = [net EXCEPT ![d].phase = "pulled", ![d].page = page,
                              ![d].more = (Len(page) = PageSize)]
        /\ srv' = srv /\ dev' = dev /\ cursor' = cursor /\ late' = late /\ born' = born
    BY <1>4 DEF PullArrives
  <2>2. net'[d] = R /\ late'[d] = L /\ dev'[d] = D /\ Only(d)
    BY <2>1 DEF InOrder, Only
  <2>3. \A k \in DOMAIN page : \E j \in DOMAIN all : page[k] = all[j]
    <3>1. page = Page(srv, c)
      BY DEF Page
    <3> HIDE DEF page
    <3> QED  BY <1>0, <3>1, PageOfChanges
  <2>4. \A k \in DOMAIN page : ChangeSays(srv, page[k])
    <3>1. \A j \in DOMAIN all : ChangeSays(srv, all[j])
      BY <1>0, ChangesSay
    <3> HIDE DEF page, all
    <3> QED  BY <2>3, <3>1
  <2>5. R.batch = N.batch /\ R.page = page /\ R.phase # "pushed"
    BY <1>0 DEF Request
  <2> HIDE DEF page, R
  <2>6. Speaks(D, R, L, srv, plain)
    <3> HIDE DEF D, N, L, c
    <3> QED  BY <1>0, <2>4, <2>5, PageSpeaks
  <2>7. Speaks(dev'[d], net'[d], late'[d], srv, plain)
    BY <2>2, <2>6
  <2> QED  BY <2>1, <2>2, <2>7, DeviceSpoken
<1> QED  BY <1>2, <1>3, <1>4

\* The engine takes the answer in, or the request fails.
LEMMA EngineStepSpoken ==
  ASSUME InOrder, Originated, NEW plain, Spoken(plain), NEW d \in Device,
         \/ \E due \in SUBSET Retries(d) : Run(d, due)
         \/ PushReturns(d) \/ PullReturns(d)
         \/ PushFails(d) \/ PushUnauthorized(d) \/ PullFails(d)
  PROVE  Spoken(plain)'
<1> DEFINE D == dev[d]
           N == net[d]
           L == late[d]
           c == cursor[d]
<1>0. /\ DeviceOK(d, D, N, L, c, srv, born) /\ Fine(D, d) /\ D.made <= MaxOps
      /\ N \in Request(d) /\ Traces(D, N, L, srv) /\ Speaks(D, N, L, srv, plain)
  BY DEF InOrder, DeviceOK, Originated, Spoken
<1>1. CASE \E due \in SUBSET Retries(d) : Run(d, due)
  <2>1. PICK due \in SUBSET Retries(d) : Proceeds(d, D, due)
    BY <1>1 DEF Run
  <2>2. UNCHANGED <<srv, cursor, late, born>>
    BY <1>1 DEF Run
  <2> QED  BY <1>0, <2>1, <2>2, ProceedsSpoken
<1>2. CASE PushReturns(d)
  <2> DEFINE E == PushTakenIn(D, N.batch, N.answers)
  <2>1. /\ N.phase = "pushed" /\ UNCHANGED <<srv, cursor, late, born>>
        /\ \/ \E due \in SUBSET Retries(d) : Proceeds(d, E, due)
           \/ dev' = [dev EXCEPT ![d] = E] /\ net' = [net EXCEPT ![d] = Pulling]
    BY <1>2 DEF PushReturns
  <2>2. /\ DeviceOK(d, E, N, L, c, srv, born) /\ Traces(E, N, L, srv)
        /\ Speaks(E, N, L, srv, plain)
    <3>0. E = PushTakenIn(D, N.batch, N.answers)
      OBVIOUS
    <3> HIDE DEF D, N, L, c
    <3>1. Leads(D, E, d, {}) /\ E.made = D.made
      BY <1>0, <2>1, ResultsTakenIn
    <3> HIDE DEF E
    <3>2. DeviceOK(d, E, N, L, c, srv, born)
      BY <1>0, <3>1, DeviceLed
    <3> QED  BY <1>0, <2>1, <3>0, <3>2, ResultsTraces, ResultsSpeak
  <2> HIDE DEF E
  <2>3. CASE \E due \in SUBSET Retries(d) : Proceeds(d, E, due)
    BY <2>1, <2>2, <2>3, ProceedsSpoken
  <2>4. CASE dev' = [dev EXCEPT ![d] = E] /\ net' = [net EXCEPT ![d] = Pulling]
    <3>1. dev'[d] = E /\ net'[d] = Pulling /\ late'[d] = L /\ Only(d)
      BY <2>1, <2>4 DEF InOrder, Only
    <3>2. Speaks(E, Pulling, L, srv, plain)
      <4> HIDE DEF D, N, L, c
      <4> QED  BY <2>2, OverSpeaks
    <3>3. Speaks(dev'[d], net'[d], late'[d], srv, plain)
      BY <3>1, <3>2
    <3> QED  BY <2>1, <3>1, <3>3, DeviceSpoken
  <2> QED  BY <2>1, <2>3, <2>4
<1>3. CASE PullReturns(d)
  <2> DEFINE E == PageTakenIn(D, N.page)
             R == IF N.more THEN Pulling ELSE Idle
             a == IF N.page = <<>> THEN c ELSE Last(N.page).seq
  <2>1. /\ dev' = [dev EXCEPT ![d] = E]
        /\ cursor' = [cursor EXCEPT ![d] = a] /\ net' = [net EXCEPT ![d] = R]
        /\ UNCHANGED <<srv, late, born>>
    BY <1>3 DEF PullReturns
  <2>0. E = PageTakenIn(D, N.page) /\ R \in {Idle, Pulling}
    OBVIOUS
  <2> HIDE DEF a, R, E
  <2>2. dev'[d] = E /\ net'[d] = R /\ late'[d] = L /\ Only(d)
    <3>1. InOrder'
      BY <1>3, EngineStep
    <3> QED  BY <2>1, <3>1 DEF InOrder, Only
  <2>3. Speaks(E, N, L, srv, plain)
    <3> HIDE DEF D, N, L, c
    <3> QED  BY <1>0, <2>0, PageTakenSpeaks
  <2>4. Speaks(E, R, L, srv, plain)
    <3> HIDE DEF D, N, L
    <3> QED  BY <2>0, <2>3, OverSpeaks
  <2>5. Speaks(dev'[d], net'[d], late'[d], srv, plain)
    BY <2>2, <2>4
  <2> QED  BY <2>1, <2>2, <2>5, DeviceSpoken
<1>4. CASE PushFails(d)
  <2>1. /\ net' = [net EXCEPT ![d] = Idle]
        /\ late' = late \/ late' = [late EXCEPT ![d] = N.batch]
        /\ UNCHANGED <<srv, dev, cursor, born>>
    BY <1>4 DEF PushFails
  <2>2. net'[d] = Idle /\ late'[d] \in {L, N.batch, <<>>} /\ dev'[d] = D /\ Only(d)
    BY <2>1 DEF InOrder, Only
  <2>3. Speaks(D, Idle, late'[d], srv, plain)
    <3> HIDE DEF D, N, L
    <3> QED  BY <1>0, <2>2, OverSpeaks
  <2>4. Speaks(dev'[d], net'[d], late'[d], srv, plain)
    BY <2>2, <2>3
  <2> QED  BY <2>1, <2>2, <2>4, DeviceSpoken
<1>5. CASE PushUnauthorized(d)
  <2> DEFINE E == AttemptsReverted(D, N.batch)
  <2>1. /\ dev' = [dev EXCEPT ![d] = E] /\ net' = [net EXCEPT ![d] = Idle]
        /\ UNCHANGED <<srv, late, cursor, born>>
    BY <1>5 DEF PushUnauthorized
  <2>2. Leads(D, E, d, {}) /\ Candid(E, srv, plain)
    <3>1. \A b \in Range(N.batch) : b \in WireOp(d)
      BY <1>0 DEF Request, Range
    <3>2. \A k \in DOMAIN D.out : ~ D.out[k].sent => srv.applied[D.out[k].opId] = NotApplied
      BY <1>0 DEF DeviceOK, SeenByServer
    <3>3. Candid(D, srv, plain)
      BY <1>0 DEF Speaks
    <3> HIDE DEF D, N
    <3> QED  BY <1>0, <3>1, <3>2, <3>3, RevertedFine, RevertedCandid
  <2> HIDE DEF E
  <2>3. dev'[d] = E /\ net'[d] = Idle /\ late'[d] = L /\ Only(d)
    BY <2>1 DEF InOrder, Only
  <2>4. Speaks(E, N, L, srv, plain)
    <3> HIDE DEF D, N, L, c
    <3> QED  BY <1>0, <2>2, LedSpeaks
  <2>5. Speaks(E, Idle, L, srv, plain)
    <3> HIDE DEF D, N, L
    <3> QED  BY <2>4, OverSpeaks
  <2>6. Speaks(dev'[d], net'[d], late'[d], srv, plain)
    BY <2>3, <2>5
  <2> QED  BY <2>1, <2>3, <2>6, DeviceSpoken
<1>6. CASE PullFails(d)
  <2>1. net' = [net EXCEPT ![d] = Idle] /\ UNCHANGED <<srv, dev, cursor, late, born>>
    BY <1>6 DEF PullFails
  <2>2. net'[d] = Idle /\ dev'[d] = D /\ late'[d] = L /\ Only(d)
    BY <2>1 DEF InOrder, Only
  <2>3. Speaks(D, Idle, L, srv, plain)
    <3> HIDE DEF D, N, L
    <3> QED  BY <1>0, OverSpeaks
  <2>4. Speaks(dev'[d], net'[d], late'[d], srv, plain)
    BY <2>2, <2>3
  <2> QED  BY <2>1, <2>2, <2>4, DeviceSpoken
<1> QED  BY <1>1, <1>2, <1>3, <1>4, <1>5, <1>6

LEMMA NextSpoken ==
  ASSUME InOrder, Originated, NEW plain, Plainly(plain), Spoken(plain), [Next]_vars
  PROVE  Spoken(plain)'
<1>1. CASE UNCHANGED vars
  BY <1>1 DEF vars, Spoken
<1>2. ASSUME NEW d \in Device,
             \/ User(d) \/ Settle(d)
             \/ \E due \in SUBSET Retries(d) : Run(d, due)
             \/ PushArrives(d) \/ LatePushArrives(d) \/ PushReturns(d)
             \/ PushFails(d) \/ PushUnauthorized(d)
             \/ PullArrives(d) \/ PullReturns(d) \/ PullFails(d)
      PROVE  Spoken(plain)'
  BY <1>2, UserSpoken, ArrivalSpoken, EngineStepSpoken
<1> QED  BY <1>1, <1>2 DEF Next

-----------------------------------------------------------------------------
(* What a CLEAN record is.                                                 *)

\* A CLEAN record at the server's version is the server's, but perhaps for the
\* archived mark of what the device created.
LEMMA SpokenAgrees ==
  ASSUME InOrder, NEW plain, Spoken(plain), NEW d \in Device, NEW i \in Id,
         HasRow(dev[d], i), Clean(dev[d], i), dev[d].row[i].ver = srv.rec[i].ver
  PROVE  /\ dev[d].row[i].deleted = srv.rec[i].deleted
         /\ LiveRow(dev[d], i) =>
              \/ dev[d].row[i].data = srv.rec[i].data
              \/ /\ ~ plain /\ srv.rec[i].ver = 1
                 /\ CreatedData(i, dev[d].row[i].data) = srv.rec[i].data
<1> DEFINE r == dev[d].row[i]
<1>1. Matches(srv, i, r.sv, r.deleted, r.data, plain)
  BY DEF Spoken, Speaks, Candid, JustAt, Just, HasRow, Clean
<1>2. r.sv = srv.rec[i].ver
  BY DEF Clean
<1> QED  BY <1>1, <1>2 DEF Matches, LiveRow

\* Of users who archive no category, a CLEAN record at the server's version is
\* deleted iff the server's is and has its data: what settling, pulling, rebasing
\* and restoring leave there, whatever was lost, repeated or late.
THEOREM CleanRecordsAgree ==
  ASSUME \A data \in UserData : ~ data.archived
  PROVE  Spec => []CleanAgrees
<1>1. Plainly(TRUE)
  BY DEF Plainly
<1>2. Init => Spoken(TRUE)
  BY <1>1, InitSpoken
<1>3. InOrder /\ Originated /\ Spoken(TRUE) /\ [Next]_vars => Spoken(TRUE)'
  BY <1>1, NextSpoken
<1>4. InOrder /\ Spoken(TRUE) => CleanAgrees
  <2>1. ASSUME InOrder, Spoken(TRUE)  PROVE CleanAgrees
    BY <2>1, SpokenAgrees DEF CleanAgrees
  <2> QED  BY <2>1
<1> QED  BY <1>2, <1>3, <1>4, InOrderAlways, OriginatedAlways, PTL DEF Spec

\* The same but for the archived mark, which the server's create drops.
CleanAgreesButMark ==
  \A d \in Device, i \in Id :
    /\ HasRow(dev[d], i) /\ Clean(dev[d], i)
    /\ dev[d].row[i].ver = srv.rec[i].ver
    => /\ dev[d].row[i].deleted = srv.rec[i].deleted
       /\ LiveRow(dev[d], i) =>
            \/ dev[d].row[i].data = srv.rec[i].data
            \/ /\ srv.rec[i].ver = 1
               /\ CreatedData(i, dev[d].row[i].data) = srv.rec[i].data

\* Whatever users enter, a CLEAN record at the server's version is deleted iff the
\* server's is, and has its data unless the server has it as it was created: a
\* category archived before its create was sent loses the mark there.
THEOREM CleanRecordsAgreeButMark == Spec => []CleanAgreesButMark
<1>1. Plainly(FALSE)
  BY DEF Plainly
<1>2. Init => Spoken(FALSE)
  BY <1>1, InitSpoken
<1>3. InOrder /\ Originated /\ Spoken(FALSE) /\ [Next]_vars => Spoken(FALSE)'
  BY <1>1, NextSpoken
<1>4. InOrder /\ Spoken(FALSE) => CleanAgreesButMark
  <2>1. ASSUME InOrder, Spoken(FALSE)  PROVE CleanAgreesButMark
    BY <2>1, SpokenAgrees DEF CleanAgreesButMark
  <2> QED  BY <2>1
<1> QED  BY <1>2, <1>3, <1>4, InOrderAlways, OriginatedAlways, PTL DEF Spec

-----------------------------------------------------------------------------
(* How far behind the server a device is.                                  *)

\* The log has a word on record i that is beyond the cursor c.
Behind(s, c, i) == \E e \in s.log : e.id = i /\ e.seq > c

\* Version v of record i is the server's, or a newer one is to be pulled.
Fresh(s, c, i, v) == v >= s.rec[i].ver \/ Behind(s, c, i)

\* The operations of a record that were sent.
SentIds(D, i) == {o.opId : o \in {q \in Queue(D, i) : q.sent}}

\* The version of the server's that a device has heard of: its row's or that of
\* the conflict open on it.
Known(r, q) == IF q.kind = "version" THEN q.state.ver ELSE r.sv

\* What a device with row r, conflict q and the sent operations S of record i
\* has not taken in is beyond its cursor.
Abreast(s, c, i, r, q, S) ==
  /\ r.data = NoData => q.kind # "version" /\ (~ Live(s, i) \/ Behind(s, c, i))
  /\ r.data # NoData => /\ r.sv <= s.rec[i].ver /\ r.sv <= Known(r, q)
                        /\ Fresh(s, c, i, Known(r, q))
  /\ q.kind # "version" =>
       \A o \in S : s.applied[o] # NotApplied =>
         /\ s.applied[o] \in Nat /\ s.applied[o] >= r.sv
         /\ Fresh(s, c, i, s.applied[o])

\* Record i of D.
AbreastAt(D, s, c, i) == Abreast(s, c, i, D.row[i], D.conf[i], SentIds(D, i))

\* All of them.
KeepsUp(D, s, c) == \A i \in Id : AbreastAt(D, s, c, i)

\* What was sent of E was sent of D.
LEMMA SentFollows ==
  ASSUME NEW D, NEW E, Follows(D, E), NEW i
  PROVE  SentIds(E, i) \subseteq SentIds(D, i)
BY DEF SentIds, Queue, OpsOf, Follows, SameOp

\* No operation of a record that has none, or only unsent ones, was sent.
LEMMA NothingSent ==
  ASSUME NEW D, NEW E, NEW i, NEW Q, NEW L, NEW H
  PROVE  /\ OpsOf(E, i) = {} => SentIds(E, i) = {}
         /\ Requeued(D, E, i, Q, L, H) /\ (\A o \in Q : ~ o.sent) => SentIds(E, i) = {}
BY DEF SentIds, Queue, Requeued

\* Fewer operations sent, no less abreast.
LEMMA AbreastFewer ==
  ASSUME NEW s, NEW c, NEW i, NEW r, NEW q, NEW S, Abreast(s, c, i, r, q, S),
         NEW T, T \subseteq S
  PROVE  Abreast(s, c, i, r, q, T)
BY DEF Abreast

\* The content of a row does not matter, but whether there is one.
LEMMA AbreastSame ==
  ASSUME NEW s, NEW c, NEW i, NEW r, NEW q, NEW S, Abreast(s, c, i, r, q, S),
         NEW t, t.sv = r.sv, t.data = NoData <=> r.data = NoData,
         NEW p, p = q \/ (q.kind # "version" /\ p.kind # "version"), NEW T, T \subseteq S
  PROVE  Abreast(s, c, i, t, p, T)
<1>1. Known(t, p) = Known(r, q)
  BY DEF Known
<1>2. p.kind = "version" <=> q.kind = "version"
  OBVIOUS
<1> QED  BY <1>1, <1>2 DEF Abreast

\* One record is touched.
LEMMA TouchedElsewhere ==
  ASSUME NEW d, NEW D, NEW E, NEW s, NEW c, NEW i \in Id,
         \A j \in Id \ {i} : AbreastAt(D, s, c, j),
         NEW r, NEW q, NEW A, Touched(D, E, d, i, r, q, A), Follows(D, E),
         Abreast(s, c, i, r, q, SentIds(E, i))
  PROVE  KeepsUp(E, s, c)
<1>1. ASSUME NEW j \in Id, j # i  PROVE AbreastAt(E, s, c, j)
  <2>1. E.row[j] = D.row[j] /\ E.conf[j] = D.conf[j]
    BY <1>1 DEF Touched
  <2>2. SentIds(E, j) \subseteq SentIds(D, j)
    BY SentFollows
  <2>3. AbreastAt(D, s, c, j)
    BY <1>1
  <2> QED  BY <2>1, <2>2, <2>3, AbreastFewer DEF AbreastAt
<1>2. AbreastAt(E, s, c, i)
  BY DEF Touched, AbreastAt
<1> QED  BY <1>1, <1>2 DEF KeepsUp

\* One record is touched and abreast: all are.
LEMMA TouchedKeepsUp ==
  ASSUME NEW d, NEW D, NEW E, NEW s, NEW c, KeepsUp(D, s, c), NEW i \in Id,
         NEW r, NEW q, NEW A, Touched(D, E, d, i, r, q, A), Follows(D, E),
         Abreast(s, c, i, r, q, SentIds(E, i))
  PROVE  KeepsUp(E, s, c)
BY TouchedElsewhere DEF KeepsUp

\* A touched record that stays what it was to the server.
LEMMA SameKeepsUp ==
  ASSUME NEW d, NEW D, NEW E, NEW s, NEW c, KeepsUp(D, s, c), NEW i \in Id,
         NEW r, NEW q, NEW A, Touched(D, E, d, i, r, q, A), Follows(D, E),
         r.sv = D.row[i].sv, r.data = NoData <=> D.row[i].data = NoData,
         q = D.conf[i] \/ (q.kind # "version" /\ D.conf[i].kind # "version")
  PROVE  KeepsUp(E, s, c)
<1>1. SentIds(E, i) \subseteq SentIds(D, i)
  BY SentFollows
<1>2. AbreastAt(D, s, c, i)
  BY DEF KeepsUp
<1>3. Abreast(s, c, i, r, q, SentIds(E, i))
  BY <1>1, <1>2, AbreastSame DEF AbreastAt
<1> QED  BY <1>3, TouchedKeepsUp

\* Rows, versions of the server's and conflicts stay.
LEMMA AllSameKeepsUp ==
  ASSUME NEW D, NEW E, NEW s, NEW c, KeepsUp(D, s, c), E.row = D.row, E.conf = D.conf,
         Follows(D, E)
  PROVE  KeepsUp(E, s, c)
<1>1. ASSUME NEW j \in Id  PROVE AbreastAt(E, s, c, j)
  <2>1. SentIds(E, j) \subseteq SentIds(D, j)
    BY SentFollows
  <2>2. AbreastAt(D, s, c, j)
    BY DEF KeepsUp
  <2> QED  BY <2>1, <2>2, AbreastFewer DEF AbreastAt
<1> QED  BY <1>1 DEF KeepsUp

\* A record settled at version v, its sent operations gone.
LEMMA SettledAbreast ==
  ASSUME NEW s, NEW c, NEW i, NEW r, NEW q, q.kind # "version", r.data # NoData,
         r.sv <= s.rec[i].ver, r.sv \in Int, Fresh(s, c, i, r.sv)
  PROVE  Abreast(s, c, i, r, q, {})
BY DEF Abreast, Known

-----------------------------------------------------------------------------
(* What users do.                                                          *)

\* A create of a record the server has never heard of.
LEMMA CreateKeepsUp ==
  ASSUME NEW d, NEW D, Fine(D, d), NEW s, NEW c, KeepsUp(D, s, c), NEW i \in Id,
         ~ HasRow(D, i), s.rec[i].ver = 0, NEW data \in PayloadOf(i)
  PROVE  KeepsUp(LocalCreate(D, i, data), s, c)
<1> DEFINE new == [data EXCEPT !.archived = FALSE]
           r == [ver |-> 1, sv |-> 0, deleted |-> FALSE, data |-> new]
           E == LocalCreate(D, i, data)
<1>1. new \in PayloadOf(i)
  BY NewPayload
<1>2. new \in Payload \cup {NoData} /\ new # NoData /\ "upsert" \in {"upsert", "delete"}
      /\ FALSE \in BOOLEAN /\ 0 \in Nat
  BY <1>1, NoDataAssumption DEF PayloadOf
<1>3. E = Enqueued(WithRow(D, i, r), i, "upsert", new, FALSE, 0)
  BY DEF LocalCreate
<1>0. Follows(D, E)
  BY CreateFine DEF Leads
<1> HIDE DEF new, E
<1>4. r \in LocalRow /\ r.sv = 0 /\ r.data # NoData
  BY <1>2 DEF LocalRow
<1>5. D \in DeviceState(d) /\ OpsOf(D, i) = {} /\ D.row[i].data = NoData
  BY RowOf DEF Fine, HasRow
<1> HIDE DEF r
<1>6. Touched(D, E, d, i, r, D.conf[i], FirstIds(E, i))
  BY <1>2, <1>3, <1>4, <1>5, WrittenTouched
<1>7. SentIds(E, i) = {}
  <2>1. SentIds(E, i) \subseteq SentIds(D, i)
    BY <1>0, SentFollows
  <2> QED  BY <1>5, <2>1, NothingSent
<1>8. D.conf[i].kind # "version"
  BY <1>5 DEF KeepsUp, AbreastAt, Abreast
<1>9. Abreast(s, c, i, r, D.conf[i], {})
  BY <1>4, <1>8, SettledAbreast DEF Fresh
<1>10. KeepsUp(E, s, c)
  BY <1>0, <1>6, <1>7, <1>9, TouchedKeepsUp
<1> QED  BY <1>10 DEF E

\* An update learns nothing of the server.
LEMMA UpdateKeepsUp ==
  ASSUME NEW d, NEW D, Fine(D, d), NEW s, NEW c, KeepsUp(D, s, c), NEW i \in Id,
         LiveRow(D, i), NEW data \in PayloadOf(i)
  PROVE  KeepsUp(LocalUpdate(D, i, data), s, c)
<1> DEFINE r == [D.row[i] EXCEPT !.ver = @ + 1, !.data = data]
           v == D.row[i].sv
           E == LocalUpdate(D, i, data)
<1>0. Follows(D, E)
  BY UpdateFine DEF Leads
<1>1. /\ D.row[i] \in LocalRow /\ D.row[i].ver \in Nat /\ v \in Nat
      /\ D \in DeviceState(d)
  BY RowOf
<1>2. data \in Payload \cup {NoData} /\ data # NoData /\ "upsert" \in {"upsert", "delete"}
      /\ FALSE \in BOOLEAN
  BY NoDataAssumption DEF PayloadOf
<1>3. r \in LocalRow /\ r.sv = v /\ r.data = data
  <2> DEFINE q == D.row[i]
             w == q.ver + 1
  <2>1. r = [q EXCEPT !.ver = w, !.data = data] /\ w \in Nat /\ q \in LocalRow
    BY <1>1
  <2> HIDE DEF r, q, w
  <2>2. r \in LocalRow /\ r.sv = q.sv /\ r.data = data
    BY <1>2, <2>1 DEF LocalRow
  <2> QED  BY <2>2 DEF q, w
<1>4. E = Enqueued(WithRow(D, i, r), i, "upsert", data, FALSE, v)
  BY DEF LocalUpdate
<1> HIDE DEF r, E
<1>5. Touched(D, E, d, i, r, D.conf[i], FirstIds(E, i))
  <2> HIDE DEF v
  <2> QED  BY <1>1, <1>2, <1>3, <1>4, WrittenTouched
<1>6. r.data = NoData <=> D.row[i].data = NoData
  BY <1>2, <1>3 DEF LiveRow, HasRow
<1>7. KeepsUp(E, s, c)
  BY <1>0, <1>3, <1>5, <1>6, SameKeepsUp
<1> QED  BY <1>7 DEF E

\* E keeps the conflicts of D and its rows, but for rows of W that are wiped.
Leaves(D, E, W) ==
  /\ E.conf = D.conf
  /\ \A j \in Id : \/ j \in W /\ E.row[j] = NoRow
                   \/ E.row[j].sv = D.row[j].sv /\ E.row[j].data = D.row[j].data

\* What a removal leaves of the rows.
LEMMA SweptRows ==
  ASSUME NEW d, NEW D \in DeviceState(d), NEW R \in SUBSET Id, NEW gone
  PROVE  Leaves(D, Swept(D, R, gone), R)
<1> DEFINE rows == [j \in Id |-> IF j \notin R THEN D.row[j]
                                 ELSE IF j \in gone THEN NoRow ELSE Buried(D.row[j])]
           q == Kept(D.out, {k \in DOMAIN D.out : D.out[k].id \notin R})
           E == Swept(D, R, gone)
<1>1. E = [D EXCEPT !.row = rows, !.out = q]
  BY DEF Swept, DeviceState
<1> HIDE DEF q, rows, E
<1>2. E.row = rows /\ E.conf = D.conf
  BY <1>1 DEF DeviceState
<1>3. ASSUME NEW j \in Id
      PROVE  \/ j \in R /\ E.row[j] = NoRow
             \/ E.row[j].sv = D.row[j].sv /\ E.row[j].data = D.row[j].data
  <2>1. E.row[j] = IF j \notin R THEN D.row[j]
                   ELSE IF j \in gone THEN NoRow ELSE Buried(D.row[j])
    BY <1>2 DEF rows
  <2>2. Buried(D.row[j]).sv = D.row[j].sv /\ Buried(D.row[j]).data = D.row[j].data
    BY BuriedRow DEF DeviceState
  <2> QED  BY <2>1, <2>2
<1>4. Leaves(D, E, R)
  BY <1>2, <1>3 DEF Leaves
<1> QED  BY <1>4 DEF E

\* A remove wipes the record, and transactions in its cascade, or keeps what the
\* row is confirmed at.
LEMMA RemoveRows ==
  ASSUME NEW d, NEW D, Fine(D, d), NEW i \in Id, LiveRow(D, i), NEW cascade \in BOOLEAN,
         NEW H, H = LocalRemove(D, i, cascade)
  PROVE  /\ H.conf = D.conf
         /\ \A j \in Id : \/ /\ LiveRow(D, j) /\ H.row[j] = NoRow
                             /\ j \in Transaction \/ Unborn(D, j)
                          \/ H.row[j].sv = D.row[j].sv /\ H.row[j].data = D.row[j].data
<1> DEFINE R == IF i \in Category THEN Referencing(D, i) ELSE {}
           r == Buried(D.row[i])
           v == D.row[i].sv
           E == Enqueued(WithRow(D, i, r), i, "delete", NoData, cascade, v)
           G == {j \in R : Unborn(D, j)}
<1>0. /\ D \in DeviceState(d) /\ D.row[i] \in LocalRow /\ v \in Nat
      /\ NoData \in Payload \cup {NoData} /\ "delete" \in {"upsert", "delete"}
  BY RowOf
<1>1. /\ R \in SUBSET Id /\ {i} \cup R \in SUBSET Id /\ R \subseteq Transaction
      /\ \A j \in {i} \cup R : LiveRow(D, j)
  BY DEF Referencing, Id
<1>2. H = IF Unborn(D, i) THEN Swept(D, {i} \cup R, {i} \cup R)
          ELSE IF cascade THEN Swept(E, R, G) ELSE E
  BY DEF LocalRemove
<1>3. r \in LocalRow /\ r.sv = v /\ r.data = D.row[i].data
  BY <1>0, BuriedRow
<1> HIDE DEF R, r, G
<1>4. Touched(D, E, d, i, r, D.conf[i], FirstIds(D, i))
  <2> HIDE DEF E, v
  <2>1. E = Enqueued(WithRow(D, i, r), i, "delete", NoData, cascade, v)
    BY DEF E
  <2> HIDE DEF Touched
  <2> QED  BY <1>0, <1>3, <2>1, WrittenTouched
<1> HIDE DEF E
<1>5. /\ E \in DeviceState(d)
      /\ \A j \in Id : /\ E.conf[j] = D.conf[j] /\ E.row[j].sv = D.row[j].sv
                       /\ E.row[j].data = D.row[j].data
  <2>1. \A j \in Id : j # i => E.row[j] = D.row[j] /\ E.conf[j] = D.conf[j]
    BY <1>4 DEF Touched
  <2>2. E.row[i] = r /\ E.conf[i] = D.conf[i] /\ E \in DeviceState(d)
    BY <1>4 DEF Touched
  <2> QED  BY <1>3, <2>1, <2>2
<1>6. E.conf = D.conf
  BY <1>0, <1>5 DEF DeviceState
<1>7. CASE H = E
  BY <1>5, <1>6, <1>7
<1>8. CASE Unborn(D, i) /\ H = Swept(D, {i} \cup R, {i} \cup R)
  <2>1. Leaves(D, H, {i} \cup R)
    BY <1>0, <1>1, <1>8, SweptRows
  <2> QED  BY <1>1, <1>8, <2>1 DEF Leaves, Id
<1>9. CASE H = Swept(E, R, G)
  <2>1. Leaves(E, H, R)
    BY <1>1, <1>5, <1>9, SweptRows
  <2> QED  BY <1>1, <1>5, <1>6, <2>1 DEF Leaves
<1> QED  BY <1>2, <1>7, <1>8, <1>9

\* The rows a removal wipes are unborn ones, which the server does not have.
LEMMA RemoveKeepsUp ==
  ASSUME NEW d, NEW D, Fine(D, d), NEW s, NEW c, KeepsUp(D, s, c), Rooted(D, OnServer(s)),
         NEW i \in Id, LiveRow(D, i), NEW cascade \in BOOLEAN,
         NEW H, H = LocalRemove(D, i, cascade),
         \A j \in Transaction : HasRow(D, j) /\ ~ HasRow(H, j) => Unborn(D, j),
         \A j \in Id : LiveRow(D, j) /\ Unborn(D, j) => ~ Found(s, j)
  PROVE  KeepsUp(H, s, c)
<1>1. Leads(D, H, d, {})
  BY RemoveFine
<1>2. /\ H.conf = D.conf
      /\ \A j \in Id : \/ /\ LiveRow(D, j) /\ H.row[j] = NoRow
                          /\ j \in Transaction \/ Unborn(D, j)
                       \/ H.row[j].sv = D.row[j].sv /\ H.row[j].data = D.row[j].data
  BY RemoveRows
<1>3. ASSUME NEW j \in Id  PROVE AbreastAt(H, s, c, j)
  <2>1. CASE H.row[j].sv = D.row[j].sv /\ H.row[j].data = D.row[j].data
    <3>1. SentIds(H, j) \subseteq SentIds(D, j)
      BY <1>1, SentFollows DEF Leads
    <3>2. AbreastAt(D, s, c, j)
      BY DEF KeepsUp
    <3> QED  BY <1>2, <2>1, <3>1, <3>2, AbreastSame DEF AbreastAt
  <2>2. CASE LiveRow(D, j) /\ H.row[j] = NoRow /\ (j \in Transaction \/ Unborn(D, j))
    <3>1. ~ HasRow(H, j) /\ HasRow(D, j) /\ H.row[j].data = NoData
      BY <2>2, NoRowFacts DEF HasRow, LiveRow
    <3>2. ~ Found(s, j)
      BY <2>2, <3>1
    <3>3. H.conf[j].kind # "version" /\ ~ Live(s, j)
      BY <1>2, <3>2 DEF Rooted, OnServer, Live
    <3>4. SentIds(H, j) = {}
      <4>1. OpsOf(H, j) = {}
        BY <1>1, <3>1, RowOf DEF Leads
      <4> QED  BY <4>1, NothingSent
    <3> QED  BY <3>1, <3>3, <3>4 DEF AbreastAt, Abreast
  <2> QED  BY <1>2, <2>1, <2>2
<1> QED  BY <1>3 DEF KeepsUp

\* A notice of a deletion is dismissed.
LEMMA ResolvedKeepsUp ==
  ASSUME NEW d, NEW D, Fine(D, d), NEW s, NEW c, KeepsUp(D, s, c), NEW i \in Id,
         D.conf[i].kind # "version"
  PROVE  KeepsUp(Resolved(D, i), s, c)
<1> DEFINE q == [kind |-> "none", state |-> Absent, local |-> NoData]
           E == Resolved(D, i)
<1>1. D \in DeviceState(d)
  BY DEF Fine
<1>2. Touched(D, E, d, i, D.row[i], q, FirstIds(D, i)) /\ Follows(D, E)
  BY <1>1, ResolvedIs, RecordingTouched, ResolvedFine DEF Leads
<1>3. q.kind # "version"
  OBVIOUS
<1> HIDE DEF q, E
<1>4. KeepsUp(E, s, c)
  BY <1>2, <1>3, SameKeepsUp
<1> QED  BY <1>4 DEF E

\* The same outbox, the same operations sent.
LEMMA SameSent ==
  ASSUME NEW D, NEW E, E.out = D.out, NEW i
  PROVE  SentIds(E, i) = SentIds(D, i)
BY DEF SentIds, Queue, OpsOf

\* The only operation of a record is queued: none is sent.
LEMMA EnqueuedUnsent ==
  ASSUME NEW d, NEW D \in DeviceState(d), NEW i \in Id, OpsOf(D, i) = {},
         NEW action \in {"upsert", "delete"}, NEW data \in Payload \cup {NoData},
         NEW cascade \in BOOLEAN, NEW base \in Nat,
         NEW E, E = Enqueued(D, i, action, data, cascade, base)
  PROVE  SentIds(E, i) = {}
<1> DEFINE n == Len(D.out) + 1
<1>1. Queued(D, E, d, i, n, action, data)
  BY EnqueuedFacts
<1> HIDE DEF n
<1>2. OpsOf(E, i) = {n} /\ ~ E.out[n].sent
  BY <1>1 DEF Queued
<1> QED  BY <1>2 DEF SentIds, Queue

\* A conflict that is settled leaves the record at the version it told.
LEMMA KeepLocalKeepsUp ==
  ASSUME NEW d, NEW D, Fine(D, d), NEW F, Rooted(D, F), NEW s, NEW c, KeepsUp(D, s, c),
         NEW i \in Id, D.conf[i].kind = "version", D.conf[i].state.ver <= s.rec[i].ver
  PROVE  KeepsUp(KeepLocal(D, i), s, c)
<1> DEFINE v == D.conf[i].state.ver
           r == [D.row[i] EXCEPT !.sv = v, !.ver = MaxOf(@, v + 1)]
           E == DropOps(D, i)
           act == IF D.row[i].deleted THEN "delete" ELSE "upsert"
           data == IF D.row[i].deleted THEN NoData ELSE D.row[i].data
           W == WithRow(E, i, r)
           A == Enqueued(W, i, act, data, FALSE, v)
           q == [kind |-> "none", state |-> Absent, local |-> NoData]
           X == Resolved(A, i)
<1>1. /\ D \in DeviceState(d) /\ D.row[i] \in LocalRow /\ v \in Nat
      /\ D.row[i].deleted \in BOOLEAN /\ act \in {"upsert", "delete"}
      /\ data \in Payload \cup {NoData} /\ FALSE \in BOOLEAN
      /\ AbreastAt(D, s, c, i)
  BY RowOf DEF Rooted, Fine, DeviceState, LocalRow, ConflictRow, Row, KeepsUp
<1>2. HasRow(D, i) /\ Fresh(s, c, i, v)
  BY <1>1 DEF AbreastAt, Abreast, HasRow, Known
<1>3. KeepLocal(D, i) = X
  <2>1. E.row[i] = D.row[i]
    BY <1>1, DropTouched DEF Touched
  <2>2. KeepLocal(D, i) =
          Resolved(IF ~ HasRow(D, i) THEN E
                   ELSE IF D.row[i].deleted
                        THEN Enqueued(WithRow(E, i, r), i, "delete", NoData, FALSE, v)
                        ELSE Enqueued(WithRow(E, i, r), i, "upsert", D.row[i].data, FALSE, v), i)
    BY <2>1 DEF KeepLocal
  <2> QED  BY <1>1, <1>2, <2>2
<1>4. r \in LocalRow /\ r.sv = v /\ r.data # NoData
  <2>1. r = Based(D.row[i], v)
    BY DEF Based
  <2> HIDE DEF v, r
  <2> QED  BY <1>1, <1>2, <2>1, BasedRow DEF HasRow
<1>5. Follows(D, X)
  BY <1>3, KeepLocalFine DEF Leads
<1> HIDE DEF v, r, act, data
<1>6. Touched(D, A, d, i, r, D.conf[i], FirstIds(A, i))
  BY <1>1, <1>4, AgainTouched
<1>7. SentIds(A, i) = {}
  <2>1. E \in DeviceState(d) /\ OpsOf(E, i) = {}
    BY <1>1, DropTouched DEF Touched
  <2> HIDE DEF E
  <2>2. W \in DeviceState(d) /\ OpsOf(W, i) = {}
    BY <1>4, <2>1, WithRowFacts DEF RowWritten
  <2> HIDE DEF W
  <2> QED  BY <1>1, <2>2, EnqueuedUnsent
<1> HIDE DEF A, W
<1>8. Touched(D, X, d, i, r, q, FirstIds(A, i))
  BY <1>6, ResolvedIs, RecordedTouched
<1>9. SentIds(X, i) = {}
  <2>1. A \in DeviceState(d)
    BY <1>6 DEF Touched
  <2> QED  BY <1>7, <2>1, RecordingOut, SameSent
<1>10. q.kind # "version"
  OBVIOUS
<1> HIDE DEF X, q
<1>11. Abreast(s, c, i, r, q, {})
  BY <1>1, <1>2, <1>4, <1>10, SettledAbreast DEF v
<1>12. KeepsUp(X, s, c)
  BY <1>5, <1>8, <1>9, <1>11, TouchedKeepsUp
<1> QED  BY <1>3, <1>12

\* What a settled record with no operations left is.
LEMMA DroppedKeepsUp ==
  ASSUME NEW d, NEW D \in DeviceState(d), NEW E, NEW s, NEW c, KeepsUp(D, s, c),
         NEW i \in Id, NEW r, NEW q, Touched(D, E, d, i, r, q, {}), Follows(D, E),
         E.out = DropOps(D, i).out, q.kind # "version",
         r.data # NoData, r.sv \in Int, r.sv <= s.rec[i].ver, Fresh(s, c, i, r.sv)
  PROVE  KeepsUp(E, s, c)
<1>1. SentIds(E, i) = {}
  <2>1. OpsOf(DropOps(D, i), i) = {}
    BY DropTouched
  <2>2. SentIds(DropOps(D, i), i) = {}
    BY <2>1, NothingSent
  <2> QED  BY <2>2, SameSent
<1>2. Abreast(s, c, i, r, q, {})
  BY SettledAbreast
<1> QED  BY <1>1, <1>2, TouchedKeepsUp

\* The conflict is settled by the server's version.
LEMMA TakeServerKeepsUp ==
  ASSUME NEW d, NEW D, Fine(D, d), NEW F, Rooted(D, F), NEW s, NEW c, KeepsUp(D, s, c),
         NEW i \in Id, D.conf[i].kind = "version", D.conf[i].state.ver <= s.rec[i].ver
  PROVE  KeepsUp(TakeServer(D, i), s, c)
<1> DEFINE t == D.conf[i].state
           r == IF t.ver = 0 THEN NoRow
                ELSE IF t.deleted \/ t.data = NoData
                THEN [ver |-> t.ver, sv |-> t.ver, deleted |-> TRUE, data |-> D.row[i].data]
                ELSE [ver |-> t.ver, sv |-> t.ver, deleted |-> FALSE, data |-> t.data]
           G == DropOps(WithRow(D, i, r), i)
           q == [kind |-> "none", state |-> Absent, local |-> NoData]
           X == Resolved(G, i)
<1>1. /\ D \in DeviceState(d) /\ D.row[i] \in LocalRow /\ t \in Row
      /\ D.row[i].data \in Payload \cup {NoData} /\ t.ver >= 1
      /\ AbreastAt(D, s, c, i)
  BY RowOf DEF Rooted, Fine, DeviceState, LocalRow, ConflictRow, KeepsUp
<1>2. HasRow(D, i) /\ Fresh(s, c, i, t.ver)
  BY <1>1 DEF AbreastAt, Abreast, HasRow, Known
<1>3. TakeServer(D, i) = X
  BY <1>2 DEF TakeServer
<1> HIDE DEF t
<1>4. r \in LocalRow /\ r.sv = t.ver /\ r.data # NoData /\ t.ver \in Nat
  <2>1. t.ver \in Nat /\ t.ver # 0 /\ t.data \in Payload \cup {NoData}
    BY <1>1 DEF Row
  <2> QED  BY <1>1, <1>2, <2>1 DEF LocalRow, HasRow
<1>5. Follows(D, X)
  BY <1>3, TakeServerFine DEF Leads
<1> HIDE DEF r
<1>6. Touched(D, G, d, i, r, D.conf[i], {}) /\ G.out = DropOps(D, i).out
  BY <1>1, <1>4, SettledTouched, RecordingOut
<1>7. G \in DeviceState(d)
  BY <1>6 DEF Touched
<1> HIDE DEF G
<1>8. Touched(D, X, d, i, r, q, {}) /\ X.out = DropOps(D, i).out
  BY <1>6, <1>7, ResolvedIs, RecordedTouched, RecordingOut
<1>9. q.kind # "version" /\ r.sv \in Int
  BY <1>4
<1>10. r.sv <= s.rec[i].ver /\ Fresh(s, c, i, r.sv)
  BY <1>2, <1>4 DEF t
<1> HIDE DEF X, q
<1>11. KeepsUp(X, s, c)
  BY <1>1, <1>4, <1>5, <1>8, <1>9, <1>10, DroppedKeepsUp
<1> QED  BY <1>3, <1>11

\* A step wipes no transaction of a device that the server may have heard of
\* (TrataClaims, WipedRowsUnborn).
WipesUnborn ==
  \A d \in Device, t \in Transaction :
    HasRow(dev[d], t) /\ ~ HasRow(dev'[d], t) => Unborn(dev[d], t)

\* What the user does.
LEMMA UserKeepsUp ==
  ASSUME InOrder, Originated, WipesUnborn, NEW d \in Device, User(d) \/ Settle(d),
         NEW plain, Candid(dev[d], srv, plain), KeepsUp(dev[d], srv, cursor[d])
  PROVE  KeepsUp(dev'[d], srv, cursor[d])
<1> DEFINE D == dev[d]
           E == dev'[d]
           c == cursor[d]
<1>0. /\ Fine(D, d) /\ Rooted(D, OnServer(srv)) /\ KeepsUp(D, srv, c)
      /\ \A i \in Id : HasRow(D, i) => i \in born
      /\ \A i \in Id : D.conf[i].local \in Data(i)
      /\ \A F : Locally(d, F) => E = F
      /\ \A i \in Id : i \notin born => srv.rec[i].ver = 0
  <2>1. /\ Fine(D, d) /\ Rooted(D, OnServer(srv)) /\ KeepsUp(D, srv, c)
        /\ \A i \in Id : HasRow(D, i) => i \in born
        /\ \A i \in Id : D.conf[i].local \in Data(i)
        /\ \A F : Locally(d, F) => E = F
    BY DEF InOrder, DeviceOK, Fine, Told, Heard, Originated, Traces, Locally
  <2>2. \A i \in Id : srv.rec[i].ver \in Nat
    BY DEF InOrder, ServerOK, ServerState, Row
  <2>3. \A i \in Id : Found(srv, i) => i \in born
    BY DEF InOrder, KnownTo
  <2> QED  BY <2>1, <2>2, <2>3 DEF Found
<1>9. \A t \in Transaction : HasRow(D, t) /\ ~ HasRow(E, t) => Unborn(D, t)
  BY DEF WipesUnborn
<1>10. \A i \in Id : LiveRow(D, i) /\ Unborn(D, i) => ~ Found(srv, i)
  BY OriginatedUnborn DEF UnbornUnknown
<1>11. \A i \in Id : D.conf[i].kind = "version" => D.conf[i].state.ver <= srv.rec[i].ver
  BY DEF Candid, JustAt, Just, Says
<1> HIDE DEF E, c
<1>1. ASSUME NEW i \in Id, UserCreates(d, i)  PROVE KeepsUp(E, srv, c)
  <2>1. PICK data \in UserData \cap PayloadOf(i) : Locally(d, LocalCreate(D, i, data))
    BY <1>1 DEF UserCreates
  <2>2. ~ HasRow(D, i) /\ srv.rec[i].ver = 0
    BY <1>0, <1>1 DEF UserCreates
  <2>3. KeepsUp(LocalCreate(D, i, data), srv, c)
    BY <1>0, <2>2, CreateKeepsUp
  <2> QED  BY <1>0, <2>1, <2>3
<1>2. ASSUME NEW i \in Id, UserUpdates(d, i)  PROVE KeepsUp(E, srv, c)
  <2>1. PICK data \in UserData \cap PayloadOf(i) : Locally(d, LocalUpdate(D, i, data))
    BY <1>2 DEF UserUpdates
  <2>2. LiveRow(D, i)
    BY <1>2 DEF UserUpdates
  <2>3. KeepsUp(LocalUpdate(D, i, data), srv, c)
    BY <1>0, <2>2, UpdateKeepsUp
  <2> QED  BY <1>0, <2>1, <2>3
<1>3. ASSUME NEW i \in Id, NEW cascade \in BOOLEAN, UserRemoves(d, i, cascade)
      PROVE  KeepsUp(E, srv, c)
  <2>1. LiveRow(D, i) /\ E = LocalRemove(D, i, cascade)
    BY <1>0, <1>3 DEF UserRemoves
  <2> QED  BY <1>0, <1>9, <1>10, <2>1, RemoveKeepsUp
<1>4. ASSUME NEW i \in Id, UserDismisses(d, i)  PROVE KeepsUp(E, srv, c)
  <2>1. Locally(d, Resolved(D, i)) /\ D.conf[i].kind # "version"
    BY <1>4 DEF UserDismisses
  <2>2. KeepsUp(Resolved(D, i), srv, c)
    BY <1>0, <2>1, ResolvedKeepsUp
  <2> QED  BY <1>0, <2>1, <2>2
<1>5. ASSUME NEW i \in Id, NEW j \in Id, UserRestores(d, i, j)
      PROVE  KeepsUp(E, srv, c)
  <2> DEFINE lost == D.conf[i].local
             F == LocalCreate(D, j, lost)
  <2>1. /\ lost # NoData /\ (i \in Category <=> j \in Category) /\ j \notin born
        /\ Locally(d, F) \/ Locally(d, Resolved(F, i))
        /\ D.conf[i].kind # "version"
    BY <1>5 DEF UserRestores
  <2>2. lost \in PayloadOf(j)
    <3>1. lost \in PayloadOf(i)
      BY <1>0, <2>1 DEF Data
    <3> QED  BY <2>1, <3>1 DEF PayloadOf
  <2> HIDE DEF lost
  <2>3. ~ HasRow(D, j) /\ srv.rec[j].ver = 0
    BY <1>0, <2>1
  <2>4. KeepsUp(F, srv, c) /\ Fine(F, d)
    BY <1>0, <2>2, <2>3, CreateKeepsUp, CreateFine DEF Leads
  <2>5. F.conf = D.conf
    BY DEF LocalCreate, Enqueued, WithRow
  <2> HIDE DEF F
  <2>6. KeepsUp(Resolved(F, i), srv, c)
    BY <2>1, <2>4, <2>5, ResolvedKeepsUp
  <2> QED  BY <1>0, <2>1, <2>4, <2>6
<1>6. ASSUME NEW i \in Id, UserKeeps(d, i)  PROVE KeepsUp(E, srv, c)
  <2>1. Locally(d, KeepLocal(D, i)) /\ D.conf[i].kind = "version"
    BY <1>6 DEF UserKeeps
  <2>2. KeepsUp(KeepLocal(D, i), srv, c)
    BY <1>0, <1>11, <2>1, KeepLocalKeepsUp
  <2> QED  BY <1>0, <2>1, <2>2
<1>7. ASSUME NEW i \in Id, UserTakes(d, i)  PROVE KeepsUp(E, srv, c)
  <2>1. Locally(d, TakeServer(D, i)) /\ D.conf[i].kind = "version"
    BY <1>7 DEF UserTakes
  <2>2. KeepsUp(TakeServer(D, i), srv, c)
    BY <1>0, <1>11, <2>1, TakeServerKeepsUp
  <2> QED  BY <1>0, <2>1, <2>2
<1>8. KeepsUp(E, srv, c)
  BY <1>1, <1>2, <1>3, <1>4, <1>5, <1>6, <1>7 DEF User, Settle
<1> QED  BY <1>8 DEF E, c

-----------------------------------------------------------------------------
(* What the engine takes in of a record: it settles at version v, or a     *)
(* conflict is open on it that tells version v.                            *)

\* Nothing of i waits that was sent, and its row is confirmed at v.
Settles(D, E, d, i, v) ==
  \E r, q, A : /\ Touched(D, E, d, i, r, q, A) /\ SentIds(E, i) = {}
               /\ r.data # NoData /\ r.sv = v /\ q.kind # "version"

\* A conflict is open on i that tells version v; the row stays.
Opens(D, E, d, i, v) ==
  \E q, A : /\ Touched(D, E, d, i, D.row[i], q, A)
            /\ q.kind = "version" /\ q.state.ver = v

\* A record that settles at a version that is the server's, or behind the cursor.
LEMMA SettlesKeepsUp ==
  ASSUME NEW d, NEW D, NEW E, NEW s, NEW c, NEW i \in Id, NEW v \in Nat,
         \A j \in Id \ {i} : AbreastAt(D, s, c, j),
         Settles(D, E, d, i, v), Follows(D, E), v <= s.rec[i].ver, Fresh(s, c, i, v)
  PROVE  KeepsUp(E, s, c)
<1>1. PICK r, q, A : /\ Touched(D, E, d, i, r, q, A) /\ SentIds(E, i) = {}
                     /\ r.data # NoData /\ r.sv = v /\ q.kind # "version"
  BY DEF Settles
<1>2. Abreast(s, c, i, r, q, {})
  BY <1>1, SettledAbreast
<1> QED  BY <1>1, <1>2, TouchedElsewhere

\* A conflict that opens on such a version.
LEMMA OpensKeepsUp ==
  ASSUME NEW d, NEW D, NEW E, NEW s, NEW c, NEW i \in Id, NEW v \in Nat,
         \A j \in Id \ {i} : AbreastAt(D, s, c, j),
         Opens(D, E, d, i, v), Follows(D, E), D.row[i].data # NoData,
         D.row[i].sv <= s.rec[i].ver, D.row[i].sv <= v, Fresh(s, c, i, v)
  PROVE  KeepsUp(E, s, c)
<1>1. PICK q, A : /\ Touched(D, E, d, i, D.row[i], q, A)
                  /\ q.kind = "version" /\ q.state.ver = v
  BY DEF Opens
<1>2. Abreast(s, c, i, D.row[i], q, SentIds(E, i))
  BY <1>1 DEF Abreast, Known
<1> QED  BY <1>1, <1>2, TouchedElsewhere

\* The server's row replaces a CLEAN one, or one whose operations go.
LEMMA OverwrittenSettles ==
  ASSUME NEW d, NEW D \in DeviceState(d), NEW i \in Id, D.conf[i].kind # "version",
         NEW r \in LocalRow, r.data # NoData
  PROVE  /\ OpsOf(D, i) = {} => Settles(D, WithRow(D, i, r), d, i, r.sv)
         /\ Settles(D, DropOps(WithRow(D, i, r), i), d, i, r.sv)
<1>1. ASSUME OpsOf(D, i) = {}  PROVE Settles(D, WithRow(D, i, r), d, i, r.sv)
  <2> DEFINE E == WithRow(D, i, r)
  <2>1. Touched(D, E, d, i, r, D.conf[i], FirstIds(D, i))
    BY WithRowTouched
  <2>2. OpsOf(E, i) = {}
    BY <1>1, WithRowFacts DEF RowWritten
  <2> HIDE DEF E
  <2>3. SentIds(E, i) = {}
    BY <2>2, NothingSent
  <2>4. Settles(D, E, d, i, r.sv)
    BY <2>1, <2>3 DEF Settles
  <2> QED  BY <2>4 DEF E
<1>2. Settles(D, DropOps(WithRow(D, i, r), i), d, i, r.sv)
  <2> DEFINE W == WithRow(D, i, r)
             E == DropOps(W, i)
  <2>1. Touched(D, E, d, i, r, D.conf[i], {})
    BY SettledTouched
  <2>2. W \in DeviceState(d)
    BY WithRowFacts DEF RowWritten
  <2> HIDE DEF W
  <2>3. OpsOf(E, i) = {}
    BY <2>2, DropTouched
  <2> HIDE DEF E
  <2>4. SentIds(E, i) = {}
    BY <2>3, NothingSent
  <2>5. Settles(D, E, d, i, r.sv)
    BY <2>1, <2>4 DEF Settles
  <2> QED  BY <2>5 DEF E, W
<1> QED  BY <1>1, <1>2

\* The server's tombstone replaces the row.
LEMMA DeleteWinsSettles ==
  ASSUME NEW d, NEW D, Fine(D, d), NEW i \in Id, HasRow(D, i), NEW v \in Nat
  PROVE  Settles(D, DeleteWins(D, i, v), d, i, v)
<1> DEFINE q == [kind |-> "deleted", state |-> [ver |-> v, deleted |-> TRUE, data |-> NoData],
                 local |-> D.row[i].data]
           r == [ver |-> v, sv |-> v, deleted |-> TRUE, data |-> D.row[i].data]
           W == WithRow(D, i, r)
           X == DropOps(W, i)
           E == DeleteWins(D, i, v)
<1>1. PICK t : /\ Touched(D, E, d, i, t, q, {})
               /\ HasRow(D, i) => t.sv = v /\ t.deleted /\ t.data = D.row[i].data
  BY DeleteWinsTouched
<1>2. E = Recording(X, i, "deleted", [ver |-> v, deleted |-> TRUE, data |-> NoData],
                    D.row[i].data)
  BY DEF DeleteWins
<1>3. D \in DeviceState(d) /\ r \in LocalRow
  BY RowOf DEF LocalRow
<1> HIDE DEF r, E
<1>4. X \in DeviceState(d) /\ OpsOf(X, i) = {}
  <2>1. W \in DeviceState(d)
    BY <1>3, WithRowFacts DEF RowWritten
  <2> HIDE DEF W
  <2> QED  BY <2>1, DropTouched DEF Touched
<1> HIDE DEF X
<1>5. SentIds(E, i) = {}
  <2>1. E.out = X.out
    BY <1>2, <1>4, RecordingOut
  <2>2. SentIds(X, i) = {}
    BY <1>4, NothingSent
  <2> QED  BY <2>1, <2>2, SameSent
<1>6. q.kind # "version"
  OBVIOUS
<1> HIDE DEF q
<1>7. Settles(D, E, d, i, v)
  BY <1>1, <1>5, <1>6 DEF Settles, HasRow
<1> QED  BY <1>7 DEF E

\* The local tombstone is that of the server's version.
LEMMA LocalDeleteWinsSettles ==
  ASSUME NEW d, NEW D, Fine(D, d), NEW i \in Id, HasRow(D, i), D.row[i].deleted,
         NEW state \in Row
  PROVE  Settles(D, LocalDeleteWins(D, i, state), d, i, state.ver)
<1> DEFINE v == state.ver
           r == [D.row[i] EXCEPT !.sv = v, !.ver = MaxOf(@, v + 1)]
           q == [kind |-> "deleted", state |-> state, local |-> state.data]
           G == DropOps(WithRow(D, i, r), i)
           A == Enqueued(G, i, "delete", NoData, FALSE, v)
           E == LocalDeleteWins(D, i, state)
<1>1. /\ D \in DeviceState(d) /\ D.row[i] \in LocalRow /\ v \in Nat
      /\ state.data \in Payload \cup {NoData} /\ NoData \in Payload \cup {NoData}
      /\ "deleted" \in {"none", "version", "deleted"} /\ "delete" \in {"upsert", "delete"}
      /\ FALSE \in BOOLEAN
  BY RowOf DEF Row
<1>2. E = Recording(A, i, "deleted", state, state.data)
  BY DEF LocalDeleteWins
<1>3. r \in LocalRow /\ r.sv = v /\ r.data = D.row[i].data
  <2>1. r = Based(D.row[i], v)
    BY DEF Based
  <2> HIDE DEF v, r
  <2> QED  BY <1>1, <2>1, BasedRow
<1> HIDE DEF r, E
<1>4. Touched(D, G, d, i, r, D.conf[i], {}) /\ OpsOf(G, i) = {}
  <2> DEFINE W == WithRow(D, i, r)
  <2>1. W \in DeviceState(d)
    BY <1>1, <1>3, WithRowFacts DEF RowWritten
  <2>2. Touched(D, G, d, i, r, D.conf[i], {})
    BY <1>1, <1>3, SettledTouched
  <2> HIDE DEF W
  <2>3. OpsOf(DropOps(W, i), i) = {}
    BY <2>1, DropTouched
  <2> QED  BY <2>2, <2>3 DEF W
<1> HIDE DEF G, v
<1>5. /\ G \in DeviceState(d) /\ G.row[i] = r /\ G.conf[i] = D.conf[i]
  BY <1>4 DEF Touched
<1>6. SentIds(A, i) = {} /\ Touched(G, A, d, i, G.row[i], G.conf[i], FirstIds(A, i))
  <2> HIDE DEF A, Touched
  <2>1. A = Enqueued(G, i, "delete", NoData, FALSE, v)
    BY DEF A
  <2> QED  BY <1>1, <1>4, <1>5, <2>1, EnqueuedTouched, EnqueuedUnsent
<1> HIDE DEF A
<1>7. Touched(D, A, d, i, r, D.conf[i], FirstIds(A, i)) /\ A \in DeviceState(d)
  <2>1. Touched(D, A, d, i, G.row[i], G.conf[i], FirstIds(A, i))
    BY <1>4, <1>6, TouchedOn
  <2> QED  BY <1>5, <2>1 DEF Touched
<1>8. Touched(D, E, d, i, r, q, FirstIds(A, i))
  BY <1>1, <1>2, <1>7, RecordedTouched
<1>9. SentIds(E, i) = {}
  <2>1. E.out = A.out
    BY <1>2, <1>7, RecordingOut
  <2> QED  BY <1>6, <2>1, SameSent
<1>10. q.kind # "version"
  OBVIOUS
<1> HIDE DEF q
<1>11. Settles(D, E, d, i, v)
  BY <1>3, <1>8, <1>9, <1>10 DEF Settles, HasRow
<1> QED  BY <1>11 DEF E, v

\* A conflict on the server's state.
LEMMA RecordedOpens ==
  ASSUME NEW d, NEW D \in DeviceState(d), NEW i \in Id, NEW state \in Row,
         NEW local \in Payload \cup {NoData}
  PROVE  Opens(D, Recording(D, i, "version", state, local), d, i, state.ver)
<1> DEFINE q == [kind |-> "version", state |-> state, local |-> local]
           E == Recording(D, i, "version", state, local)
<1>1. Touched(D, E, d, i, D.row[i], q, FirstIds(D, i))
  BY RecordingTouched
<1>2. q.kind = "version" /\ q.state.ver = state.ver
  OBVIOUS
<1> HIDE DEF q, E
<1>3. Opens(D, E, d, i, state.ver)
  BY <1>1, <1>2 DEF Opens
<1> QED  BY <1>3 DEF E

\* What taking in a change comes to.
LEMMA ChangeOutcome ==
  ASSUME NEW d, NEW D, Fine(D, d), NEW ch \in PulledChange, ch.data \in Data(ch.id),
         NEW i, i = ch.id, D.conf[i].kind = "version" => HasRow(D, i),
         NEW E, E = ChangeTakenIn(D, ch)
  PROVE  \/ /\ E = D
            /\ \/ ch.action = "tombstone" /\ ~ HasRow(D, i)
               \/ ch.action # "tombstone" /\ ch.data = NoData
               \/ HasRow(D, i) /\ ch.ver <= D.row[i].sv
         \/ Settles(D, E, d, i, ch.ver)
         \/ HasRow(D, i) /\ ch.ver > D.row[i].sv /\ Opens(D, E, d, i, ch.ver)
<1> DEFINE r == D.row[i]
           dead == ch.action = "tombstone"
           up == [ver |-> ch.ver, sv |-> ch.ver, deleted |-> FALSE, data |-> ch.data]
           tomb == [ver |-> ch.ver, sv |-> ch.ver, deleted |-> TRUE, data |-> r.data]
           bad == [r EXCEPT !.ver = ch.ver, !.sv = ch.ver]
           state == StateOf(ch)
<1>1. /\ i \in Id /\ ch.ver \in Nat /\ ch.data \in Payload \cup {NoData}
      /\ D \in DeviceState(d)
      /\ r \in LocalRow /\ r.sv \in Nat /\ r.data \in Payload \cup {NoData}
      /\ (~ HasRow(D, i) \/ Clean(D, i) => OpsOf(D, i) = {})
  BY RowOf, NoRowFacts DEF PulledChange
<1>2. up \in LocalRow /\ tomb \in LocalRow
  BY <1>1 DEF LocalRow
<1>3. bad \in LocalRow /\ bad.sv = ch.ver /\ bad.data = r.data
  <2> HIDE DEF r
  <2> QED  BY <1>1 DEF LocalRow
<1>4. state \in Row /\ state.ver = ch.ver
  BY <1>1 DEF StateOf, Row
<1>5. \/ /\ E = D
         /\ \/ dead /\ ~ HasRow(D, i)
            \/ ~ dead /\ ch.data = NoData
            \/ HasRow(D, i) /\ ch.ver <= r.sv
      \/ /\ D.conf[i].kind # "version" /\ OpsOf(D, i) = {} /\ ch.data # NoData
         /\ E = WithRow(D, i, up)
      \/ /\ HasRow(D, i) /\ D.conf[i].kind # "version" /\ OpsOf(D, i) = {}
         /\ E = WithRow(D, i, tomb)
      \/ HasRow(D, i) /\ ch.ver > r.sv /\ E = Recording(D, i, "version", state, r.data)
      \/ /\ HasRow(D, i) /\ D.conf[i].kind # "version"
         /\ E = DropOps(WithRow(D, i, bad), i)
      \/ HasRow(D, i) /\ E = DeleteWins(D, i, ch.ver)
      \/ HasRow(D, i) /\ r.deleted /\ E = LocalDeleteWins(D, i, state)
  <2>1. HasRow(D, i) /\ ~ (ch.ver <= r.sv) => ch.ver > r.sv
    BY <1>1
  <2>2. D.conf[i].kind = "none" => D.conf[i].kind # "version"
    OBVIOUS
  <2> HIDE DEF r, up, tomb, bad, state
  <2>3. E = IF ~ HasRow(D, i)
            THEN IF dead \/ ch.data = NoData THEN D ELSE WithRow(D, i, up)
            ELSE IF ch.ver <= r.sv THEN D
            ELSE IF D.conf[i].kind # "none" THEN Recording(D, i, "version", state, r.data)
            ELSE IF Clean(D, i)
            THEN IF dead THEN WithRow(D, i, tomb)
                 ELSE IF ch.data = NoData THEN D ELSE WithRow(D, i, up)
            ELSE IF dead /\ r.deleted THEN DropOps(WithRow(D, i, bad), i)
            ELSE IF dead THEN DeleteWins(D, i, ch.ver)
            ELSE IF r.deleted THEN LocalDeleteWins(D, i, state)
            ELSE Recording(D, i, "version", state, r.data)
    BY DEF ChangeTakenIn, OverClean, r, up, tomb, bad, state
  <2> HIDE DEF dead
  <2> QED  BY <1>1, <2>1, <2>2, <2>3
<1>6. up.sv = ch.ver /\ up.data = ch.data /\ tomb.sv = ch.ver /\ tomb.data = r.data
  OBVIOUS
<1>7. HasRow(D, i) => r.data # NoData
  BY DEF HasRow
<1> HIDE DEF up, tomb, bad, state, dead, r
<1>8. D.conf[i].kind # "version" /\ OpsOf(D, i) = {} /\ ch.data # NoData
        => Settles(D, WithRow(D, i, up), d, i, ch.ver)
  BY <1>1, <1>2, <1>6, OverwrittenSettles
<1>9. HasRow(D, i) /\ D.conf[i].kind # "version" /\ OpsOf(D, i) = {}
        => Settles(D, WithRow(D, i, tomb), d, i, ch.ver)
  BY <1>1, <1>2, <1>6, <1>7, OverwrittenSettles
<1>10. HasRow(D, i) /\ D.conf[i].kind # "version"
        => Settles(D, DropOps(WithRow(D, i, bad), i), d, i, ch.ver)
  BY <1>1, <1>3, <1>7, OverwrittenSettles
<1>11. HasRow(D, i) => Settles(D, DeleteWins(D, i, ch.ver), d, i, ch.ver)
  BY <1>1, DeleteWinsSettles
<1>12. HasRow(D, i) /\ r.deleted => Settles(D, LocalDeleteWins(D, i, state), d, i, ch.ver)
  BY <1>1, <1>4, LocalDeleteWinsSettles DEF r
<1>13. Opens(D, Recording(D, i, "version", state, r.data), d, i, ch.ver)
  BY <1>1, <1>4, RecordedOpens
<1> QED  BY <1>5, <1>8, <1>9, <1>10, <1>11, <1>12, <1>13 DEF r, dead

-----------------------------------------------------------------------------
(* A page is taken in: the cursor moves on.                                *)

\* The cursor moves from c to a, past no entry of record i.
LEMMA AbreastMoves ==
  ASSUME NEW s, NEW c, NEW a, NEW i, Behind(s, c, i) => Behind(s, a, i),
         NEW r, NEW q, NEW S, Abreast(s, c, i, r, q, S)
  PROVE  Abreast(s, a, i, r, q, S)
BY DEF Abreast, Fresh

\* A change is taken in, and the cursor moves from c past it, to a.
LEMMA ChangeKeepsUp ==
  ASSUME NEW d, NEW D, Fine(D, d), NEW s, ServerOK(s), NEW c, KeepsUp(D, s, c),
         NEW ch \in PulledChange, ch.data \in Data(ch.id), ChangeSays(s, ch), NEW a,
         \A j \in Id \ {ch.id} : Behind(s, c, j) => Behind(s, a, j),
         Behind(s, a, ch.id) \/ ch.ver = s.rec[ch.id].ver
  PROVE  KeepsUp(ChangeTakenIn(D, ch), s, a)
<1> DEFINE i == ch.id
           r == D.row[i]
           v == ch.ver
           w == s.rec[i].ver
           dead == ch.action = "tombstone"
           S == SentIds(D, i)
           E == ChangeTakenIn(D, ch)
<1>1. /\ i \in Id /\ v \in Nat /\ r.sv \in Nat /\ w \in Nat /\ dead \in BOOLEAN
      /\ D.conf[i].state.ver \in Nat
      /\ D \in DeviceState(d)
  <2>1. i \in Id /\ v \in Nat
    BY DEF PulledChange
  <2>2. D \in DeviceState(d) /\ r.sv \in Nat
    BY <2>1, RowOf
  <2>3. D.conf[i].state.ver \in Nat
    BY <2>1, <2>2 DEF DeviceState, ConflictRow, Row
  <2>4. w \in Nat
    BY <2>1 DEF ServerOK, ServerState, Row
  <2> QED  BY <2>1, <2>2, <2>3, <2>4
<1>2. Abreast(s, c, i, r, D.conf[i], S)
  BY <1>1 DEF KeepsUp, AbreastAt
<1>3. \A j \in Id \ {i} : AbreastAt(D, s, a, j)
  BY AbreastMoves DEF KeepsUp, AbreastAt
<1>4. /\ v <= w
      /\ v = w => dead = s.rec[i].deleted /\ (~ dead => ch.data # NoData)
  BY DEF ChangeSays, Says
<1>5. Follows(D, E)
  BY ChangeTakenInFine DEF Leads
<1>6. Fresh(s, a, i, v)
  BY <1>1 DEF Fresh
<1>7. D.conf[i].kind = "version" => HasRow(D, i)
  BY <1>2 DEF Abreast, HasRow
<1>8. Behind(s, a, i) => Abreast(s, a, i, r, D.conf[i], S)
  BY <1>2, AbreastMoves
<1>9. Behind(s, a, i) \/ v = w
  OBVIOUS
<1>10. \/ /\ E = D
          /\ \/ dead /\ ~ HasRow(D, i)
             \/ ~ dead /\ ch.data = NoData
             \/ HasRow(D, i) /\ v <= D.row[i].sv
       \/ Settles(D, E, d, i, v)
       \/ HasRow(D, i) /\ v > r.sv /\ Opens(D, E, d, i, v)
  <2>1. E = ChangeTakenIn(D, ch) /\ i = ch.id
    OBVIOUS
  <2> HIDE DEF E, i
  <2> QED  BY <1>7, <2>1, ChangeOutcome
<1>11. ~ HasRow(D, i) => S = {}
  BY <1>1, RowOf, NothingSent
<1> HIDE DEF E, S, dead, w, v, i
<1>12. CASE Settles(D, E, d, i, v)
  BY <1>1, <1>3, <1>4, <1>5, <1>6, <1>12, SettlesKeepsUp DEF E, w
<1>13. CASE HasRow(D, i) /\ v > r.sv /\ Opens(D, E, d, i, v)
  <2>1. r.sv <= v /\ r.data # NoData /\ r.sv <= s.rec[i].ver
    BY <1>1, <1>2, <1>13 DEF HasRow, Abreast
  <2> QED  BY <1>1, <1>3, <1>5, <1>6, <1>13, <2>1, OpensKeepsUp DEF E
<1>14. CASE /\ E = D
            /\ \/ dead /\ ~ HasRow(D, i)
               \/ ~ dead /\ ch.data = NoData
               \/ HasRow(D, i) /\ v <= r.sv
  <2>1. Abreast(s, a, i, r, D.conf[i], S)
    <3>1. CASE Behind(s, a, i)
      BY <1>8, <3>1
    <3>2. CASE v = w /\ dead /\ ~ HasRow(D, i)
      BY <1>2, <1>4, <1>11, <3>2 DEF Abreast, HasRow, Live
    <3>3. CASE v = w /\ HasRow(D, i) /\ v <= r.sv
      <4>1. Known(r, D.conf[i]) \in Nat
        BY <1>1 DEF Known
      <4>2. r.sv <= Known(r, D.conf[i]) /\ w <= r.sv /\ r.sv <= w
        BY <1>2, <3>3 DEF Abreast, HasRow, w
      <4>3. Fresh(s, a, i, Known(r, D.conf[i]))
        BY <1>1, <4>1, <4>2 DEF Fresh, w
      <4>4. \A o \in S : s.applied[o] \in Nat /\ s.applied[o] >= r.sv => Fresh(s, a, i, s.applied[o])
        BY <1>1, <4>2 DEF Fresh, w
      <4> QED  BY <1>2, <3>3, <4>3, <4>4 DEF Abreast, HasRow
    <3> QED  BY <1>4, <1>9, <1>14, <3>1, <3>2, <3>3
  <2>2. AbreastAt(D, s, a, i)
    BY <2>1 DEF S, AbreastAt
  <2>3. KeepsUp(D, s, a)
    BY <1>3, <2>2 DEF KeepsUp
  <2> QED  BY <1>14, <2>3 DEF E
<1> QED  BY <1>10, <1>12, <1>13, <1>14 DEF E

\* The log numbers its entries apart, and the last entry of a record has its version.
Ledger(s) ==
  /\ \A e, f \in s.log : e.seq = f.seq => e = f
  /\ \A e \in s.log : (\A f \in s.log : f.id = e.id => f.seq <= e.seq)
                        => e.ver = s.rec[e.id].ver

\* A page goes through the log from beyond c on, in order and without a gap.
Orderly(page, s, c) ==
  /\ \A k \in DOMAIN page :
       /\ page[k].seq > c
       /\ \E e \in s.log : /\ e.seq = page[k].seq /\ e.id = page[k].id
                           /\ e.ver = page[k].ver
  /\ \A j, k \in DOMAIN page : j < k => page[j].seq < page[k].seq
  /\ \A e \in s.log :
       e.seq > c => \/ \E k \in DOMAIN page : page[k].seq = e.seq /\ page[k].id = e.id
                    \/ \A k \in DOMAIN page : page[k].seq < e.seq

\* The cursor after the first k changes of a page.
CursorAt(page, c, k) == IF k = 0 THEN c ELSE page[k].seq

\* Taking in one change leaves no other record behind, and this one only if the
\* change is not the last of it.
LEMMA CursorMoves ==
  ASSUME NEW s, ServerOK(s), Ledger(s), NEW c \in Nat, NEW page, NEW n \in Nat,
         DOMAIN page = 1..n, \A k \in 1..n : page[k] \in PulledChange,
         Orderly(page, s, c), NEW k \in 1..n,
         NEW a, a = CursorAt(page, c, k - 1), NEW b, b = CursorAt(page, c, k)
  PROVE  /\ \A j \in Id \ {page[k].id} : Behind(s, a, j) => Behind(s, b, j)
         /\ Behind(s, b, page[k].id) \/ page[k].ver = s.rec[page[k].id].ver
<1>0. /\ b = page[k].seq /\ (k = 1 => a = c) /\ (k # 1 => k - 1 \in 1..n /\ a = page[k - 1].seq)
      /\ \A m \in 1..n : page[m].seq \in Nat
      /\ \A e \in s.log : e.seq \in Nat
  BY DEF CursorAt, PulledChange, ServerOK, ServerState, Entry
<1>4. \A l, m \in 1..n : l < m => page[l].seq < page[m].seq
  BY DEF Orderly
<1>1. a \in Nat /\ b \in Nat /\ a >= c /\ \A m \in 1..n : m <= k - 1 => page[m].seq <= a
  <2>1. CASE k = 1
    BY <1>0, <2>1
  <2>2. CASE k # 1
    <3>1. a > c /\ a \in Nat
      BY <1>0, <2>2 DEF Orderly
    <3>2. ASSUME NEW m \in 1..n, m <= k - 1  PROVE page[m].seq <= a
      <4>1. CASE m = k - 1
        BY <1>0, <2>2, <4>1
      <4>2. CASE m < k - 1
        <5>1. k - 1 \in 1..n
          BY <2>2
        <5>2. page[m].seq < page[k - 1].seq
          BY <1>4, <4>2, <5>1
        <5> QED  BY <1>0, <2>2, <5>2
      <4> QED  BY <3>2, <4>1, <4>2
    <3> QED  BY <1>0, <3>1, <3>2
  <2> QED  BY <2>1, <2>2
<1>2. ASSUME NEW j \in Id \ {page[k].id}, Behind(s, a, j)  PROVE Behind(s, b, j)
  <2>1. PICK e \in s.log : e.id = j /\ e.seq > a
    BY <1>2 DEF Behind
  <2>2. ASSUME ~ (e.seq > b)  PROVE FALSE
    <3>1. e.seq > c /\ ~ (page[k].seq < e.seq)
      BY <1>0, <1>1, <2>1, <2>2
    <3>2. PICK m \in 1..n : page[m].seq = e.seq /\ page[m].id = e.id
      BY <3>1 DEF Orderly
    <3>3. m # k
      BY <2>1, <3>2
    <3>4. ~ (m <= k - 1)
      BY <1>0, <1>1, <2>1, <3>2
    <3>5. m > k
      BY <3>3, <3>4
    <3>6. page[k].seq < page[m].seq
      BY <3>5 DEF Orderly
    <3> QED  BY <3>1, <3>2, <3>6
  <2> QED  BY <2>1, <2>2 DEF Behind
<1>3. ASSUME ~ Behind(s, b, page[k].id)  PROVE page[k].ver = s.rec[page[k].id].ver
  <2>1. PICK e \in s.log : e.seq = page[k].seq /\ e.id = page[k].id /\ e.ver = page[k].ver
    BY DEF Orderly
  <2>2. \A f \in s.log : f.id = e.id => f.seq <= e.seq
    BY <1>0, <1>3, <2>1 DEF Behind
  <2> QED  BY <2>1, <2>2 DEF Ledger
<1> QED  BY <1>2, <1>3

\* What goes from one change of a page to the next.
LEMMA PageClimbs ==
  ASSUME NEW page, NEW n \in Nat, DOMAIN page = 1..n, NEW X, NEW D \in X,
         \A E \in X : \A k \in 1..n : ChangeTakenIn(E, page[k]) \in X,
         NEW Y, D \in Y[0],
         \A k \in 1..n : \A E \in X : E \in Y[k - 1] => ChangeTakenIn(E, page[k]) \in Y[k]
  PROVE  PageTakenIn(D, page) \in X /\ PageTakenIn(D, page) \in Y[n]
<1> DEFINE step == [p \in X \X (1..n) |-> ChangeTakenIn(p[1], page[p[2]])]
           Iter(g) == g = [t \in SUBSET (1..n) |->
                             IF t = {} THEN D
                             ELSE ChangeTakenIn(g[t \ {Max(t)}], page[Max(t)])]
           iter == CHOOSE g : Iter(g)
<1>1. \E g : Iter(g)
  <2>1. step \in [X \X (1..n) -> X]
    OBVIOUS
  <2>a. PICK f \in [SUBSET (1..n) -> X] : Iterates(f, n, D, step)
    <3> HIDE DEF step
    <3> QED  BY <2>1, IterExists
  <2>2. \A t \in SUBSET (1..n) :
          f[t] = IF t = {} THEN D ELSE step[<<f[t \ {Max(t)}], Max(t)>>]
    BY <2>a DEF Iterates
  <2>3. ASSUME NEW t \in SUBSET (1..n), t # {}
        PROVE  step[<<f[t \ {Max(t)}], Max(t)>>] = ChangeTakenIn(f[t \ {Max(t)}], page[Max(t)])
    <3>1. Max(t) \in 1..n
      BY <2>3, MaxFacts
    <3>2. f[t \ {Max(t)}] \in X
      BY <2>2
    <3> QED  BY <3>1, <3>2
  <2>4. Iter(f)
    <3>1. f = [t \in SUBSET (1..n) |-> f[t]]
      BY <2>2
    <3>2. \A t \in SUBSET (1..n) :
            f[t] = IF t = {} THEN D ELSE ChangeTakenIn(f[t \ {Max(t)}], page[Max(t)])
      BY <2>2, <2>3
    <3> HIDE DEF step
    <3> QED  BY <3>1, <3>2
  <2> QED  BY <2>4
<1>2. PageTakenIn(D, page) = iter[1..n]
  BY DEF PageTakenIn, FoldLeft, MapThenFoldSet
<1>3. Iter(iter)
  <2> HIDE DEF Iter
  <2> QED  BY <1>1
<1> HIDE DEF iter
<1>4. \A t \in SUBSET (1..n) :
        iter[t] = IF t = {} THEN D ELSE ChangeTakenIn(iter[t \ {Max(t)}], page[Max(t)])
  BY <1>3
<1> DEFINE Z == [k \in 0..n |-> X \cap Y[k]]
<1>5. iter[{}] \in Z[0]
  <2>1. {} \in SUBSET (1..n) /\ 0 \in 0..n
    OBVIOUS
  <2> QED  BY <1>4, <2>1
<1>6. ASSUME NEW k \in Nat, k + 1 <= n, iter[1..k] \in Z[k]
      PROVE  iter[1..(k + 1)] \in Z[k + 1]
  <2>1. /\ 1..(k + 1) \in SUBSET (1..n) /\ 1..(k + 1) # {}
        /\ (1..(k + 1)) \ {k + 1} = 1..k /\ k + 1 \in 1..n
        /\ Max(1..(k + 1)) = k + 1
    BY <1>6, Prefix
  <2>2. iter[1..(k + 1)] = ChangeTakenIn(iter[1..k], page[k + 1])
    BY <1>4, <2>1
  <2>3. k \in 0..n /\ k + 1 \in 0..n /\ (k + 1) - 1 = k
    BY <1>6
  <2>4. iter[1..k] \in X /\ iter[1..k] \in Y[k]
    BY <1>6, <2>3
  <2>5. /\ ChangeTakenIn(iter[1..k], page[k + 1]) \in X
        /\ ChangeTakenIn(iter[1..k], page[k + 1]) \in Y[k + 1]
    BY <2>1, <2>3, <2>4
  <2> QED  BY <2>2, <2>3, <2>5
<1>7. iter[1..n] \in Z[n]
  <2> HIDE DEF Z
  <2> QED  BY <1>5, <1>6, Climbs
<1>8. n \in 0..n
  OBVIOUS
<1> QED  BY <1>2, <1>7, <1>8

\* A page, one change after the other.
LEMMA PageKeepsUp ==
  ASSUME NEW d, NEW D, Fine(D, d), NEW s, ServerOK(s), Ledger(s), NEW c \in Nat,
         KeepsUp(D, s, c), NEW page, NEW n \in Nat, DOMAIN page = 1..n,
         \A k \in 1..n : /\ page[k] \in PulledChange /\ page[k].data \in Data(page[k].id)
                         /\ ChangeSays(s, page[k]),
         Orderly(page, s, c)
  PROVE  KeepsUp(PageTakenIn(D, page), s, CursorAt(page, c, n))
<1> DEFINE X == {E \in DeviceState(d) : Fine(E, d)}
           Y == [k \in 0..n |-> {E \in DeviceState(d) : KeepsUp(E, s, CursorAt(page, c, k))}]
<1>1. D \in X
  BY DEF Fine
<1>2. \A E \in X : \A k \in 1..n : ChangeTakenIn(E, page[k]) \in X
  BY ChangeTakenInFine DEF Leads, Fine
<1>3. D \in Y[0]
  BY DEF Fine, CursorAt
<1>4. ASSUME NEW k \in 1..n, NEW E \in X, E \in Y[k - 1]
      PROVE  ChangeTakenIn(E, page[k]) \in Y[k]
  <2> DEFINE G == ChangeTakenIn(E, page[k])
             a == CursorAt(page, c, k - 1)
             b == CursorAt(page, c, k)
  <2>0. k \in 0..n /\ k - 1 \in 0..n
    OBVIOUS
  <2>1. Fine(E, d) /\ KeepsUp(E, s, a)
    BY <1>4, <2>0
  <2>2. G \in DeviceState(d)
    BY <1>2
  <2>3. a = CursorAt(page, c, k - 1) /\ b = CursorAt(page, c, k)
    OBVIOUS
  <2> HIDE DEF X, Y, a, b, G
  <2>4. /\ \A j \in Id \ {page[k].id} : Behind(s, a, j) => Behind(s, b, j)
        /\ Behind(s, b, page[k].id) \/ page[k].ver = s.rec[page[k].id].ver
    BY <2>3, CursorMoves
  <2>5. KeepsUp(G, s, b)
    BY <2>1, <2>4, ChangeKeepsUp DEF G
  <2>6. G \in Y[k]
    BY <2>0, <2>2, <2>5 DEF Y, b
  <2> QED  BY <2>6 DEF G
<1>5. PageTakenIn(D, page) \in Y[n]
  <2> HIDE DEF X, Y
  <2> QED  BY <1>1, <1>2, <1>3, <1>4, PageClimbs
<1> QED  BY <1>5

-----------------------------------------------------------------------------
(* What the server writes it announces.                                    *)

\* From s to t entries are added after all of s, one at least for each changed record.
Announces(s, t) ==
  /\ s.log \subseteq t.log /\ t.seq >= s.seq
  /\ \A e \in t.log \ s.log : e.seq > s.seq
  /\ \A i \in Id : \/ t.rec[i] = s.rec[i]
                   \/ \E e \in t.log : e.id = i /\ e.seq > s.seq

\* Two writes are a write.
LEMMA AnnouncesOn ==
  ASSUME NEW s, ServerOK(s), NEW t, ServerOK(t), NEW u, ServerOK(u),
         Announces(s, t), Announces(t, u)
  PROVE  Announces(s, u)
<1>0. s.seq \in Nat /\ t.seq \in Nat /\ u.seq \in Nat /\ \A e \in u.log : e.seq \in Nat
  BY DEF ServerOK, ServerState, Entry
<1>1. ASSUME NEW i \in Id, u.rec[i] # s.rec[i]
      PROVE  \E e \in u.log : e.id = i /\ e.seq > s.seq
  <2>1. CASE u.rec[i] = t.rec[i]
    <3>1. PICK e \in t.log : e.id = i /\ e.seq > s.seq
      BY <1>1, <2>1 DEF Announces
    <3> QED  BY <3>1 DEF Announces
  <2>2. CASE u.rec[i] # t.rec[i]
    <3>1. PICK e \in u.log : e.id = i /\ e.seq > t.seq
      BY <2>2 DEF Announces
    <3> QED  BY <1>0, <3>1 DEF Announces
  <2> QED  BY <2>1, <2>2
<1>2. ASSUME NEW e \in u.log \ s.log
      PROVE  e.seq > s.seq
  <2>1. CASE e \in t.log
    BY <2>1 DEF Announces
  <2>2. CASE e \notin t.log
    <3>1. e.seq > t.seq /\ t.seq >= s.seq /\ e.seq \in Nat
      BY <1>0, <2>2 DEF Announces
    <3> QED  BY <1>0, <3>1
  <2> QED  BY <2>1, <2>2
<1>3. s.log \subseteq u.log /\ u.seq >= s.seq
  BY <1>0 DEF Announces
<1> QED  BY <1>1, <1>2, <1>3 DEF Announces

\* No write is a write.
LEMMA AnnouncesNot ==
  ASSUME NEW s, ServerOK(s)
  PROVE  Announces(s, s)
BY DEF Announces, ServerOK, ServerState

\* A row and its entry in the log.
LEMMA LoggedAnnounces ==
  ASSUME NEW s, ServerOK(s), Ledger(s), NEW i \in Id, NEW r \in Row,
         NEW t, t = Logged(s, i, r)
  PROVE  Announces(s, t) /\ Ledger(t) /\ t.rec[i] = r
<1> DEFINE n == [seq |-> s.seq + 1, id |-> i, ver |-> r.ver,
                 action |-> IF r.deleted THEN "tombstone" ELSE "upsert"]
<1>0. /\ s.rec \in [Id -> Row] /\ s.seq \in Nat
      /\ \A e \in s.log : e.seq \in Nat /\ e.seq <= s.seq
  BY DEF ServerOK, ServerState, Entry
<1>1. t.rec = [s.rec EXCEPT ![i] = r] /\ t.log = s.log \cup {n} /\ t.seq = s.seq + 1
  BY DEF Logged
<1>2. n.seq = s.seq + 1 /\ n.id = i /\ n.ver = r.ver
  OBVIOUS
<1> HIDE DEF n
<1>3. t.rec[i] = r /\ \A j \in Id \ {i} : t.rec[j] = s.rec[j]
  BY <1>0, <1>1
<1>4. \A e \in s.log : e.seq < n.seq
  BY <1>0, <1>2
<1>5. Announces(s, t)
  <2>1. n \in t.log /\ n.seq > s.seq
    BY <1>0, <1>1, <1>2
  <2> QED  BY <1>0, <1>1, <1>2, <1>3, <2>1 DEF Announces
<1>6. \A e, f \in t.log : e.seq = f.seq => e = f
  BY <1>0, <1>1, <1>2, <1>4 DEF Ledger
<1>7. ASSUME NEW e \in t.log, \A f \in t.log : f.id = e.id => f.seq <= e.seq
      PROVE  e.ver = t.rec[e.id].ver
  <2>1. CASE e = n
    BY <2>1, <1>2, <1>3
  <2>2. CASE e # n
    <3>1. e \in s.log /\ n \in t.log
      BY <1>1, <2>2
    <3>2. e.id # i
      <4>1. ASSUME e.id = i  PROVE FALSE
        <5>1. n.seq <= e.seq
          BY <1>7, <3>1, <4>1, <1>2
        <5> QED  BY <5>1, <3>1, <1>0, <1>2
      <4> QED  BY <4>1
    <3>3. e.ver = s.rec[e.id].ver
      BY <1>1, <1>7, <3>1 DEF Ledger
    <3>4. e.id \in Id
      BY <3>1 DEF ServerOK, ServerState, Entry
    <3> QED  BY <1>3, <3>2, <3>3, <3>4
  <2> QED  BY <2>1, <2>2
<1> QED  BY <1>3, <1>5, <1>6, <1>7 DEF Ledger

\* The rows of a cascade, and their entries.
LEMMA CascadedAnnounces ==
  ASSUME NEW s, ServerOK(s), Ledger(s), NEW c \in Category, NEW order \in Orders,
         NEW t, t = Cascaded(s, c, order)
  PROVE  Announces(s, t) /\ Ledger(t) /\ t.rec[c] = s.rec[c]
<1> DEFINE D == Dependants(s, c)
           Of(u) == [seq |-> s.seq + order[u], id |-> u, action |-> "tombstone",
                     ver |-> s.rec[u].ver + 1]
           new == {Of(u) : u \in D}
           n == Cardinality(Transaction)
<1>0. /\ s.rec \in [Id -> Row] /\ s.seq \in Nat
      /\ \A e \in s.log : e.seq \in Nat /\ e.seq <= s.seq /\ e.id \in Id
  BY DEF ServerOK, ServerState, Entry
<1>1. /\ t.rec = [i \in Id |-> IF i \in D THEN Tombstoned(s, i) ELSE s.rec[i]]
      /\ t.log = s.log \cup new /\ t.seq = s.seq + n
  BY DEF Cascaded
<1>2. n \in Nat
  BY TransactionFinite, FS_CardinalityType
<1>3. D \subseteq Transaction /\ D \subseteq Id
  BY DEF Dependants, Id
<1>4. /\ \A u \in Transaction : order[u] \in Nat /\ order[u] >= 1 /\ order[u] <= n
      /\ \A u, v \in Transaction : order[u] = order[v] => u = v
  BY <1>2 DEF Orders
<1>5. \A u \in D : /\ Of(u).seq \in Nat /\ Of(u).seq = s.seq + order[u] /\ Of(u).seq > s.seq
                   /\ Of(u).id = u /\ Of(u).ver = Tombstoned(s, u).ver
  BY <1>0, <1>3, <1>4 DEF Tombstoned
<1>6. \A e \in new : \E u \in D : e = Of(u)
  OBVIOUS
<1>6a. \A u \in D : Of(u) \in new
  OBVIOUS
<1> HIDE DEF D, Of, new, n
<1>7. \A j \in Id : t.rec[j] = IF j \in D THEN Tombstoned(s, j) ELSE s.rec[j]
  BY <1>1
<1>8. c \notin D /\ c \in Id
  BY <1>3, KindsDisjoint DEF Id
<1>9a. \A e \in new : e.seq > s.seq
  BY <1>5, <1>6
<1>9. Announces(s, t)
  <2>1. \A j \in D : \E e \in t.log : e.id = j /\ e.seq > s.seq
    BY <1>1, <1>5, <1>6a
  <2> QED  BY <1>0, <1>1, <1>2, <1>7, <1>9a, <2>1 DEF Announces
<1>10. \A e \in new : e.seq \in Nat /\ e.seq > s.seq /\ e.id \in D
                      /\ e.ver = Tombstoned(s, e.id).ver
  BY <1>5, <1>6
<1>11. ASSUME NEW e \in t.log, NEW f \in t.log, e.seq = f.seq  PROVE e = f
  <2>1. CASE e \in s.log /\ f \in s.log
    BY <1>11, <2>1 DEF Ledger
  <2>2. CASE e \in new /\ f \in new
    <3>1. PICK u \in D : e = Of(u)
      BY <2>2, <1>6
    <3>2. PICK v \in D : f = Of(v)
      BY <2>2, <1>6
    <3>3. order[u] = order[v]
      BY <1>0, <1>3, <1>4, <1>5, <1>11, <3>1, <3>2
    <3> QED  BY <1>3, <1>4, <3>1, <3>2, <3>3
  <2>3. CASE e \in s.log /\ f \in new
    BY <1>0, <1>10, <1>11, <2>3
  <2>4. CASE e \in new /\ f \in s.log
    BY <1>0, <1>10, <1>11, <2>4
  <2> QED  BY <1>1, <2>1, <2>2, <2>3, <2>4
<1>12. ASSUME NEW e \in t.log, \A f \in t.log : f.id = e.id => f.seq <= e.seq
       PROVE  e.ver = t.rec[e.id].ver
  <2>1. CASE e \in new
    BY <2>1, <1>3, <1>7, <1>10
  <2>2. CASE e \in s.log
    <3>1. e.id \notin D
      <4>1. ASSUME e.id \in D  PROVE FALSE
        <5>1. Of(e.id) \in t.log /\ Of(e.id).id = e.id /\ Of(e.id).seq \in Nat
              /\ Of(e.id).seq > s.seq
          BY <1>1, <1>5, <1>6a, <4>1
        <5>2. Of(e.id).seq <= e.seq
          BY <1>12, <5>1
        <5>3. e.seq \in Nat /\ e.seq <= s.seq
          BY <1>0, <2>2
        <5> QED  BY <1>0, <5>1, <5>2, <5>3
      <4> QED  BY <4>1
    <3>2. e.ver = s.rec[e.id].ver
      BY <1>1, <1>12, <2>2 DEF Ledger
    <3> QED  BY <1>0, <1>7, <2>2, <3>1, <3>2
  <2> QED  BY <1>1, <2>1, <2>2
<1> QED  BY <1>7, <1>8, <1>9, <1>11, <1>12 DEF Ledger

\* What performing the operation w, not applied before, makes of s, and its answer.
Writes(s, w, t, a) ==
  /\ Announces(s, t) /\ Ledger(t)
  /\ a.status = "applied" => a.ver = t.rec[w.id].ver
  /\ a.status = "conflict" => a.state.ver = t.rec[w.id].ver

\* An answer without a write.
LEMMA WritesNothing ==
  ASSUME NEW s, ServerOK(s), Ledger(s), NEW w, NEW a,
         a.status = "applied" => a.ver = s.rec[w.id].ver,
         a.status = "conflict" => a.state.ver = s.rec[w.id].ver,
         NEW o, o = Outcome(s, a)
  PROVE  Writes(s, w, o.srv, o.answer)
<1>1. o.srv = s /\ o.answer = a
  BY DEF Outcome
<1> QED  BY <1>1, AnnouncesNot DEF Writes

\* An error is an answer without a write.
LEMMA ErrorWrites ==
  ASSUME NEW s, ServerOK(s), Ledger(s), NEW w, NEW o, o = Outcome(s, ErrorAnswer)
  PROVE  Writes(s, w, o.srv, o.answer)
<1>1. ErrorAnswer.status = "error"
  BY DEF ErrorAnswer
<1> QED  BY <1>1, WritesNothing

\* A row is written and answered for.
LEMMA LoggedWrites ==
  ASSUME NEW s, ServerOK(s), Ledger(s), NEW w, w.id \in Id, NEW r \in Row, NEW v, v = r.ver,
         NEW o, o = Outcome(Logged(s, w.id, r), AppliedAnswer(v))
  PROVE  Writes(s, w, o.srv, o.answer)
<1> DEFINE t == Logged(s, w.id, r)
<1>1. Announces(s, t) /\ Ledger(t) /\ t.rec[w.id] = r
  BY LoggedAnnounces
<1> HIDE DEF t
<1>2. o.srv = t /\ o.answer.status = "applied" /\ o.answer.ver = v
  BY DEF Outcome, AppliedAnswer, t
<1> QED  BY <1>1, <1>2 DEF Writes

\* An upsert.
LEMMA UpsertWrites ==
  ASSUME NEW s, ServerOK(s), Ledger(s), NEW w, Valid(w), w.action = "upsert",
         NEW o, o = Upsert(s, w)
  PROVE  Writes(s, w, o.srv, o.answer)
<1> DEFINE r == [ver |-> 1, deleted |-> FALSE, data |-> CreatedData(w.id, w.data)]
           q == [ver |-> w.base + 1, deleted |-> FALSE, data |-> w.data]
<1>0. w.id \in Id /\ w.data \in PayloadOf(w.id) /\ w.base \in Nat
  BY DEF Valid
<1>1. CreatedData(w.id, w.data) \in PayloadOf(w.id)
  BY <1>0, NewPayload DEF CreatedData
<1>2. FALSE \in BOOLEAN /\ PayloadOf(w.id) \subseteq Data(w.id)
      /\ Data(w.id) \subseteq Payload \cup {NoData}
  BY <1>0, NoRowFacts DEF Data
<1>3. r \in Row /\ r.ver = 1 /\ q \in Row /\ q.ver = w.base + 1
  BY <1>0, <1>1, <1>2 DEF Row
<1>4. \/ o = Outcome(s, ErrorAnswer)
      \/ \E code \in {"SYNC_ALREADY_EXISTS", "SYNC_VERSION_CONFLICT",
                      "SYNC_DELETED_CONFLICT"} : o = Outcome(s, ConflictAnswer(s, w.id, code))
      \/ o = Outcome(Logged(s, w.id, r), AppliedAnswer(1))
      \/ o = Outcome(Logged(s, w.id, q), AppliedAnswer(w.base + 1))
  BY DEF Upsert, Create, Update
<1> HIDE DEF r, q
<1>5. ASSUME NEW code, o = Outcome(s, ConflictAnswer(s, w.id, code))
      PROVE  Writes(s, w, o.srv, o.answer)
  <2> DEFINE a == ConflictAnswer(s, w.id, code)
  <2>1. a.status = "conflict" /\ a.state.ver = s.rec[w.id].ver
    <3>1. s.rec[w.id] \in Row
      BY <1>0 DEF ServerOK, ServerState
    <3> QED  BY <3>1 DEF ConflictAnswer, Row
  <2> HIDE DEF a
  <2> QED  BY <1>5, <2>1, WritesNothing DEF a
<1> QED  BY <1>0, <1>3, <1>4, <1>5, ErrorWrites, LoggedWrites

\* A delete.
LEMMA DeleteWrites ==
  ASSUME NEW s, ServerOK(s), Ledger(s), NEW w, Valid(w), NEW order \in Orders,
         NEW o, o = Delete(s, w, order)
  PROVE  Writes(s, w, o.srv, o.answer)
<1> DEFINE i == w.id
           r == Tombstoned(s, i)
           u == Logged(s, i, r)
           v == s.rec[i].ver + 1
<1>0. i \in Id /\ s.rec[i].ver \in Nat
  BY DEF Valid, ServerOK, ServerState, Row
<1>1. r \in Row /\ r.ver = v /\ r.data \in Data(i)
  BY <1>0, TombstonedRow
<1>2. \/ ~ Found(s, i) /\ o = Outcome(s, AppliedAnswer(0))
      \/ o = Outcome(s, AppliedAnswer(s.rec[i].ver))
      \/ o = Outcome(s, ErrorAnswer)
      \/ o = Outcome(u, AppliedAnswer(v))
      \/ i \in Category /\ o = Outcome(Cascaded(u, i, order), AppliedAnswer(v))
  BY DEF Delete
<1>3. CASE o = Outcome(s, ErrorAnswer)
  BY <1>3, ErrorWrites
<1>4. ASSUME NEW n, n = s.rec[i].ver, o = Outcome(s, AppliedAnswer(n))
      PROVE  Writes(s, w, o.srv, o.answer)
  <2>1. AppliedAnswer(n).status = "applied" /\ AppliedAnswer(n).ver = n
    BY DEF AppliedAnswer
  <2> QED  BY <1>4, <2>1, WritesNothing
<1>5. CASE ~ Found(s, i) /\ o = Outcome(s, AppliedAnswer(0))
  <2>1. s.rec[i].ver = 0
    BY <1>0, <1>5 DEF Found
  <2> QED  BY <1>4, <1>5, <2>1
<1>6. CASE o = Outcome(u, AppliedAnswer(v))
  <2> HIDE DEF r, v
  <2> QED  BY <1>0, <1>1, <1>6, LoggedWrites
<1>7. CASE i \in Category /\ o = Outcome(Cascaded(u, i, order), AppliedAnswer(v))
  <2> DEFINE t == Cascaded(u, i, order)
             a == AppliedAnswer(v)
  <2>0. a.status = "applied" /\ a.ver = v
    BY DEF AppliedAnswer
  <2> HIDE DEF r, v, a, t
  <2>1. o.srv = t /\ o.answer.status = "applied" /\ o.answer.ver = v
    BY <1>7, <2>0 DEF Outcome, a, t
  <2> USE DEF t
  <2>2. ServerOK(u)
    BY <1>0, <1>1, LoggedMoves DEF Moves
  <2>3. Announces(s, u) /\ Ledger(u) /\ u.rec[i] = r
    BY <1>0, <1>1, LoggedAnnounces
  <2> HIDE DEF u
  <2>4. ServerOK(t)
    BY <1>7, <2>2, CascadedMoves DEF Moves
  <2>5. Announces(u, t) /\ Ledger(t) /\ t.rec[i] = u.rec[i]
    BY <1>7, <2>2, <2>3, CascadedAnnounces
  <2> HIDE DEF t
  <2>6. Announces(s, t)
    BY <2>2, <2>3, <2>4, <2>5, AnnouncesOn
  <2> QED  BY <1>1, <2>1, <2>3, <2>5, <2>6 DEF Writes
<1> HIDE DEF r, u, v
<1> QED  BY <1>2, <1>3, <1>4, <1>5, <1>6, <1>7

\* What the operation w of a batch makes of s, and its answer.
Enters(s, w, t, a) ==
  /\ Announces(s, t) /\ Ledger(t)
  /\ \/ t.applied = s.applied
     \/ /\ s.applied[w.opId] = NotApplied
        /\ t.applied = [s.applied EXCEPT ![w.opId] = t.rec[w.id].ver]
  /\ a.status = "applied" => a.ver = t.applied[w.opId]
  /\ a.status = "conflict" => a.state.ver = t.rec[w.id].ver

\* An operation, or the answer to one that was applied before.
LEMMA ApplyEnters ==
  ASSUME NEW s, ServerOK(s), Ledger(s), NEW w, Valid(w), NEW order \in Orders,
         NEW o, o = Apply(s, w, order)
  PROVE  Enters(s, w, o.srv, o.answer)
<1>1. CASE s.applied[w.opId] # NotApplied
  <2>1. /\ o.srv = s /\ o.answer.status = "applied"
        /\ o.answer.ver = s.applied[w.opId]
    BY <1>1 DEF Apply, Outcome, AppliedAnswer
  <2> QED  BY <2>1, AnnouncesNot DEF Enters
<1>2. CASE s.applied[w.opId] = NotApplied
  <2> DEFINE p == Perform(s, w, order)
             t == p.srv
             a == p.answer
  <2>1. Writes(s, w, t, a)
    BY UpsertWrites, DeleteWrites DEF Perform, Valid
  <2>2. Moves(s, t, {w.id})
    BY UpsertMoves, DeleteMoves DEF Perform, Valid, Sensible
  <2>3. \/ /\ a.status = "applied"
           /\ o.srv = Recorded(t, w.opId, a.ver) /\ o.answer = a
        \/ a.status # "applied" /\ o.srv = t /\ o.answer = a
    BY <1>2 DEF Apply, Outcome
  <2> HIDE DEF p, t, a
  <2>4. t.applied = s.applied /\ s.applied \in [OpId -> Int] /\ w.opId \in OpId
    BY <2>2 DEF Moves, ServerOK, ServerState, Valid
  <2>5. CASE a.status # "applied" /\ o.srv = t /\ o.answer = a
    BY <2>1, <2>4, <2>5 DEF Writes, Enters
  <2>6. CASE a.status = "applied"
             /\ o.srv = Recorded(t, w.opId, a.ver) /\ o.answer = a
    <3> DEFINE u == o.srv
    <3>1. /\ u.rec = t.rec /\ u.log = t.log /\ u.seq = t.seq
          /\ u.applied = [t.applied EXCEPT ![w.opId] = a.ver]
      BY <2>6 DEF Recorded
    <3> HIDE DEF u
    <3>2. Announces(s, u) /\ Ledger(u)
      BY <2>1, <3>1 DEF Writes, Announces, Ledger
    <3>3. a.ver = u.rec[w.id].ver /\ u.applied[w.opId] = a.ver
      BY <2>1, <2>4, <2>6, <3>1 DEF Writes
    <3>4. Enters(s, w, u, a)
      BY <1>2, <2>4, <2>6, <3>1, <3>2, <3>3 DEF Enters
    <3> QED  BY <2>6, <3>4 DEF u
  <2> QED  BY <2>3, <2>5, <2>6
<1> QED  BY <1>1, <1>2

-----------------------------------------------------------------------------
(* A batch.                                                                *)

\* v is no less than record i had in s, and what t has beyond v came after s.
Caught(s, t, i, v) == v \in Nat /\ v >= s.rec[i].ver /\ Fresh(t, s.seq, i, v)

\* What a batch, or the first operations of one, has applied.
Landed(s, t, batch, n) ==
  /\ Announces(s, t) /\ Ledger(t)
  /\ \A o \in OpId :
       \/ t.applied[o] = s.applied[o]
       \/ /\ s.applied[o] = NotApplied
          /\ \E j \in 1..n : batch[j].opId = o /\ Caught(s, t, batch[j].id, t.applied[o])

\* An answer to the operation w of a batch that has made t of s.
Replies(s, t, a, w) ==
  /\ a.status = "applied" => a.ver = t.applied[w.opId]
  /\ a.status = "conflict" => Caught(s, t, w.id, a.state.ver)

\* A version answered stays the last, or is behind the log from s on.
LEMMA CaughtOn ==
  ASSUME NEW s, ServerOK(s), NEW t, ServerOK(t), NEW u, ServerOK(u),
         Announces(s, t), Announces(t, u), NEW i \in Id, NEW v, Caught(s, t, i, v)
  PROVE  Caught(s, u, i, v)
<1>0. s.seq \in Nat /\ t.seq \in Nat /\ t.seq >= s.seq /\ \A e \in u.log : e.seq \in Nat
  BY DEF ServerOK, ServerState, Entry, Announces
<1>1. CASE Behind(t, s.seq, i)
  <2>1. Behind(u, s.seq, i)
    BY <1>1 DEF Behind, Announces
  <2> QED  BY <2>1 DEF Caught, Fresh
<1>2. CASE v >= t.rec[i].ver
  <2>1. CASE u.rec[i] = t.rec[i]
    BY <1>2, <2>1 DEF Caught, Fresh
  <2>2. CASE u.rec[i] # t.rec[i]
    <3>1. PICK e \in u.log : e.id = i /\ e.seq > t.seq
      BY <2>2 DEF Announces
    <3>2. e.seq > s.seq
      BY <1>0, <3>1
    <3>3. Behind(u, s.seq, i)
      BY <3>1, <3>2 DEF Behind
    <3> QED  BY <3>3 DEF Caught, Fresh
  <2> QED  BY <2>1, <2>2
<1> QED  BY <1>1, <1>2 DEF Caught, Fresh

\* One more operation of the batch.
LEMMA LandedOn ==
  ASSUME NEW s, ServerOK(s), NEW t, ServerOK(t), NEW u, ServerOK(u), Grows(s, u),
         NEW batch, NEW n, Batch(batch, n), Landed(s, t, batch, n), NEW k \in 1..n,
         NEW a \in Answer, Enters(t, batch[k], u, a)
  PROVE  /\ Landed(s, u, batch, n) /\ Replies(s, u, a, batch[k])
         /\ \A j \in 1..n : \A b \in Answer :
              Replies(s, t, b, batch[j]) => Replies(s, u, b, batch[j])
<1> DEFINE w == batch[k]
<1>0. /\ w.opId \in OpId /\ w.id \in Id
      /\ \A j \in 1..n : batch[j].opId \in OpId /\ batch[j].id \in Id
  BY DEF Batch, Valid
<1>1. Announces(s, t) /\ Announces(t, u) /\ Ledger(u)
  BY DEF Landed, Enters
<1>2. Announces(s, u)
  BY <1>1, AnnouncesOn
<1>3. Caught(s, u, w.id, u.rec[w.id].ver)
  <2>1. u.rec[w.id].ver \in Nat /\ s.rec[w.id].ver \in Nat
    BY <1>0 DEF ServerOK, ServerState, Row
  <2>2. u.rec[w.id].ver >= s.rec[w.id].ver
    BY <1>0, <2>1 DEF Grows
  <2>3. u.rec[w.id].ver >= u.rec[w.id].ver
    BY <2>1
  <2> QED  BY <2>1, <2>2, <2>3 DEF Caught, Fresh
<1>4. \/ u.applied = t.applied
      \/ /\ t.applied[w.opId] = NotApplied /\ u.applied[w.opId] = u.rec[w.id].ver
         /\ \A o \in OpId \ {w.opId} : u.applied[o] = t.applied[o]
  <2>1. t.applied \in [OpId -> Int]
    BY DEF ServerOK, ServerState
  <2> QED  BY <1>0, <2>1 DEF Enters
<1>5. ASSUME NEW o \in OpId, u.applied[o] # s.applied[o]
      PROVE  /\ s.applied[o] = NotApplied
             /\ \E j \in 1..n : batch[j].opId = o /\ Caught(s, u, batch[j].id, u.applied[o])
  <2>0. t.applied[o] = s.applied[o] \/ (s.applied[o] = NotApplied /\ t.applied[o] \in Nat)
    BY DEF Landed, Caught
  <2>1. CASE u.applied[o] = t.applied[o]
    <3>1. PICK j \in 1..n : batch[j].opId = o /\ Caught(s, t, batch[j].id, t.applied[o])
      BY <1>5, <2>1 DEF Landed
    <3>2. Caught(s, u, batch[j].id, t.applied[o])
      BY <1>0, <1>1, <3>1, CaughtOn
    <3> QED  BY <1>5, <2>0, <2>1, <3>1, <3>2
  <2>2. CASE u.applied[o] # t.applied[o]
    <3>1. o = w.opId /\ u.applied[o] = u.rec[w.id].ver /\ t.applied[o] = NotApplied
      BY <1>4, <2>2
    <3>2. s.applied[o] = NotApplied
      BY <2>0, <3>1 DEF NotApplied
    <3> QED  BY <1>3, <3>1, <3>2
  <2> QED  BY <2>1, <2>2
<1>6. Landed(s, u, batch, n)
  BY <1>1, <1>2, <1>5 DEF Landed
<1>7. Replies(s, u, a, w)
  BY <1>3 DEF Enters, Replies
<1>8. ASSUME NEW j \in 1..n, NEW b \in Answer, Replies(s, t, b, batch[j])
      PROVE  Replies(s, u, b, batch[j])
  <2>1. ASSUME b.status = "applied"  PROVE b.ver = u.applied[batch[j].opId]
    <3>1. b.ver = t.applied[batch[j].opId] /\ b.ver \in Nat
      BY <2>1, <1>8 DEF Replies, Answer
    <3>2. t.applied[batch[j].opId] # NotApplied
      BY <3>1 DEF NotApplied
    <3> QED  BY <1>0, <1>4, <3>1, <3>2
  <2>2. ASSUME b.status = "conflict"  PROVE Caught(s, u, batch[j].id, b.state.ver)
    BY <2>2, <1>0, <1>1, <1>8, CaughtOn DEF Replies
  <2> QED  BY <2>1, <2>2 DEF Replies
<1> QED  BY <1>6, <1>7, <1>8

\* The batch.
LEMMA AppliedLands ==
  ASSUME NEW s, ServerOK(s), Grounded(s), Honest(s), Ledger(s), NEW C, OneOrigin(C, s),
         NEW batch, NEW n, Batch(batch, n), Alike(batch, n),
         \A k \in 1..n : batch[k].action = "upsert" => AppliedTo(s, batch[k]),
         \A k \in 1..n : /\ Traced(s, batch[k]) /\ Performed(s, batch[k])
                         /\ Creates(batch[k]) => batch[k].opId \in C[batch[k].id],
         NEW order \in Orders, NEW r, r = Applied(s, batch, order)
  PROVE  /\ Landed(s, r.srv, batch, n)
         /\ \A k \in 1..n : Replies(s, r.srv, r.answers[k], batch[k])
<1> DEFINE X == {acc \in [srv : ServerState, answers : Seq(Answer)] :
                   Doing(s, acc.srv, batch, n, C) /\ Landed(s, acc.srv, batch, n)}
           Heeds(acc) == \A j \in 1..Len(acc.answers) :
                           Replies(s, acc.srv, acc.answers[j], batch[j])
           Y == [k \in 0..n |-> {acc \in X : /\ Len(acc.answers) = k
                                             /\ Answering(acc.answers, batch) /\ Heeds(acc)}]
<1>0. n \in Nat /\ DOMAIN batch = 1..n
  BY DEF Batch
<1>1. Unanswered(s) \in X /\ Unanswered(s) \in Y[0]
  <2>1. Serves(s, s, batch, n) /\ s \in ServerState
    BY ServesSelf DEF ServerOK
  <2>2. Rooting(s, s, batch, n, C)
    BY <2>1, RootsSelf DEF Rooting
  <2>3. Doing(s, s, batch, n, C)
    BY <2>2 DEF Doing, Grows
  <2>4. <<>> \in Seq(Answer) /\ Len(<<>>) = 0 /\ Answering(<<>>, batch) /\ 0 \in 0..n
    BY <1>0 DEF Answering
  <2>5. Landed(s, s, batch, n)
    BY AnnouncesNot DEF Landed
  <2> QED  BY <2>1, <2>3, <2>4, <2>5 DEF Unanswered
<1>2. ASSUME NEW acc \in X, NEW k \in 1..n
      PROVE  /\ Onto(acc, batch[k], order) \in X
             /\ acc \in Y[k - 1] => Onto(acc, batch[k], order) \in Y[k]
  <2> DEFINE o == Apply(acc.srv, batch[k], order)
             nxt == Onto(acc, batch[k], order)
  <2>1. acc.srv \in ServerState /\ acc.answers \in Seq(Answer)
        /\ Doing(s, acc.srv, batch, n, C) /\ Landed(s, acc.srv, batch, n)
    OBVIOUS
  <2>2. nxt.srv = o.srv /\ nxt.answers = Append(acc.answers, o.answer)
        /\ nxt = [srv |-> nxt.srv, answers |-> nxt.answers]
    BY DEF Onto
  <2> HIDE DEF X, Heeds
  <2>3. /\ Doing(s, o.srv, batch, n, C) /\ Answers(o.answer, batch[k])
        /\ ServerOK(o.srv) /\ ServerOK(acc.srv)
    <3> HIDE DEF o
    <3> QED  BY <2>1, DoingOn DEF o
  <2>4. Enters(acc.srv, batch[k], o.srv, o.answer)
    <3>1. Valid(batch[k]) /\ Ledger(acc.srv)
      BY <2>1 DEF Batch, Landed
    <3> HIDE DEF o
    <3> QED  BY <2>3, <3>1, ApplyEnters DEF o
  <2> HIDE DEF o, nxt
  <2>5. o.srv \in ServerState /\ o.answer \in Answer /\ Grows(s, o.srv)
    BY <2>3 DEF ServerOK, Answers, Doing
  <2>6. /\ Landed(s, o.srv, batch, n) /\ Replies(s, o.srv, o.answer, batch[k])
        /\ \A j \in 1..n : \A b \in Answer :
             Replies(s, acc.srv, b, batch[j]) => Replies(s, o.srv, b, batch[j])
    BY <2>1, <2>3, <2>4, <2>5, LandedOn
  <2>7. nxt \in X
    <3>1. nxt.answers \in Seq(Answer)
      BY <2>1, <2>2, <2>5
    <3> QED  BY <2>2, <2>3, <2>5, <2>6, <3>1 DEF X
  <2>8. ASSUME acc \in Y[k - 1]  PROVE nxt \in Y[k]
    <3>1. k - 1 \in 0..n /\ k \in 0..n /\ (k - 1) + 1 = k
      BY <1>0
    <3>2. Len(acc.answers) = k - 1 /\ Answering(acc.answers, batch) /\ Heeds(acc)
      BY <2>8, <3>1
    <3>3. /\ Answering(nxt.answers, batch) /\ Len(nxt.answers) = k
          /\ \A j \in 1..(k - 1) : nxt.answers[j] = acc.answers[j]
          /\ nxt.answers[k] = o.answer
      BY <2>2, <2>3, <3>1, <3>2, AnsweringOn
    <3>4. ASSUME NEW j \in 1..k  PROVE Replies(s, nxt.srv, nxt.answers[j], batch[j])
      <4>1. CASE j = k
        BY <2>2, <2>6, <3>3, <4>1
      <4>2. CASE j \in 1..(k - 1)
        <5>1. Replies(s, acc.srv, acc.answers[j], batch[j]) /\ acc.answers[j] \in Answer
          BY <2>1, <3>2, <4>2 DEF Heeds
        <5>2. j \in 1..n
          BY <1>0
        <5>3. Replies(s, o.srv, acc.answers[j], batch[j])
          BY <5>1, <5>2, <2>6
        <5> QED  BY <5>3, <4>2, <2>2, <3>3
      <4> QED  BY <4>1, <4>2
    <3>5. Heeds(nxt)
      BY <3>3, <3>4 DEF Heeds
    <3> QED  BY <2>7, <3>1, <3>3, <3>5
  <2> QED  BY <2>7, <2>8 DEF nxt
<1>3. r \in X /\ r \in Y[n]
  <2> HIDE DEF X, Y
  <2>1. \A acc \in X : \A k \in 1..n : Onto(acc, batch[k], order) \in X
    BY <1>2
  <2>2. \A k \in 1..n : \A acc \in X :
          acc \in Y[k - 1] => Onto(acc, batch[k], order) \in Y[k]
    BY <1>2
  <2>3. Applied(s, batch, order) \in X /\ Applied(s, batch, order) \in Y[n]
    BY <1>0, <1>1, <2>1, <2>2, AppliedFold
  <2> QED  BY <2>3
<1>4. n \in 0..n
  BY <1>0
<1>5. Len(r.answers) = n /\ Heeds(r) /\ Landed(s, r.srv, batch, n)
  BY <1>3, <1>4
<1> QED  BY <1>5

-----------------------------------------------------------------------------
(* The server moves on.                                                    *)

\* What was fresh stays fresh: a later version is announced beyond the cursor.
LEMMA FreshOn ==
  ASSUME NEW s, ServerOK(s), NEW t, ServerOK(t), Announces(s, t), NEW c \in Int, c <= s.seq,
         NEW i \in Id, NEW v, Fresh(s, c, i, v)
  PROVE  Fresh(t, c, i, v)
<1>0. s.seq \in Nat /\ \A e \in t.log : e.seq \in Nat
  BY DEF ServerOK, ServerState, Entry
<1>1. CASE Behind(s, c, i)
  BY <1>1 DEF Behind, Fresh, Announces
<1>2. CASE v >= s.rec[i].ver /\ t.rec[i] = s.rec[i]
  BY <1>2 DEF Fresh
<1>3. CASE t.rec[i] # s.rec[i]
  <2>1. PICK e \in t.log : e.id = i /\ e.seq > s.seq
    BY <1>3 DEF Announces
  <2>2. e.seq > c
    BY <1>0, <2>1
  <2> QED  BY <2>1, <2>2 DEF Fresh, Behind
<1> QED  BY <1>1, <1>2, <1>3 DEF Fresh

\* What a batch left is fresh for whoever was at s.
LEMMA CaughtFresh ==
  ASSUME NEW s, ServerOK(s), NEW t, ServerOK(t), NEW c \in Int, c <= s.seq,
         NEW i \in Id, NEW v, Caught(s, t, i, v)
  PROVE  Fresh(t, c, i, v)
<1>0. s.seq \in Nat /\ \A e \in t.log : e.seq \in Nat
  BY DEF ServerOK, ServerState, Entry
<1>1. CASE Behind(t, s.seq, i)
  <2>1. PICK e \in t.log : e.id = i /\ e.seq > s.seq
    BY <1>1 DEF Behind
  <2>2. e.seq > c
    BY <1>0, <2>1
  <2> QED  BY <2>1, <2>2 DEF Fresh, Behind
<1> QED  BY <1>1 DEF Caught, Fresh

\* The server moves on, and applies only what it answers for, of the device's.
LEMMA KeepsUpOn ==
  ASSUME NEW d, NEW D, Fine(D, d), NEW s, ServerOK(s), NEW t, ServerOK(t),
         Announces(s, t), Grows(s, t), NEW c \in Int, c <= s.seq, KeepsUp(D, s, c),
         \A i \in Id : \A o \in SentIds(D, i) :
           \/ t.applied[o] = s.applied[o]
           \/ Caught(s, t, i, t.applied[o])
  PROVE  KeepsUp(D, t, c)
<1> SUFFICES ASSUME NEW i \in Id  PROVE AbreastAt(D, t, c, i)
  BY DEF KeepsUp
<1> DEFINE r == D.row[i]
           q == D.conf[i]
           S == SentIds(D, i)
<1>0. /\ r \in LocalRow /\ r.sv \in Nat /\ s.rec[i].ver \in Nat /\ t.rec[i].ver \in Nat
      /\ s.rec[i].ver <= t.rec[i].ver
      /\ r.data = NoData => r.sv = 0
  <2>1. r \in LocalRow /\ Sound(D, i)
    BY DEF Fine, DeviceState
  <2>2. r.data = NoData => r.sv = 0
    BY <2>1 DEF Sound, HasRow, NoRow
  <2>3. r.sv \in Nat
    BY <2>1 DEF LocalRow
  <2>4. s.rec[i].ver \in Nat /\ t.rec[i].ver \in Nat
    BY DEF ServerOK, ServerState, Row
  <2>5. s.rec[i].ver <= t.rec[i].ver
    BY <2>4 DEF Grows
  <2> QED  BY <2>1, <2>2, <2>3, <2>4, <2>5
<1>1. Abreast(s, c, i, r, q, S)
  BY DEF KeepsUp, AbreastAt
<1>2. \A o \in S : t.applied[o] = s.applied[o] \/ Caught(s, t, i, t.applied[o])
  OBVIOUS
<1> HIDE DEF r, q, S
<1>3. ASSUME r.data = NoData
      PROVE  q.kind # "version" /\ (~ Live(t, i) \/ Behind(t, c, i))
  <2>1. q.kind # "version" /\ (~ Live(s, i) \/ Behind(s, c, i))
    BY <1>1, <1>3 DEF Abreast
  <2>2. CASE Behind(s, c, i)
    BY <2>1, <2>2 DEF Behind, Announces
  <2>3. CASE ~ Live(s, i) /\ t.rec[i] = s.rec[i]
    BY <2>1, <2>3 DEF Live, Found
  <2>4. CASE t.rec[i] # s.rec[i]
    <3>1. PICK e \in t.log : e.id = i /\ e.seq > s.seq
      BY <2>4 DEF Announces
    <3>2. e.seq > c
      <4>1. e.seq \in Nat /\ s.seq \in Nat
        BY <3>1 DEF ServerOK, ServerState, Entry
      <4> QED  BY <3>1, <4>1
    <3> QED  BY <2>1, <3>1, <3>2 DEF Behind
  <2> QED  BY <2>1, <2>2, <2>3, <2>4
<1>4. ASSUME r.data # NoData
      PROVE  /\ r.sv <= t.rec[i].ver /\ r.sv <= Known(r, q)
             /\ Fresh(t, c, i, Known(r, q))
  <2>1. r.sv <= s.rec[i].ver /\ r.sv <= Known(r, q) /\ Fresh(s, c, i, Known(r, q))
    BY <1>1, <1>4 DEF Abreast
  <2>2. Fresh(t, c, i, Known(r, q))
    BY <2>1, FreshOn
  <2>3. r.sv <= t.rec[i].ver
    BY <1>0, <2>1
  <2> QED  BY <2>1, <2>2, <2>3
<1>5. ASSUME q.kind # "version", NEW o \in S, t.applied[o] # NotApplied
      PROVE  t.applied[o] \in Nat /\ t.applied[o] >= r.sv /\ Fresh(t, c, i, t.applied[o])
  <2>1. CASE t.applied[o] = s.applied[o]
    <3>1. /\ s.applied[o] \in Nat /\ s.applied[o] >= r.sv
          /\ Fresh(s, c, i, s.applied[o])
      BY <1>1, <1>5, <2>1 DEF Abreast
    <3> QED  BY <2>1, <3>1, FreshOn
  <2>2. CASE Caught(s, t, i, t.applied[o])
    <3>1. Fresh(t, c, i, t.applied[o])
      BY <2>2, CaughtFresh
    <3>2. t.applied[o] \in Nat /\ t.applied[o] >= s.rec[i].ver
      BY <2>2 DEF Caught
    <3>3. r.sv <= s.rec[i].ver
      <4>1. CASE r.data = NoData
        BY <1>0, <4>1
      <4>2. CASE r.data # NoData
        BY <1>1, <4>2 DEF Abreast
      <4> QED  BY <4>1, <4>2
    <3> QED  BY <1>0, <3>1, <3>2, <3>3
  <2> QED  BY <1>2, <2>1, <2>2
<1>6. Abreast(t, c, i, r, q, S)
  BY <1>3, <1>4, <1>5 DEF Abreast
<1> QED  BY <1>6 DEF AbreastAt, r, q, S

-----------------------------------------------------------------------------
(* A batch is selected.                                                    *)

\* What is sent for the first time the server has not applied.
LEMMA SelectedKeepsUp ==
  ASSUME NEW d, NEW D, NEW E, NEW batch, Selects(D, E, batch, d), NEW s, NEW c,
         KeepsUp(D, s, c),
         \A k \in DOMAIN D.out : ~ D.out[k].sent => s.applied[D.out[k].opId] = NotApplied
  PROVE  KeepsUp(E, s, c)
<1> SUFFICES ASSUME NEW i \in Id  PROVE AbreastAt(E, s, c, i)
  BY DEF KeepsUp
<1>1. E.row[i] = D.row[i] /\ E.conf[i] = D.conf[i]
  BY DEF Selects
<1>2. Abreast(s, c, i, D.row[i], D.conf[i], SentIds(D, i))
  BY DEF KeepsUp, AbreastAt
<1>3. ASSUME NEW o \in SentIds(E, i), s.applied[o] # NotApplied  PROVE o \in SentIds(D, i)
  <2>1. PICK k \in DOMAIN E.out : E.out[k].id = i /\ E.out[k].sent /\ E.out[k].opId = o
    BY DEF SentIds, Queue, OpsOf
  <2>2. PICK j \in DOMAIN D.out : E.out[k].opId = D.out[j].opId /\ E.out[k].id = D.out[j].id
    BY DEF Selects
  <2>3. D.out[j].sent
    BY <1>3, <2>1, <2>2
  <2>4. D.out[j] \in Queue(D, i)
    BY <2>1, <2>2 DEF Queue, OpsOf
  <2> QED  BY <2>1, <2>2, <2>3, <2>4 DEF SentIds
<1>4. Abreast(s, c, i, D.row[i], D.conf[i], SentIds(E, i))
  BY <1>2, <1>3 DEF Abreast
<1> QED  BY <1>1, <1>4 DEF AbreastAt

\* The operations of a batch are of different records, which have no version
\* conflict open.
LEMMA SelectedApart ==
  ASSUME NEW d, NEW D, Fine(D, d), NEW due, NEW batch, batch = Selected(D, due).batch
  PROVE  /\ \A j, k \in DOMAIN batch : batch[j].id = batch[k].id => j = k
         /\ \A k \in DOMAIN batch : D.conf[batch[k].id].kind # "version"
<1> DEFINE C == Coalesced(D)
           First == {k \in Firsts(C) : C.conf[C.out[k].id].kind # "version"}
           Gone == {k \in First : ~ HasRow(C, C.out[k].id)}
           Go == {k \in First \ Gone : C.out[k].tries = 0 \/ C.out[k].opId \in due}
           wires == [k \in DOMAIN C.out |-> Wire(C, C.out[k])]
           S == {Wire(C, C.out[k]) : k \in DOMAIN C.out}
<1>1. C.conf = D.conf /\ C \in DeviceState(d)
  BY CoalescedFine DEF Leads, Fine
<1>2. batch = Kept(wires, Go)
  BY DEF Selected
<1> HIDE DEF C
<1>3. DOMAIN C.out = 1..Len(C.out) /\ Len(C.out) \in Nat
  BY <1>1, OutFacts
<1>4. \A k \in Go : /\ k \in DOMAIN C.out /\ C.conf[C.out[k].id].kind # "version"
                    /\ \A j \in 1..(k - 1) : C.out[j].id # C.out[k].id
  BY DEF Firsts
<1>5. \A k \in DOMAIN C.out : wires[k].id = C.out[k].id
  BY DEF Wire
<1>6. wires \in Seq(S) /\ DOMAIN wires = DOMAIN C.out
  <2>1. wires \in [1..Len(C.out) -> S]
    BY <1>3
  <2>2. DOMAIN wires = DOMAIN C.out
    OBVIOUS
  <2> HIDE DEF wires, S
  <2> QED  BY <1>3, <2>1, <2>2, SeqDef
<1> HIDE DEF Go, wires, S
<1>7. Go \in SUBSET (DOMAIN wires)
  BY <1>4, <1>6
<1>8. /\ \A n \in DOMAIN batch : Nth(Go, n) \in Go /\ batch[n] = wires[Nth(Go, n)]
      /\ \A m, n \in DOMAIN batch : m < n => Nth(Go, m) < Nth(Go, n)
      /\ \E T : batch \in Seq(T)
  BY <1>2, <1>6, <1>7, KeptFacts
<1>9. \A n \in DOMAIN batch : n \in Nat
  BY <1>8
<1>10. \A n \in DOMAIN batch : batch[n].id = C.out[Nth(Go, n)].id
  BY <1>4, <1>5, <1>8
<1>11. ASSUME NEW m \in DOMAIN batch, NEW n \in DOMAIN batch, m < n
       PROVE  batch[m].id # batch[n].id
  <2>1. Nth(Go, m) < Nth(Go, n) /\ Nth(Go, m) \in Go /\ Nth(Go, n) \in Go
    BY <1>8, <1>11
  <2>2. Nth(Go, m) \in 1..Len(C.out) /\ Nth(Go, n) \in 1..Len(C.out)
    BY <1>3, <1>4, <2>1
  <2>3. Nth(Go, m) \in 1..(Nth(Go, n) - 1)
    BY <1>3, <2>1, <2>2
  <2> QED  BY <1>4, <1>10, <2>1, <2>3
<1>12. ASSUME NEW m \in DOMAIN batch, NEW n \in DOMAIN batch, batch[m].id = batch[n].id
       PROVE  m = n
  BY <1>9, <1>11, <1>12
<1> QED  BY <1>1, <1>4, <1>8, <1>10, <1>12

-----------------------------------------------------------------------------
(* The results of a push.                                                  *)

\* A conflict is recorded, resolved, or settled by adopting the server's version.
LEMMA ConflictedKeepsUp ==
  ASSUME NEW d, NEW D, Fine(D, d), NEW s, NEW c, KeepsUp(D, s, c), NEW w, NEW i \in Id,
         i = w.id, HasRow(D, i), NEW a, a.state \in Row, ~ Adoptable(w, a),
         D.row[i].sv <= a.state.ver, a.state.ver <= s.rec[i].ver, Fresh(s, c, i, a.state.ver),
         NEW E, E = Conflicted(D, w, a), Follows(D, E)
  PROVE  /\ KeepsUp(E, s, c)
         /\ \A j \in Id : j # i => E.row[j] = D.row[j] /\ E.conf[j] = D.conf[j]
         /\ HasRow(E, i) /\ E.row[i].sv <= a.state.ver
<1> DEFINE v == a.state.ver
           x == D.row[i].data
<1>0. v \in Nat /\ D \in DeviceState(d) /\ x \in Payload \cup {NoData} /\ x # NoData
  BY RowOf, NoRowFacts DEF Row, HasRow
<1>1. \A j \in Id \ {i} : AbreastAt(D, s, c, j)
  BY DEF KeepsUp
<1>2. \/ E = DeleteWins(D, i, v)
      \/ E = Recording(D, i, "version", a.state, x)
  BY DEF Conflicted
<1> HIDE DEF v
<1>3. CASE E = DeleteWins(D, i, v)
  <2>1. Settles(D, E, d, i, v)
    BY <1>0, <1>3, DeleteWinsSettles
  <2>2. KeepsUp(E, s, c)
    BY <1>0, <1>1, <2>1, SettlesKeepsUp DEF v
  <2>3. v <= v
    BY <1>0
  <2> QED  BY <2>1, <2>2, <2>3 DEF Settles, Touched, HasRow, v
<1>4. CASE E = Recording(D, i, "version", a.state, x)
  <2> HIDE DEF x
  <2>1. Opens(D, E, d, i, v)
    BY <1>0, <1>4, RecordedOpens DEF v
  <2>2. D.row[i].sv <= s.rec[i].ver /\ D.row[i].data # NoData
    BY DEF KeepsUp, AbreastAt, Abreast, HasRow
  <2>3. KeepsUp(E, s, c)
    BY <1>0, <1>1, <2>1, <2>2, OpensKeepsUp DEF v
  <2> QED  BY <2>1, <2>2, <2>3 DEF Opens, Touched, HasRow
<1> QED  BY <1>2, <1>3, <1>4

\* An operation is confirmed at the version it was applied at.
LEMMA ConfirmedKeepsUp ==
  ASSUME NEW d, NEW D, Fine(D, d), NEW s, NEW c, KeepsUp(D, s, c), NEW opId, NEW v \in Nat,
         \A k \in DOMAIN D.out : D.out[k].opId = opId =>
           /\ D.out[k].sent /\ D.conf[D.out[k].id].kind # "version"
           /\ s.applied[opId] = v /\ v <= s.rec[D.out[k].id].ver,
         NEW H, H = Confirmed(D, opId, v), Follows(D, H)
  PROVE  KeepsUp(H, s, c) /\ H.conf = D.conf
<1>1. CASE ~ \E k \in DOMAIN D.out : D.out[k].opId = opId
  BY <1>1 DEF Confirmed
<1>2. CASE \E k \in DOMAIN D.out : D.out[k].opId = opId
  <2> DEFINE k == CHOOSE k \in DOMAIN D.out : D.out[k].opId = opId
             i == D.out[k].id
             K == {l \in DOMAIN D.out : D.out[l].opId # opId}
             E == Without(D, K)
             m == IF OpsOf(E, i) = {} THEN v ELSE D.row[i].ver
             r == [D.row[i] EXCEPT !.sv = v, !.ver = m]
             G == WithRow(E, i, r)
  <2>1. (~ HasRow(D, i) /\ H = E) \/ (HasRow(D, i) /\ H = G)
    BY <1>2 DEF Confirmed, Without
  <2>2. k \in DOMAIN D.out /\ D.out[k].opId = opId
    BY <1>2
  <2> HIDE DEF k
  <2>3. D \in DeviceState(d) /\ D.out[k] \in PendingOp(d) /\ i \in Id
    BY <2>2, OutFacts DEF Fine, PendingOp
  <2>4. /\ D.out[k].sent /\ D.conf[i].kind # "version"
        /\ s.applied[opId] = v /\ v <= s.rec[i].ver
    BY <2>2
  <2> HIDE DEF i
  <2>5. k \in OpsOf(D, i) /\ opId \in SentIds(D, i)
    BY <2>2, <2>4 DEF OpsOf, SentIds, Queue, i
  <2>6. \A l \in OpsOf(D, i) : D.out[l].sent => l = k
    <3> TAKE l \in OpsOf(D, i)
    <3>1. Sound(D, i)
      BY <2>3 DEF Fine
    <3>2. D.out[l].sent => l <= k /\ k <= l
      BY <2>4, <2>5, <3>1 DEF Sound
    <3>3. l \in Nat /\ k \in Nat
      BY <2>2, <2>3, OutFacts DEF OpsOf
    <3> QED  BY <3>2, <3>3
  <2>7. K \in SUBSET (DOMAIN D.out)
    OBVIOUS
  <2>7a. k \notin K
    BY <2>2
  <2> HIDE DEF K
  <2>8. Thinned(D, E, d, K)
    BY <2>3, <2>7, WithoutFacts
  <2> HIDE DEF E
  <2>9. E \in DeviceState(d) /\ E.row = D.row /\ E.conf = D.conf /\ Follows(D, E)
    BY <2>8 DEF Thinned
  <2>10. SentIds(E, i) = {}
    <3>1. ASSUME NEW n \in OpsOf(E, i)  PROVE ~ E.out[n].sent
      <4> DEFINE l == Nth(K, n)
      <4>1. l \in K /\ E.out[n] = D.out[l] /\ E.out[n].id = i
        BY <2>8 DEF Thinned, OpsOf
      <4> HIDE DEF l
      <4>2. l \in OpsOf(D, i) /\ l # k
        BY <2>7, <2>7a, <4>1 DEF OpsOf
      <4> QED  BY <2>6, <4>1, <4>2
    <3> QED  BY <3>1 DEF SentIds, Queue
  <2>11. CASE ~ HasRow(D, i) /\ H = E
    BY <2>9, <2>11, AllSameKeepsUp
  <2>12. CASE HasRow(D, i) /\ H = G
    <3>1. r \in LocalRow /\ r.sv = v /\ r.data = D.row[i].data
      <4> DEFINE q == D.row[i]
      <4>1. q \in LocalRow /\ m \in Nat
        <5>1. D.row[i] \in LocalRow /\ D.row[i].ver \in Nat
          BY <2>3, RowOf
        <5> QED  BY <5>1
      <4> HIDE DEF q, m
      <4> QED  BY <4>1 DEF LocalRow, q
    <3> HIDE DEF r
    <3>2. RowWritten(E, G, d, i, r)
      BY <2>3, <2>9, <3>1, WithRowFacts
    <3> HIDE DEF G
    <3>3. /\ G.row[i] = r /\ G.conf = D.conf /\ G.out = E.out
          /\ \A j \in Id : j # i => G.row[j] = D.row[j]
      BY <2>9, <3>2 DEF RowWritten
    <3>4. SentIds(G, i) = {}
      BY <2>10, <3>3, SameSent
    <3>5. Fresh(s, c, i, v)
      <4>1. Abreast(s, c, i, D.row[i], D.conf[i], SentIds(D, i))
        BY <2>3 DEF KeepsUp, AbreastAt
      <4>2. s.applied[opId] # NotApplied
        BY <2>4 DEF NotApplied
      <4> QED  BY <2>4, <2>5, <4>1, <4>2 DEF Abreast
    <3>6. Abreast(s, c, i, r, D.conf[i], {})
      BY <2>4, <2>12, <3>1, <3>5, SettledAbreast DEF HasRow
    <3>7. ASSUME NEW j \in Id, j # i  PROVE AbreastAt(G, s, c, j)
      <4>1. Abreast(s, c, j, D.row[j], D.conf[j], SentIds(D, j))
        BY DEF KeepsUp, AbreastAt
      <4>2. SentIds(G, j) \subseteq SentIds(D, j)
        BY <2>12, SentFollows
      <4>3. Abreast(s, c, j, D.row[j], D.conf[j], SentIds(G, j))
        BY <4>1, <4>2, AbreastFewer
      <4> QED  BY <3>3, <3>7, <4>3 DEF AbreastAt
    <3>8. AbreastAt(G, s, c, i)
      BY <3>3, <3>4, <3>6 DEF AbreastAt
    <3>9. KeepsUp(G, s, c)
      BY <3>7, <3>8 DEF KeepsUp
    <3> QED  BY <2>12, <3>3, <3>9
  <2> QED  BY <2>1, <2>9, <2>11, <2>12
<1> QED  BY <1>1, <1>2

\* The operations of a batch are of different records, which the device holds,
\* with no version conflict open.
Apart(D, batch) ==
  /\ \A j, k \in DOMAIN batch : batch[j].id = batch[k].id => j = k
  /\ \A k \in DOMAIN batch : /\ HasRow(D, batch[k].id)
                             /\ D.conf[batch[k].id].kind # "version"

\* What an answer says of an operation w is the server's last word, or a newer one
\* is to be pulled.
Timely(D, a, w, s, c) ==
  /\ a.status = "applied" => a.ver = s.applied[w.opId]
  /\ a.status = "conflict" => /\ D.row[w.id].sv <= a.state.ver
                              /\ Fresh(s, c, w.id, a.state.ver)

\* So do the answers to a batch, the operations of which the device has as they are.
Current(D, batch, answers, n, s, c) ==
  \A k \in 1..n :
    /\ Timely(D, answers[k], batch[k], s, c)
    /\ \A j \in DOMAIN D.out : D.out[j].opId = batch[k].opId => D.out[j].id = batch[k].id

\* The answers of a batch, one after the other.
LEMMA PushTakenKeepsUp ==
  ASSUME NEW d, NEW D, Fine(D, d), NEW s, NEW c, KeepsUp(D, s, c),
         NEW batch, NEW answers, NEW n \in Nat, DOMAIN batch = 1..n,
         NEW F, Trusted(D, batch, answers, n, F), Truthful(D, batch, answers, n, s),
         Apart(D, batch), Current(D, batch, answers, n, s, c)
  PROVE  KeepsUp(PushTakenIn(D, batch, answers), s, c)
<1> DEFINE Refused == {k \in 1..n : answers[k].status = "conflict"}
           Done == {k \in 1..n : answers[k].status = "applied"}
           X == {E \in DeviceState(d) :
                   /\ Leads(D, E, d, {}) /\ E.made = D.made /\ KeepsUp(E, s, c)
                   /\ \A k \in Refused : /\ HasRow(E, batch[k].id)
                                         /\ E.row[batch[k].id].sv <= answers[k].state.ver
                   /\ \A k \in Done : E.conf[batch[k].id].kind # "version"}
           Y == {E \in DeviceState(d) :
                   /\ Leads(D, E, d, {}) /\ E.made = D.made /\ KeepsUp(E, s, c)
                   /\ \A k \in Done : E.conf[batch[k].id].kind # "version"}
<1>0. D \in DeviceState(d) /\ Leads(D, D, d, {})
  BY LeadsSelf DEF Fine
<1>1. D \in X
  BY <1>0 DEF Apart, Current, Timely
<1>2. AllConflicted(D, batch, answers) \in X
  <2>1. ASSUME NEW E \in X, NEW k \in 1..n, answers[k].status = "conflict"
        PROVE  Conflicted(E, batch[k], answers[k]) \in X
    <3> DEFINE w == batch[k]
               a == answers[k]
               H == Conflicted(E, w, a)
    <3>1. /\ Leads(D, E, d, {}) /\ E.made = D.made /\ KeepsUp(E, s, c)
          /\ HasRow(E, w.id) /\ E.row[w.id].sv <= a.state.ver
          /\ \A j \in Refused : /\ HasRow(E, batch[j].id)
                                /\ E.row[batch[j].id].sv <= answers[j].state.ver
          /\ \A j \in Done : E.conf[batch[j].id].kind # "version"
      BY <2>1
    <3>2. Leads(D, H, d, {}) /\ H.made = D.made
      <4>1. Leads(D, E, d, {}) /\ E.made = D.made
        BY <3>1
      <4> HIDE DEF X, Y, Refused, Done, w, a, H
      <4>2. /\ Leads(D, Conflicted(E, batch[k], answers[k]), d, {})
            /\ Conflicted(E, batch[k], answers[k]).made = D.made
        BY <4>1, RefusedOn
      <4> QED  BY <4>2 DEF w, a, H
    <3>3. w.id \in Id /\ a.state \in Row /\ ~ Adoptable(w, a)
      BY <2>1 DEF Trusted
    <3>4. a.state.ver <= s.rec[w.id].ver /\ Fresh(s, c, w.id, a.state.ver)
      BY <2>1 DEF Truthful, Says, Current, Timely
    <3>5. Fine(E, d) /\ E \in DeviceState(d)
      BY <3>1 DEF Leads, Fine
    <3>6. Follows(E, H)
      <4>1. a.state.data \in Data(w.id)
        BY <2>1 DEF Trusted
      <4> HIDE DEF w, a, H, X
      <4>2. Leads(E, Conflicted(E, w, a), d, {})
        BY <3>3, <3>5, <4>1, ConflictedFine
      <4> QED  BY <4>2 DEF Leads, H
    <3>7. \A j \in 1..n : j # k => batch[j].id # w.id /\ batch[j].id \in Id
      BY DEF Apart, Trusted
    <3>8. k \notin Done
      BY <2>1
    <3> HIDE DEF X, w, a
    <3>9. /\ KeepsUp(H, s, c)
          /\ \A j \in Id : j # w.id => H.row[j] = E.row[j] /\ H.conf[j] = E.conf[j]
          /\ HasRow(H, w.id) /\ H.row[w.id].sv <= a.state.ver
      <4> HIDE DEF Refused, Done
      <4>1. H = Conflicted(E, w, a)
        OBVIOUS
      <4> HIDE DEF H
      <4> QED  BY <3>1, <3>3, <3>4, <3>5, <3>6, <4>1, ConflictedKeepsUp
    <3> HIDE DEF H
    <3>10. ASSUME NEW j \in Refused
           PROVE  HasRow(H, batch[j].id) /\ H.row[batch[j].id].sv <= answers[j].state.ver
      <4>1. CASE j = k
        BY <3>9, <4>1 DEF w, a
      <4>2. CASE j # k
        <5>1. batch[j].id \in Id /\ batch[j].id # w.id
          BY <3>7, <4>2
        <5>2. H.row[batch[j].id] = E.row[batch[j].id]
          BY <3>9, <5>1
        <5> QED  BY <3>1, <5>2 DEF HasRow
      <4> QED  BY <4>1, <4>2
    <3>11. ASSUME NEW j \in Done  PROVE H.conf[batch[j].id].kind # "version"
      <4>1. batch[j].id \in Id /\ batch[j].id # w.id
        BY <3>7, <3>8
      <4> QED  BY <3>1, <3>9, <4>1
    <3>12. H \in DeviceState(d)
      BY <3>2 DEF Leads, Fine
    <3>13. H \in X
      BY <3>2, <3>9, <3>10, <3>11, <3>12 DEF X
    <3> QED  BY <3>13 DEF H, w, a
  <2> HIDE DEF X
  <2> QED  BY <1>1, <2>1, ConflictsKeep
<1>3. X \subseteq Y
  OBVIOUS
<1>4. \A E \in Y : AllConfirmed(E, batch, answers) \in Y
  <2>1. ASSUME NEW E \in Y, NEW k \in 1..n, answers[k].status = "applied"
        PROVE  Confirmed(E, batch[k].opId, answers[k].ver) \in Y
    <3> DEFINE opId == batch[k].opId
               v == answers[k].ver
               H == Confirmed(E, opId, v)
    <3>1. /\ Leads(D, E, d, {}) /\ E.made = D.made /\ KeepsUp(E, s, c)
          /\ \A j \in Done : E.conf[batch[j].id].kind # "version"
      BY <2>1
    <3>2. Fine(E, d) /\ E \in DeviceState(d) /\ Follows(D, E)
      BY <3>1 DEF Leads, Fine
    <3>3. /\ Leads(D, H, d, {}) /\ H.made = D.made
          /\ \A m \in DOMAIN E.out : E.out[m].opId = opId =>
               /\ E.out[m].sent
               /\ E.out[m].action = "upsert" => v = E.out[m].base + 1
               /\ v >= 1 => E.out[m].id \in F
      BY <2>1, <3>1, AcceptedOn
    <3>4. v \in Nat /\ v >= 1 /\ opId[2] <= D.made /\ v = s.applied[opId]
      BY <2>1 DEF Trusted, Truthful, Current, Timely
    <3>5. E.conf[batch[k].id].kind # "version"
      BY <2>1, <3>1
    <3>6. \A j \in DOMAIN D.out : D.out[j].opId = opId =>
            D.out[j].id = batch[k].id /\ v <= s.rec[D.out[j].id].ver
      BY <2>1 DEF Truthful, Says, Current
    <3> HIDE DEF X, Y, Refused, Done
    <3>7. ASSUME NEW m \in DOMAIN E.out, E.out[m].opId = opId
          PROVE  /\ E.out[m].sent /\ E.conf[E.out[m].id].kind # "version"
                 /\ s.applied[opId] = v /\ v <= s.rec[E.out[m].id].ver
      <4>1. PICK j \in DOMAIN D.out : SameOp(E.out[m], D.out[j])
        BY <1>0, <3>2, <3>4, <3>7, SentStays
      <4>2. D.out[j].opId = opId /\ E.out[m].id = D.out[j].id
        BY <3>7, <4>1 DEF SameOp
      <4>3. E.out[m].sent
        BY <3>3, <3>7
      <4>4. E.out[m].id = batch[k].id /\ v <= s.rec[E.out[m].id].ver
        BY <3>6, <4>2
      <4> QED  BY <3>4, <3>5, <4>3, <4>4
    <3>8. Follows(E, H)
      <4>1. v \in Nat
        BY <3>4
      <4>2. \A m \in DOMAIN E.out : E.out[m].opId = opId =>
              /\ E.out[m].sent
              /\ E.out[m].action = "upsert" => v = E.out[m].base + 1
        BY <3>3
      <4> HIDE DEF opId, v, H
      <4>3. Leads(E, Confirmed(E, opId, v), d, {})
        BY <3>2, <4>1, <4>2, ConfirmedFine
      <4> QED  BY <4>3 DEF Leads, H
    <3>9. KeepsUp(H, s, c) /\ H.conf = E.conf
      <4>1. H = Confirmed(E, opId, v) /\ v \in Nat
        BY <3>4
      <4> HIDE DEF opId, v, H
      <4> QED  BY <3>1, <3>2, <3>7, <3>8, <4>1, ConfirmedKeepsUp
    <3>10. H \in DeviceState(d)
      BY <3>3 DEF Leads, Fine
    <3> HIDE DEF H
    <3>11. H \in Y
      BY <3>1, <3>3, <3>9, <3>10 DEF Y
    <3> QED  BY <3>11 DEF H
  <2> HIDE DEF Y
  <2> QED  BY <2>1, ConfirmsKeep
<1>5. PushTakenIn(D, batch, answers) \in Y
  <2> HIDE DEF X, Y
  <2> QED  BY <1>2, <1>3, <1>4, InTwoPasses
<1> QED  BY <1>5

-----------------------------------------------------------------------------
(* A page.                                                                 *)

\* All changes since c.
LEMMA ChangesOrderly ==
  ASSUME NEW s, ServerOK(s), Ledger(s), NEW c \in Nat
  PROVE  Orderly(Changes(s, c), s, c)
<1> DEFINE after == {e \in s.log : e.seq > c}
           seqs == {e.seq : e \in after}
           n == Cardinality(seqs)
           Change(e) == [seq |-> e.seq, id |-> e.id, action |-> e.action, ver |-> e.ver,
                         data |-> IF e.action = "upsert" THEN s.rec[e.id].data ELSE NoData]
           Pick(k) == CHOOSE e \in after : e.seq = Nth(seqs, k)
           all == Changes(s, c)
<1>0. /\ s.log \in SUBSET Entry /\ IsFiniteSet(s.log) /\ \A e \in s.log : e.seq \in Nat
  BY DEF ServerOK, ServerState, Entry
<1>1. all = [k \in 1..n |-> Change(Pick(k))]
  BY DEF Changes
<1>2. IsFiniteSet(seqs) /\ \A x \in seqs : x \in Nat
  <2>1. IsFiniteSet(after)
    BY <1>0, FS_Subset
  <2> DEFINE f == [e \in after |-> e.seq]
  <2>2. f \in Surjection(after, seqs)
    BY DEF Surjection
  <2>3. \A x \in seqs : x \in Nat
    BY <1>0
  <2> HIDE DEF after, f, seqs
  <2> QED  BY <2>1, <2>2, <2>3, FS_Surjection
<1>3. /\ n \in Nat /\ \A k \in 1..n : Nth(seqs, k) \in seqs
      /\ \A j, k \in 1..n : j < k => Nth(seqs, j) < Nth(seqs, k)
      /\ \A x \in seqs : \E k \in 1..n : Nth(seqs, k) = x
  <2> HIDE DEF seqs
  <2> QED  BY <1>2, NthFacts
<1>4. ASSUME NEW k \in 1..n
      PROVE  Pick(k) \in after /\ Pick(k).seq = Nth(seqs, k)
  <2>1. \E e \in after : e.seq = Nth(seqs, k)
    <3> HIDE DEF n
    <3> QED  BY <1>3
  <2> HIDE DEF after
  <2> QED  BY <2>1
<1>5. \A e \in s.log : e.seq > c => e.seq \in seqs
  OBVIOUS
<1>6. \A k \in 1..n : Pick(k) \in s.log /\ Pick(k).seq > c
  <2> HIDE DEF n, Pick
  <2> QED  BY <1>4
<1>7. \A e : /\ Change(e).seq = e.seq /\ Change(e).id = e.id /\ Change(e).ver = e.ver
  OBVIOUS
<1> HIDE DEF n, Pick, Change, all, after, seqs
<1>8. /\ DOMAIN all = 1..n
      /\ \A k \in 1..n : /\ all[k].seq = Nth(seqs, k) /\ all[k].seq = Pick(k).seq
                         /\ all[k].id = Pick(k).id /\ all[k].ver = Pick(k).ver
  BY <1>1, <1>4, <1>7
<1>9. \A k \in DOMAIN all :
        /\ all[k].seq > c
        /\ \E e \in s.log : e.seq = all[k].seq /\ e.id = all[k].id /\ e.ver = all[k].ver
  BY <1>6, <1>8
<1>10. \A j, k \in DOMAIN all : j < k => all[j].seq < all[k].seq
  BY <1>3, <1>8
<1>11. ASSUME NEW e \in s.log, e.seq > c
       PROVE  \E k \in DOMAIN all : all[k].seq = e.seq /\ all[k].id = e.id
  <2>1. PICK k \in 1..n : Nth(seqs, k) = e.seq
    BY <1>3, <1>5, <1>11
  <2>2. Pick(k) = e
    BY <1>6, <1>8, <2>1 DEF Ledger
  <2> QED  BY <1>8, <2>1, <2>2
<1>12. Orderly(all, s, c)
  BY <1>9, <1>10, <1>11 DEF Orderly
<1> QED  BY <1>12 DEF all

\* As many of them as fit in a page.
LEMMA PageOrderly ==
  ASSUME NEW s, ServerOK(s), Ledger(s), NEW c \in Nat
  PROVE  Orderly(Page(s, c), s, c)
<1> DEFINE all == Changes(s, c)
           page == Page(s, c)
<1>1. all \in Seq(PulledChange) /\ Orderly(all, s, c)
  BY ChangesFacts, ChangesOrderly
<1> HIDE DEF all
<1>2. page = IF Len(all) > PageSize THEN SubSeq(all, 1, PageSize) ELSE all
  BY DEF all, Page
<1> HIDE DEF page
<1>0. /\ DOMAIN all = 1..Len(all) /\ Len(all) \in Nat
      /\ \A k \in 1..Len(all) : all[k].seq \in Nat
      /\ \A e \in s.log : e.seq \in Nat
  <2>1. DOMAIN all = 1..Len(all) /\ Len(all) \in Nat
        /\ \A k \in 1..Len(all) : all[k] \in PulledChange
    BY <1>1
  <2>2. \A ch \in PulledChange : ch.seq \in Nat
    BY DEF PulledChange
  <2>3. \A e \in s.log : e.seq \in Nat
    BY DEF ServerOK, ServerState, Entry
  <2> QED  BY <2>1, <2>2, <2>3
<1>3. CASE Len(all) > PageSize
  <2>1. PageSize \in 1..Len(all) /\ PageSize \in Nat
    BY <1>0, <1>3, PageAssumption
  <2>2. /\ DOMAIN page = 1..PageSize
        /\ \A k \in 1..PageSize : page[k] = all[k] /\ k \in 1..Len(all)
    BY <1>1, <1>2, <1>3, <2>1
  <2>3. ASSUME NEW e \in s.log, e.seq > c
        PROVE  \/ \E k \in DOMAIN page : page[k].seq = e.seq /\ page[k].id = e.id
               \/ \A k \in DOMAIN page : page[k].seq < e.seq
    <3>1. CASE \E k \in DOMAIN all : all[k].seq = e.seq /\ all[k].id = e.id
      <4>1. PICK k \in 1..Len(all) : all[k].seq = e.seq /\ all[k].id = e.id
        BY <1>0, <3>1
      <4>2. CASE k <= PageSize
        BY <2>1, <2>2, <4>1, <4>2
      <4>3. CASE ~ (k <= PageSize)
        <5>1. \A j \in 1..PageSize : j < k /\ j \in 1..Len(all)
          BY <1>0, <2>1, <4>3
        <5>2. \A j \in 1..PageSize : all[j].seq < all[k].seq
          BY <1>0, <1>1, <5>1 DEF Orderly
        <5> QED  BY <2>2, <4>1, <5>2
      <4> QED  BY <4>2, <4>3
    <3>2. CASE \A k \in DOMAIN all : all[k].seq < e.seq
      BY <1>0, <2>2, <3>2
    <3> QED  BY <1>1, <2>3, <3>1, <3>2 DEF Orderly
  <2>4. \A k \in DOMAIN page :
          /\ page[k].seq > c
          /\ \E e \in s.log : e.seq = page[k].seq /\ e.id = page[k].id /\ e.ver = page[k].ver
    BY <1>0, <1>1, <2>2 DEF Orderly
  <2>5. \A j, k \in DOMAIN page : j < k => page[j].seq < page[k].seq
    BY <1>0, <1>1, <2>2 DEF Orderly
  <2>6. Orderly(page, s, c)
    BY <2>3, <2>4, <2>5 DEF Orderly
  <2> QED  BY <2>6 DEF page
<1>4. CASE ~ (Len(all) > PageSize)
  BY <1>1, <1>2, <1>4 DEF page
<1> QED  BY <1>3, <1>4

\* What is written after a page was read comes after it.
LEMMA OrderlyOn ==
  ASSUME NEW s, ServerOK(s), NEW t, ServerOK(t), Announces(s, t), NEW c, NEW page,
         Orderly(page, s, c), \A k \in DOMAIN page : Pullable(page[k], s)
  PROVE  Orderly(page, t, c)
<1>0. /\ s.seq \in Nat /\ t.seq \in Nat /\ \A e \in t.log : e.seq \in Nat
      /\ \A k \in DOMAIN page : page[k].seq \in Nat /\ page[k].seq <= s.seq
  BY DEF ServerOK, ServerState, Entry, Pullable, PulledChange
<1>1. \A e \in t.log : e \in s.log \/ \A k \in DOMAIN page : page[k].seq < e.seq
  <2>1. \A e \in t.log : e \in s.log \/ e.seq > s.seq
    BY DEF Announces
  <2> QED  BY <1>0, <2>1
<1>2. s.log \subseteq t.log
  BY DEF Announces
<1> QED  BY <1>1, <1>2 DEF Orderly

-----------------------------------------------------------------------------
(* What a device awaits.                                                   *)

\* The answers to a push and a page on their way.
Awaits(D, N, s, c) ==
  /\ Apart(D, N.batch)
  /\ N.phase = "pushed" =>
       \A k \in DOMAIN N.batch : Timely(D, N.answers[k], N.batch[k], s, c)
  /\ N.phase = "pulled" => Orderly(N.page, s, c)

\* A record without a version conflict stays one, at the version it was confirmed at.
Stays(D, E, i) ==
  HasRow(D, i) /\ D.conf[i].kind # "version" =>
    HasRow(E, i) /\ E.row[i].sv = D.row[i].sv /\ E.conf[i].kind # "version"

\* What a batch awaits is the business of its records alone.
LEMMA StaysAwaiting ==
  ASSUME NEW d, NEW D, NEW E, NEW N, N \in Request(d), NEW s, NEW c, Awaits(D, N, s, c),
         \A k \in DOMAIN N.batch : Stays(D, E, N.batch[k].id)
  PROVE  Awaits(E, N, s, c)
<1>1. \A k \in DOMAIN N.batch :
        /\ HasRow(E, N.batch[k].id) /\ E.conf[N.batch[k].id].kind # "version"
        /\ E.row[N.batch[k].id].sv = D.row[N.batch[k].id].sv
  BY DEF Awaits, Apart, Stays
<1>2. Apart(E, N.batch)
  BY <1>1 DEF Awaits, Apart
<1>3. ASSUME N.phase = "pushed", NEW k \in DOMAIN N.batch
      PROVE  Timely(E, N.answers[k], N.batch[k], s, c)
  BY <1>1, <1>3 DEF Awaits, Timely
<1> QED  BY <1>2, <1>3 DEF Awaits

\* What users do to one record leaves it, or is about a version conflict.
LEMMA EditsStay ==
  ASSUME NEW d, NEW D \in DeviceState(d), NEW i \in Id, NEW j \in Id
  PROVE  /\ ~ HasRow(D, i) => \A x : Stays(D, LocalCreate(D, i, x), j)
         /\ \A x : x # NoData => Stays(D, LocalUpdate(D, i, x), j)
         /\ Stays(D, Resolved(D, i), j)
         /\ D.conf[i].kind = "version" => /\ Stays(D, KeepLocal(D, i), j)
                                          /\ Stays(D, TakeServer(D, i), j)
<1>0. D.row[i] \in LocalRow /\ D.row[j] \in LocalRow
  BY DEF DeviceState
<1>1. ASSUME ~ HasRow(D, i), NEW x  PROVE Stays(D, LocalCreate(D, i, x), j)
  <2>1. LocalCreate(D, i, x).conf = D.conf
        /\ (j # i => LocalCreate(D, i, x).row[j] = D.row[j])
    BY DEF LocalCreate, Enqueued, WithRow, DeviceState
  <2> QED  BY <1>1, <2>1 DEF Stays, HasRow
<1>2. ASSUME NEW x, x # NoData  PROVE Stays(D, LocalUpdate(D, i, x), j)
  <2> DEFINE r == [D.row[i] EXCEPT !.ver = @ + 1, !.data = x]
             E == LocalUpdate(D, i, x)
  <2>1. r.sv = D.row[i].sv /\ r.data = x
    BY <1>0 DEF LocalRow
  <2>2. E.conf = D.conf /\ E.row = [D.row EXCEPT ![i] = r]
    BY DEF LocalUpdate, Enqueued, WithRow, DeviceState
  <2> HIDE DEF r, E
  <2>3. E.row[j] = IF j = i THEN r ELSE D.row[j]
    BY <2>2 DEF DeviceState
  <2>4. Stays(D, E, j)
    BY <1>2, <2>1, <2>2, <2>3 DEF Stays, HasRow
  <2> QED  BY <2>4 DEF E
<1>3. ASSUME NEW F, F.row = D.row, F.conf = D.conf, F \in DeviceState(d)
      PROVE  Stays(D, Resolved(F, i), j)
  <2>1. Resolved(F, i).row = D.row /\ Resolved(F, i).conf = [D.conf EXCEPT ![i] = NoConflict]
    BY <1>3 DEF Resolved, DeviceState
  <2>2. Resolved(F, i).conf[j] = IF j = i THEN NoConflict ELSE D.conf[j]
    BY <2>1 DEF DeviceState
  <2> QED  BY <2>1, <2>2 DEF Stays, HasRow, NoConflict
<1>4. ASSUME D.conf[i].kind = "version", NEW E, E = KeepLocal(D, i) \/ E = TakeServer(D, i)
      PROVE  Stays(D, E, j)
  <2>1. CASE j = i
    BY <1>4, <2>1 DEF Stays
  <2>2. CASE j # i
    <3>1. ASSUME E = KeepLocal(D, i)  PROVE E.row[j] = D.row[j] /\ E.conf[j] = D.conf[j]
      BY <2>2, <3>1 DEF KeepLocal, Resolved, Enqueued, WithRow, DropOps, DeviceState
    <3>2. ASSUME E = TakeServer(D, i)  PROVE E.row[j] = D.row[j] /\ E.conf[j] = D.conf[j]
      BY <2>2, <3>2 DEF TakeServer, Resolved, WithRow, DropOps, DeviceState
    <3>3. E.row[j] = D.row[j] /\ E.conf[j] = D.conf[j]
      BY <1>4, <3>1, <3>2
    <3> QED  BY <3>3 DEF Stays, HasRow
  <2> QED  BY <2>1, <2>2
<1> QED  BY <1>1, <1>2, <1>3, <1>4

\* Of a live record that is taken for unborn no operation is under way.
LEMMA UnbornApart ==
  ASSUME InOrder, Originated, NEW plain, Spoken(plain), NEW d \in Device, NEW i \in Id,
         LiveRow(dev[d], i), Unborn(dev[d], i), NEW w \in Wires(net[d], late[d])
  PROVE  w.id # i
<1> SUFFICES ASSUME w.id = i  PROVE FALSE
  OBVIOUS
<1> DEFINE D == dev[d]
<1>1. /\ DeviceOK(d, D, net[d], late[d], cursor[d], srv, born)
      /\ Traces(D, net[d], late[d], srv)
      /\ Fine(D, d) /\ D \in DeviceState(d) /\ Rooted(D, OnServer(srv))
      /\ Speaks(D, net[d], late[d], srv, plain)
  BY DEF InOrder, DeviceOK, Fine, Originated, Traces, Spoken
<1>2. D.row[i].sv = 0 /\ \A k \in OpsOf(D, i) : ~ D.out[k].sent
  BY DEF Unborn
<1>3. OpsOf(D, i) # {}
  BY <1>1, <1>2, UnconfirmedWaits
<1>4. PICK k \in OpsOf(D, i) : \A j \in OpsOf(D, i) : k <= j
  <2>1. OpsOf(D, i) \subseteq Nat
    BY <1>1 DEF OpsOf, DeviceState
  <2> QED  BY <1>3, <2>1, LeastElement
<1>5. D.out[k].action = "upsert"
  <2>1. D.out[k] \in PendingOp(d)
    BY <1>1, OutFacts DEF OpsOf
  <2>2. D.out[k].action = "delete" => D.row[i].deleted
    BY <1>1, RowOf DEF Sound
  <2> QED  BY <2>1, <2>2 DEF PendingOp, LiveRow
<1>6. D.out[k].opId \in Origins[i]
  <2>1. D.out[k].opId \in Creating(D, net[d], late[d], i)
    BY <1>2, <1>4, <1>5 DEF Creating, Creators, FirstIds
  <2> QED  BY <2>1 DEF Origins
<1>7. ~ Found(srv, i)
  BY OriginatedUnborn DEF UnbornUnknown
<1>8. Valid(w) /\ SentAsIs(D, w) /\ Traced(srv, w) /\ Performed(srv, w)
  BY <1>1 DEF DeviceOK, SentAsIs, Traces, Speaks
<1>9. w.action = "upsert" /\ w.base = 0
  BY <1>7, <1>8 DEF Traced, Performed, Valid
<1>10. w.opId \in Origins[i]
  <2>1. w.opId \in Creating(D, net[d], late[d], i)
    BY <1>9 DEF Creating, Creates
  <2> QED  BY <2>1 DEF Origins
<1>11. w.opId = D.out[k].opId
  BY <1>6, <1>10 DEF Originated, OneOrigin
<1> QED  BY <1>2, <1>4, <1>8, <1>11 DEF SentAsIs, OpsOf

\* What the user does.
LEMMA UserAwaits ==
  ASSUME InOrder, Originated, WipesUnborn, NEW plain, Spoken(plain), NEW d \in Device,
         User(d) \/ Settle(d), Awaits(dev[d], net[d], srv, cursor[d])
  PROVE  Awaits(dev'[d], net[d], srv, cursor[d])
<1> DEFINE D == dev[d]
           E == dev'[d]
<1>0. /\ Fine(D, d) /\ D \in DeviceState(d) /\ net[d] \in Request(d)
      /\ \A i \in Id : HasRow(D, i) => i \in born
      /\ \A F : Locally(d, F) => E = F
  BY DEF InOrder, DeviceOK, Fine, Heard, Locally
<1>1. \A t \in Transaction : HasRow(D, t) /\ ~ HasRow(E, t) => Unborn(D, t)
  BY DEF WipesUnborn
<1> HIDE DEF E
<1>2. ASSUME NEW j \in Id, \A i : LiveRow(D, i) /\ Unborn(D, i) => j # i
      PROVE  Stays(D, E, j)
  <2>1. ASSUME NEW i \in Id, UserCreates(d, i)  PROVE Stays(D, E, j)
    <3>1. ~ HasRow(D, i) /\ \E x : E = LocalCreate(D, i, x)
      BY <1>0, <2>1 DEF UserCreates
    <3> QED  BY <1>0, <3>1, EditsStay
  <2>2. ASSUME NEW i \in Id, UserUpdates(d, i)  PROVE Stays(D, E, j)
    <3>1. \E x \in PayloadOf(i) : E = LocalUpdate(D, i, x)
      BY <1>0, <2>2 DEF UserUpdates
    <3>2. \A x \in PayloadOf(i) : x # NoData
      BY NoDataAssumption DEF PayloadOf
    <3> QED  BY <1>0, <3>1, <3>2, EditsStay
  <2>3. ASSUME NEW i \in Id, NEW cascade \in BOOLEAN, UserRemoves(d, i, cascade)
        PROVE  Stays(D, E, j)
    <3>1. LiveRow(D, i) /\ E = LocalRemove(D, i, cascade)
      BY <1>0, <2>3 DEF UserRemoves
    <3>2. /\ E.conf = D.conf
          /\ \/ /\ LiveRow(D, j) /\ E.row[j] = NoRow
                /\ j \in Transaction \/ Unborn(D, j)
             \/ E.row[j].sv = D.row[j].sv /\ E.row[j].data = D.row[j].data
      BY <1>0, <3>1, RemoveRows
    <3>3. CASE E.row[j].sv = D.row[j].sv /\ E.row[j].data = D.row[j].data
      BY <3>2, <3>3 DEF Stays, HasRow
    <3>4. CASE LiveRow(D, j) /\ E.row[j] = NoRow /\ (j \in Transaction \/ Unborn(D, j))
      <4>1. ~ HasRow(E, j) /\ HasRow(D, j)
        BY <3>4, NoRowFacts DEF HasRow, LiveRow
      <4> QED  BY <1>1, <1>2, <3>4, <4>1
    <3> QED  BY <3>2, <3>3, <3>4
  <2>4. ASSUME NEW i \in Id, UserDismisses(d, i)  PROVE Stays(D, E, j)
    <3>1. E = Resolved(D, i)
      BY <1>0, <2>4 DEF UserDismisses
    <3> QED  BY <1>0, <3>1, EditsStay
  <2>5. ASSUME NEW i \in Id, NEW k \in Id, UserRestores(d, i, k)  PROVE Stays(D, E, j)
    <3> DEFINE lost == D.conf[i].local
               F == LocalCreate(D, k, lost)
    <3>1. k \notin born /\ (E = F \/ E = Resolved(F, i))
      BY <1>0, <2>5 DEF UserRestores
    <3>2. ~ HasRow(D, k)
      BY <1>0, <3>1
    <3>3. Stays(D, F, j)
      <4> HIDE DEF lost
      <4> QED  BY <1>0, <3>2, EditsStay
    <3>4. /\ Resolved(F, i).row = F.row
          /\ Resolved(F, i).conf[j] \in {F.conf[j], NoConflict}
      <4>1. F.conf = D.conf
        BY <1>0 DEF LocalCreate, Enqueued, WithRow, DeviceState
      <4> HIDE DEF F
      <4> QED  BY <4>1, <1>0 DEF Resolved, DeviceState
    <3> HIDE DEF F
    <3>5. Stays(D, Resolved(F, i), j)
      BY <3>3, <3>4 DEF Stays, HasRow, NoConflict
    <3> QED  BY <3>1, <3>3, <3>5
  <2>6. ASSUME NEW i \in Id, UserKeeps(d, i) \/ UserTakes(d, i)  PROVE Stays(D, E, j)
    <3>1. D.conf[i].kind = "version" /\ (E = KeepLocal(D, i) \/ E = TakeServer(D, i))
      BY <1>0, <2>6 DEF UserKeeps, UserTakes
    <3> QED  BY <1>0, <3>1, EditsStay
  <2> QED  BY <2>1, <2>2, <2>3, <2>4, <2>5, <2>6 DEF User, Settle
<1>3. ASSUME NEW k \in DOMAIN net[d].batch
      PROVE  Stays(D, E, net[d].batch[k].id)
  <2>1. net[d].batch[k] \in Wires(net[d], late[d])
    BY DEF Wires, Range
  <2>2. net[d].batch[k].id \in Id
    BY <2>1 DEF InOrder, DeviceOK, SentAsIs, Valid
  <2>3. \A i : LiveRow(D, i) /\ Unborn(D, i) /\ i \in Id => net[d].batch[k].id # i
    BY <2>1, UnbornApart
  <2> QED  BY <1>2, <2>2, <2>3
<1>4. Awaits(E, net[d], srv, cursor[d])
  BY <1>0, <1>3, StaysAwaiting
<1> QED  BY <1>4 DEF E

\* The server's writes leave what a device awaits.
LEMMA AwaitsOn ==
  ASSUME NEW d \in Device, NEW D, NEW N, NEW L, NEW c, NEW s, NEW b,
         DeviceOK(d, D, N, L, c, s, b), ServerOK(s), NEW t, ServerOK(t), Announces(s, t),
         \A o \in OpId : o[1] = d /\ s.applied[o] # NotApplied => t.applied[o] = s.applied[o],
         Awaits(D, N, s, c)
  PROVE  Awaits(D, N, t, c)
<1>0. /\ c \in Int /\ c <= s.seq /\ N \in Request(d)
      /\ \A k \in DOMAIN N.page : Pullable(N.page[k], s)
  BY DEF DeviceOK, ServerOK, ServerState
<1>1. ASSUME N.phase = "pushed", NEW k \in DOMAIN N.batch
      PROVE  Timely(D, N.answers[k], N.batch[k], t, c)
  <2> DEFINE w == N.batch[k]
             a == N.answers[k]
  <2>1. Timely(D, a, w, s, c) /\ Answers(a, w)
    BY <1>1 DEF Awaits, DeviceOK, AsAnswered
  <2>2. w.id \in Id /\ w.opId \in OpId /\ w.opId[1] = d
    <3>1. w \in Wires(N, L) /\ w \in WireOp(d)
      BY <1>0 DEF Wires, Range, Request
    <3>2. Valid(w)
      BY <3>1 DEF DeviceOK, SentAsIs
    <3> QED  BY <3>1, <3>2 DEF Valid, WireOp
  <2> HIDE DEF w, a
  <2>3. a.status = "applied" => a.ver = t.applied[w.opId]
    <3>1. ASSUME a.status = "applied"  PROVE a.ver = t.applied[w.opId]
      <4>1. a.ver = s.applied[w.opId] /\ a.ver \in Nat
        BY <2>1, <3>1 DEF Timely, Answers, Answer
      <4>2. s.applied[w.opId] # NotApplied
        BY <4>1 DEF NotApplied
      <4> QED  BY <2>2, <4>1, <4>2
    <3> QED  BY <3>1
  <2>4. a.status = "conflict" => D.row[w.id].sv <= a.state.ver /\ Fresh(t, c, w.id, a.state.ver)
    BY <1>0, <2>1, <2>2, FreshOn DEF Timely
  <2>5. Timely(D, a, w, t, c)
    BY <2>3, <2>4 DEF Timely
  <2> QED  BY <2>5 DEF a, w
<1>2. N.phase = "pulled" => Orderly(N.page, t, c)
  BY <1>0, OrderlyOn DEF Awaits
<1> QED  BY <1>1, <1>2 DEF Awaits

\* A step of the server about the operations of other devices.
LEMMA OthersKeepUp ==
  ASSUME NEW d \in Device, NEW D, NEW N, NEW L, NEW c, NEW s, NEW b,
         DeviceOK(d, D, N, L, c, s, b), ServerOK(s), NEW t, ServerOK(t),
         Announces(s, t), Grows(s, t),
         \A o \in OpId : o[1] = d => t.applied[o] = s.applied[o],
         KeepsUp(D, s, c), Awaits(D, N, s, c)
  PROVE  KeepsUp(D, t, c) /\ Awaits(D, N, t, c)
<1>1. Fine(D, d) /\ c \in Int /\ c <= s.seq
  BY DEF DeviceOK, ServerOK, ServerState
<1>2. \A i \in Id : \A o \in SentIds(D, i) : t.applied[o] = s.applied[o]
  <2>1. \A k \in DOMAIN D.out : D.out[k].opId \in OpId /\ D.out[k].opId[1] = d
    BY DeviceParts
  <2> QED  BY <2>1 DEF SentIds, Queue, OpsOf
<1>3. KeepsUp(D, t, c)
  BY <1>1, <1>2, KeepsUpOn
<1>4. Awaits(D, N, t, c)
  BY AwaitsOn
<1> QED  BY <1>3, <1>4

\* A batch of the device arrives at the server.
LEMMA ServedKeepsUp ==
  ASSUME NEW d \in Device, NEW D, NEW N, NEW L, NEW c, NEW s, NEW b,
         DeviceOK(d, D, N, L, c, s, b), Traces(D, N, L, s), ServerOK(s), KnownTo(s) \subseteq b,
         Grounded(s), Honest(s), NEW plain, Speaks(D, N, L, s, plain),
         NEW C, OneOrigin(C, s), \A i \in Id : Creating(D, N, L, i) \subseteq C[i],
         Ledger(s), KeepsUp(D, s, c), Awaits(D, N, s, c),
         NEW batch \in {N.batch, L}, NEW order \in Orders,
         NEW r, r = Applied(s, batch, order)
  PROVE  /\ Announces(s, r.srv) /\ Ledger(r.srv) /\ Grows(s, r.srv) /\ ServerOK(r.srv)
         /\ \A o \in OpId : o[1] # d => r.srv.applied[o] = s.applied[o]
         /\ KeepsUp(D, r.srv, c) /\ Awaits(D, N, r.srv, c)
         /\ batch = N.batch =>
              \A k \in DOMAIN batch : Timely(D, r.answers[k], batch[k], r.srv, c)
<1> DEFINE n == Len(batch)
           t == r.srv
<1>1. /\ Batch(batch, n) /\ DOMAIN batch = 1..n
      /\ \A k \in 1..n : /\ batch[k] \in Wires(N, L)
                         /\ batch[k].action = "upsert" => AppliedTo(s, batch[k])
  BY UnderWay
<1> HIDE DEF n
<1>2. \A w \in Wires(N, L) : Valid(w) /\ SentAsIs(D, w) /\ Traced(s, w) /\ Performed(s, w)
  BY DEF DeviceOK, SentAsIs, Traces, Speaks
<1>3. \A k \in 1..n : /\ Traced(s, batch[k]) /\ Performed(s, batch[k])
                      /\ Creates(batch[k]) => batch[k].opId \in C[batch[k].id]
  BY <1>1, <1>2 DEF Creating, Valid
<1>4. Alike(batch, n)
  BY <1>1 DEF Alike, Speaks
<1>5. /\ Landed(s, t, batch, n)
      /\ \A k \in 1..n : Replies(s, t, r.answers[k], batch[k])
  BY <1>1, <1>3, <1>4, AppliedLands
<1>6. ServerOK(t) /\ \A o \in OpId : o[1] # d => t.applied[o] = s.applied[o]
  BY ServedOn
<1>7. Grows(s, t)
  BY ServedSpeaks
<1>8. Announces(s, t) /\ Ledger(t)
  BY <1>5 DEF Landed
<1> HIDE DEF t
<1>9. Fine(D, d) /\ c \in Int /\ c <= s.seq /\ s.seq \in Int
  BY DEF DeviceOK, ServerOK, ServerState
<1>10. ASSUME NEW i \in Id, NEW o \in SentIds(D, i)
       PROVE  t.applied[o] = s.applied[o] \/ Caught(s, t, i, t.applied[o])
  <2>1. PICK m \in DOMAIN D.out : D.out[m].id = i /\ D.out[m].opId = o
    BY DEF SentIds, Queue, OpsOf
  <2>2. o \in OpId
    BY <2>1, DeviceParts
  <2>3. ASSUME t.applied[o] # s.applied[o]  PROVE Caught(s, t, i, t.applied[o])
    <3>1. PICK j \in 1..n : batch[j].opId = o /\ Caught(s, t, batch[j].id, t.applied[o])
      BY <1>5, <2>2, <2>3 DEF Landed
    <3>2. SentAsIs(D, batch[j])
      BY <1>1, <1>2
    <3>3. batch[j].id = i
      BY <2>1, <3>1, <3>2 DEF SentAsIs
    <3> QED  BY <3>1, <3>3
  <2> QED  BY <2>3
<1>11. KeepsUp(D, t, c)
  BY <1>6, <1>7, <1>8, <1>9, <1>10, KeepsUpOn
<1>12. Awaits(D, N, t, c)
  <2>1. \A o \in OpId : s.applied[o] # NotApplied => t.applied[o] = s.applied[o]
    BY <1>5 DEF Landed
  <2> QED  BY <1>6, <1>8, <2>1, AwaitsOn
<1>13. ASSUME batch = N.batch, NEW k \in 1..n
       PROVE  Timely(D, r.answers[k], batch[k], t, c)
  <2> DEFINE w == batch[k]
             a == r.answers[k]
  <2>1. Replies(s, t, a, w) /\ w.id \in Id
    BY <1>1, <1>2, <1>5 DEF Valid
  <2>2. HasRow(D, w.id) /\ D.conf[w.id].kind # "version"
    BY <1>1, <1>13 DEF Awaits, Apart
  <2> HIDE DEF w, a
  <2>3. ASSUME a.status = "conflict"
        PROVE  D.row[w.id].sv <= a.state.ver /\ Fresh(t, c, w.id, a.state.ver)
    <3>1. Caught(s, t, w.id, a.state.ver)
      BY <2>1, <2>3 DEF Replies
    <3>2. D.row[w.id].sv <= s.rec[w.id].ver
      BY <2>1, <2>2 DEF KeepsUp, AbreastAt, Abreast, HasRow
    <3>3. D.row[w.id].sv \in Nat /\ s.rec[w.id].ver \in Nat
      BY <1>9, <2>1, RowOf DEF ServerOK, ServerState, Row
    <3>4. D.row[w.id].sv <= a.state.ver
      BY <3>1, <3>2, <3>3 DEF Caught
    <3> QED  BY <1>6, <1>8, <1>9, <2>1, <3>1, <3>4, CaughtFresh
  <2>4. Timely(D, a, w, t, c)
    BY <2>1, <2>3 DEF Timely, Replies
  <2> QED  BY <2>4 DEF w, a
<1> QED  BY <1>1, <1>6, <1>7, <1>8, <1>11, <1>12, <1>13 DEF t

\* The device sends the batch it has selected, or goes on to pull.
LEMMA SendingKeepsUp ==
  ASSUME NEW d \in Device, NEW D, NEW N, NEW L, NEW c, NEW s, NEW b,
         DeviceOK(d, D, N, L, c, s, b), KeepsUp(D, s, c), NEW due,
         NEW E, NEW batch, E = Selected(D, due).dev, batch = Selected(D, due).batch,
         NEW R \in {Pulling, Pushing(batch)}
  PROVE  KeepsUp(E, s, c) /\ Awaits(E, R, s, c)
<1>1. Fine(D, d) /\ \A k \in DOMAIN D.out : ~ D.out[k].sent => s.applied[D.out[k].opId] = NotApplied
  BY DEF DeviceOK, SeenByServer
<1>2. Selects(D, E, batch, d)
  <2>1. Selects(D, Selected(D, due).dev, Selected(D, due).batch, d)
    BY <1>1, SelectedFine
  <2> QED  BY <2>1
<1>3. KeepsUp(E, s, c)
  BY <1>1, <1>2, SelectedKeepsUp
<1>4. Apart(E, batch)
  <2>1. /\ \A j, k \in DOMAIN batch : batch[j].id = batch[k].id => j = k
        /\ \A k \in DOMAIN batch : D.conf[batch[k].id].kind # "version"
    BY <1>1, SelectedApart
  <2>2. E.conf = D.conf /\ Fine(E, d) /\ E \in DeviceState(d)
    BY <1>2 DEF Selects, Fine
  <2>3. ASSUME NEW n \in DOMAIN batch  PROVE HasRow(E, batch[n].id)
    <3>1. PICK k \in DOMAIN E.out : E.out[k].id = batch[n].id
      BY <1>2 DEF Selects
    <3>2. E.out[k].id \in Id
      BY <2>2, OutFacts DEF PendingOp
    <3>3. OpsOf(E, batch[n].id) # {}
      BY <3>1 DEF OpsOf
    <3> QED  BY <2>2, <3>1, <3>2, <3>3, RowOf
  <2> QED  BY <2>1, <2>2, <2>3 DEF Apart
<1>5. (R.batch = batch \/ R.batch = <<>>) /\ R.phase \in {"push", "pull"}
  BY DEF Pulling, Pushing, Idle
<1> QED  BY <1>3, <1>4, <1>5 DEF Awaits, Apart

\* The engine stops awaiting, or awaits a page.
LEMMA OverAwaits ==
  ASSUME NEW D, NEW R \in {Idle, Pulling}, NEW s, NEW c
  PROVE  Awaits(D, R, s, c)
<1>1. R.batch = <<>> /\ R.phase \in {"idle", "pull"}
  BY DEF Idle, Pulling
<1> QED  BY <1>1 DEF Awaits, Apart

\* The device takes the results in.
LEMMA ResultsKeepUp ==
  ASSUME NEW d \in Device, NEW D, NEW N, NEW L, NEW c, NEW s, NEW b,
         DeviceOK(d, D, N, L, c, s, b), Traces(D, N, L, s), N.phase = "pushed",
         NEW plain, Speaks(D, N, L, s, plain), KeepsUp(D, s, c), Awaits(D, N, s, c),
         NEW E, E = PushTakenIn(D, N.batch, N.answers)
  PROVE  KeepsUp(E, s, c)
<1> DEFINE batch == N.batch
           answers == N.answers
           n == Len(batch)
<1>1. /\ n \in Nat /\ DOMAIN batch = 1..n
      /\ Trusted(D, batch, answers, n, OnServer(s))
  BY AnswersTrusted
<1>2. Truthful(D, batch, answers, n, s)
  BY AnswersTruthful
<1>3. \A k \in 1..n : SentAsIs(D, batch[k]) /\ Timely(D, answers[k], batch[k], s, c)
  BY <1>1 DEF DeviceOK, Wires, Range, Awaits
<1>4. Apart(D, batch) /\ Fine(D, d)
  BY DEF Awaits, DeviceOK
<1>5. E = PushTakenIn(D, batch, answers)
  OBVIOUS
<1> HIDE DEF batch, answers, n
<1>6. Current(D, batch, answers, n, s, c)
  BY <1>3 DEF Current, SentAsIs
<1>7. KeepsUp(PushTakenIn(D, batch, answers), s, c)
  BY <1>1, <1>2, <1>4, <1>6, PushTakenKeepsUp
<1> QED  BY <1>5, <1>7

\* The device takes the page in, and its cursor moves on.
LEMMA PageTakenKeepsUp ==
  ASSUME NEW d \in Device, NEW D, NEW N, NEW L, NEW c, NEW s, NEW b,
         DeviceOK(d, D, N, L, c, s, b), ServerOK(s), Ledger(s), N.phase = "pulled",
         NEW plain, Speaks(D, N, L, s, plain), KeepsUp(D, s, c), Awaits(D, N, s, c),
         NEW E, E = PageTakenIn(D, N.page),
         NEW a, a = IF N.page = <<>> THEN c ELSE Last(N.page).seq
  PROVE  KeepsUp(E, s, a)
<1> DEFINE page == N.page
           n == Len(page)
<1>1. /\ page \in Seq(PulledChange) /\ n \in Nat /\ DOMAIN page = 1..n
  BY DEF DeviceOK, Request
<1>2. \A k \in 1..n : /\ page[k] \in PulledChange /\ page[k].data \in Data(page[k].id)
                      /\ ChangeSays(s, page[k])
  BY <1>1 DEF DeviceOK, Pullable, Speaks
<1>3. Orderly(page, s, c) /\ Fine(D, d) /\ c \in Nat
  BY DEF Awaits, DeviceOK, ServerOK, ServerState
<1>4. a = CursorAt(page, c, n)
  <2>1. n = 0 <=> page = <<>>
    BY <1>1
  <2> QED  BY <2>1 DEF CursorAt, Last
<1>5. E = PageTakenIn(D, page)
  OBVIOUS
<1> HIDE DEF n, page
<1>6. KeepsUp(PageTakenIn(D, page), s, CursorAt(page, c, n))
  BY <1>1, <1>2, <1>3, PageKeepsUp
<1> QED  BY <1>4, <1>5, <1>6

-----------------------------------------------------------------------------
(* Devices that have pulled everything.                                    *)

\* Every device is as far as its cursor says, and so will be with what it awaits.
UpToDate ==
  /\ Ledger(srv)
  /\ \A d \in Device : /\ KeepsUp(dev[d], srv, cursor[d])
                       /\ Awaits(dev[d], net[d], srv, cursor[d])

\* Empty databases.
LEMMA InitUpToDate ==
  ASSUME Init
  PROVE  UpToDate
<1>1. srv.rec = [i \in Id |-> Absent] /\ srv.log = {}
  BY DEF Init, EmptyServer
<1>2. Ledger(srv) /\ \A i \in Id : ~ Live(srv, i)
  BY <1>1 DEF Ledger, Live, Found, Absent
<1>3. ASSUME NEW d \in Device
      PROVE  KeepsUp(dev[d], srv, cursor[d]) /\ Awaits(dev[d], net[d], srv, cursor[d])
  <2> DEFINE D == EmptyDevice(d)
  <2>1. dev[d] = D /\ net[d] = Idle
    BY DEF Init
  <2>2. D.row = [i \in Id |-> NoRow] /\ D.out = <<>> /\ D.conf = [i \in Id |-> NoConflict]
    BY DEF EmptyDevice
  <2> HIDE DEF D
  <2>3. \A i \in Id : /\ SentIds(D, i) = {} /\ D.row[i].data = NoData
                      /\ D.conf[i].kind = "none"
    BY <2>2, NoRowFacts DEF SentIds, Queue, OpsOf, NoConflict
  <2>4. KeepsUp(D, srv, cursor[d])
    BY <1>2, <2>3 DEF KeepsUp, AbreastAt, Abreast
  <2>5. Awaits(D, Idle, srv, cursor[d])
    BY OverAwaits
  <2> QED  BY <2>1, <2>4, <2>5
<1> QED  BY <1>2, <1>3 DEF UpToDate

\* A step of a device that leaves the server alone.
LEMMA DeviceUpToDate ==
  ASSUME UpToDate, NEW d \in Device, Only(d), srv' = srv,
         KeepsUp(dev'[d], srv, cursor'[d]), Awaits(dev'[d], net'[d], srv, cursor'[d])
  PROVE  UpToDate'
<1>1. ASSUME NEW e \in Device
      PROVE  KeepsUp(dev'[e], srv, cursor'[e]) /\ Awaits(dev'[e], net'[e], srv, cursor'[e])
  BY DEF Only, UpToDate
<1> QED  BY <1>1 DEF UpToDate

\* The server runs a batch of the device d.
LEMMA ServerUpToDate ==
  ASSUME InOrder, UpToDate, NEW d \in Device, Only(d), dev'[d] = dev[d],
         cursor'[d] = cursor[d],
         NEW t, srv' = t, ServerOK(t), Announces(srv, t), Ledger(t), Grows(srv, t),
         \A o \in OpId : o[1] # d => t.applied[o] = srv.applied[o],
         KeepsUp(dev[d], t, cursor[d]), Awaits(dev[d], net'[d], t, cursor[d])
  PROVE  UpToDate'
<1>1. ASSUME NEW e \in Device
      PROVE  KeepsUp(dev'[e], t, cursor'[e]) /\ Awaits(dev'[e], net'[e], t, cursor'[e])
  <2>1. CASE e = d
    BY <2>1
  <2>2. CASE e # d
    <3>1. /\ DeviceOK(e, dev[e], net[e], late[e], cursor[e], srv, born) /\ ServerOK(srv)
          /\ KeepsUp(dev[e], srv, cursor[e]) /\ Awaits(dev[e], net[e], srv, cursor[e])
      BY DEF InOrder, UpToDate
    <3>2. \A o \in OpId : o[1] = e => t.applied[o] = srv.applied[o]
      BY <2>2
    <3>3. KeepsUp(dev[e], t, cursor[e]) /\ Awaits(dev[e], net[e], t, cursor[e])
      BY <3>1, <3>2, OthersKeepUp
    <3> QED  BY <2>2, <3>3 DEF Only
  <2> QED  BY <2>1, <2>2
<1> QED  BY <1>1 DEF UpToDate

\* The steps of users.
LEMMA UserUpToDate ==
  ASSUME InOrder, Originated, WipesUnborn, NEW plain, Spoken(plain), UpToDate,
         NEW d \in Device, User(d) \/ Settle(d)
  PROVE  UpToDate'
<1>1. PICK E, M : Transacts(d, E, M)
  BY UserTransacts
<1>2. /\ dev' = [dev EXCEPT ![d] = E] /\ srv' = srv
      /\ cursor' = cursor /\ net' = net /\ late' = late
  BY <1>1 DEF Transacts, Locally
<1>3. net'[d] = net[d] /\ cursor'[d] = cursor[d] /\ Only(d)
  BY <1>2 DEF InOrder, Only
<1>4. /\ Candid(dev[d], srv, plain) /\ KeepsUp(dev[d], srv, cursor[d])
      /\ Awaits(dev[d], net[d], srv, cursor[d])
  BY DEF Spoken, Speaks, UpToDate
<1>5. KeepsUp(dev'[d], srv, cursor[d])
  BY <1>4, UserKeepsUp
<1>6. Awaits(dev'[d], net[d], srv, cursor[d])
  BY <1>4, UserAwaits
<1> QED  BY <1>2, <1>3, <1>5, <1>6, DeviceUpToDate

\* The engine goes round its push loop, from a database D in order.
LEMMA ProceedsUpToDate ==
  ASSUME InOrder, UpToDate, NEW d \in Device, NEW D, NEW due,
         DeviceOK(d, D, net[d], late[d], cursor[d], srv, born),
         KeepsUp(D, srv, cursor[d]),
         Proceeds(d, D, due), UNCHANGED <<srv, cursor, late, born>>
  PROVE  UpToDate'
<1> DEFINE E == Selected(D, due).dev
           batch == Selected(D, due).batch
           R == net'[d]
<1>1. /\ dev' = [dev EXCEPT ![d] = E]
      /\ net' = [net EXCEPT ![d] = IF batch = <<>> THEN Pulling ELSE Pushing(batch)]
  BY DEF Proceeds
<1>2. E = Selected(D, due).dev /\ batch = Selected(D, due).batch
  OBVIOUS
<1> HIDE DEF E, batch
<1>3. dev'[d] = E /\ R \in {Pulling, Pushing(batch)} /\ Only(d) /\ cursor' = cursor
  BY <1>1 DEF InOrder, Only
<1> HIDE DEF R
<1>4. KeepsUp(E, srv, cursor[d]) /\ Awaits(E, R, srv, cursor[d])
  BY <1>2, <1>3, SendingKeepsUp
<1>5. KeepsUp(dev'[d], srv, cursor'[d]) /\ Awaits(dev'[d], net'[d], srv, cursor'[d])
  BY <1>3, <1>4 DEF R
<1> QED  BY <1>3, <1>5, DeviceUpToDate

\* Requests arrive at the server.
LEMMA ArrivalUpToDate ==
  ASSUME InOrder, Originated, NEW plain, Spoken(plain), UpToDate, NEW d \in Device,
         PushArrives(d) \/ LatePushArrives(d) \/ PullArrives(d)
  PROVE  UpToDate'
<1> DEFINE D == dev[d]
           N == net[d]
           L == late[d]
           c == cursor[d]
<1>0. /\ DeviceOK(d, D, N, L, c, srv, born) /\ ServerOK(srv) /\ KnownTo(srv) \subseteq born
      /\ N \in Request(d) /\ Traces(D, N, L, srv) /\ Grounded(srv) /\ Honest(srv)
      /\ OneOrigin(Origins, srv) /\ Speaks(D, N, L, srv, plain)
      /\ \A i \in Id : Creating(D, N, L, i) \subseteq Origins[i]
      /\ Ledger(srv) /\ KeepsUp(D, srv, c) /\ Awaits(D, N, srv, c)
  BY DEF InOrder, DeviceOK, Originated, Origins, Spoken, UpToDate
<1>1. ASSUME NEW batch \in {N.batch, L}, NEW order \in Orders,
             NEW r, r = Applied(srv, batch, order)
      PROVE  /\ ServerOK(r.srv) /\ Announces(srv, r.srv) /\ Ledger(r.srv) /\ Grows(srv, r.srv)
             /\ \A o \in OpId : o[1] # d => r.srv.applied[o] = srv.applied[o]
             /\ KeepsUp(D, r.srv, c) /\ Awaits(D, N, r.srv, c)
             /\ batch = N.batch =>
                  \A k \in DOMAIN batch : Timely(D, r.answers[k], batch[k], r.srv, c)
  <2> HIDE DEF D, N, L, c
  <2> QED  BY <1>0, <1>1, ServedKeepsUp
<1>2. CASE PushArrives(d)
  <2>1. PICK order \in Orders :
          LET r == Applied(srv, N.batch, order)
          IN  /\ srv' = r.srv
              /\ net' = [net EXCEPT ![d].phase = "pushed", ![d].answers = r.answers]
    BY <1>2 DEF PushArrives
  <2> DEFINE r == Applied(srv, N.batch, order)
             R == [N EXCEPT !.phase = "pushed", !.answers = r.answers]
  <2>2. /\ srv' = r.srv
        /\ net' = [net EXCEPT ![d].phase = "pushed", ![d].answers = r.answers]
        /\ dev' = dev /\ cursor' = cursor /\ late' = late /\ born' = born
    BY <1>2, <2>1 DEF PushArrives
  <2>3. net'[d] = R /\ dev'[d] = dev[d] /\ cursor'[d] = cursor[d] /\ Only(d)
    BY <2>2 DEF InOrder, Only
  <2>4. R.batch = N.batch /\ R.phase = "pushed" /\ R.answers = r.answers
    BY <1>0 DEF Request
  <2>5. r = Applied(srv, N.batch, order) /\ N.batch \in {N.batch, L}
    OBVIOUS
  <2> HIDE DEF R, r
  <2>6. /\ ServerOK(r.srv) /\ Announces(srv, r.srv) /\ Ledger(r.srv) /\ Grows(srv, r.srv)
        /\ \A o \in OpId : o[1] # d => r.srv.applied[o] = srv.applied[o]
        /\ KeepsUp(D, r.srv, c) /\ Awaits(D, N, r.srv, c)
        /\ \A k \in DOMAIN N.batch : Timely(D, r.answers[k], N.batch[k], r.srv, c)
    <3> HIDE DEF D, N, L, c
    <3> QED  BY <1>1, <2>5
  <2>7. Awaits(D, R, r.srv, c)
    <3> HIDE DEF D, N, L, c
    <3> QED  BY <2>4, <2>6 DEF Awaits
  <2>8. KeepsUp(dev[d], r.srv, cursor[d]) /\ Awaits(dev[d], net'[d], r.srv, cursor[d])
    BY <2>3, <2>6, <2>7
  <2> QED  BY <2>2, <2>3, <2>6, <2>8, ServerUpToDate
<1>3. CASE LatePushArrives(d)
  <2>1. PICK order \in Orders : srv' = Applied(srv, L, order).srv
    BY <1>3 DEF LatePushArrives
  <2> DEFINE r == Applied(srv, L, order)
  <2>2. srv' = r.srv /\ late' = [late EXCEPT ![d] = <<>>]
        /\ dev' = dev /\ cursor' = cursor /\ net' = net /\ born' = born
    BY <1>3, <2>1 DEF LatePushArrives
  <2>3. net'[d] = N /\ dev'[d] = dev[d] /\ cursor'[d] = cursor[d] /\ Only(d)
    BY <2>2 DEF InOrder, Only
  <2>4. r = Applied(srv, L, order) /\ L \in {N.batch, L}
    OBVIOUS
  <2> HIDE DEF r
  <2>5. /\ ServerOK(r.srv) /\ Announces(srv, r.srv) /\ Ledger(r.srv) /\ Grows(srv, r.srv)
        /\ \A o \in OpId : o[1] # d => r.srv.applied[o] = srv.applied[o]
        /\ KeepsUp(D, r.srv, c) /\ Awaits(D, N, r.srv, c)
    <3> HIDE DEF D, N, L, c
    <3> QED  BY <1>1, <2>4
  <2>6. KeepsUp(dev[d], r.srv, cursor[d]) /\ Awaits(dev[d], net'[d], r.srv, cursor[d])
    BY <2>3, <2>5
  <2> QED  BY <2>2, <2>3, <2>5, <2>6, ServerUpToDate
<1>4. CASE PullArrives(d)
  <2> DEFINE page == Page(srv, c)
             R == [N EXCEPT !.phase = "pulled", !.page = page, !.more = (Len(page) = PageSize)]
  <2>1. /\ net' = [net EXCEPT ![d].phase = "pulled", ![d].page = page,
                              ![d].more = (Len(page) = PageSize)]
        /\ srv' = srv /\ dev' = dev /\ cursor' = cursor /\ late' = late /\ born' = born
    BY <1>4 DEF PullArrives, Page
  <2>2. net'[d] = R /\ dev'[d] = D /\ cursor'[d] = c /\ Only(d)
    BY <2>1 DEF InOrder, Only
  <2>3. R.batch = N.batch /\ R.page = page /\ R.phase = "pulled"
    BY <1>0 DEF Request
  <2>4. c \in Nat
    BY <1>0 DEF DeviceOK, ServerOK, ServerState
  <2>5. Orderly(page, srv, c)
    <3> HIDE DEF c
    <3> QED  BY <1>0, <2>4, PageOrderly
  <2> HIDE DEF page, R
  <2>6. Awaits(D, R, srv, c)
    <3> HIDE DEF D, N, L, c
    <3> QED  BY <1>0, <2>3, <2>5 DEF Awaits
  <2>7. KeepsUp(dev'[d], srv, cursor'[d]) /\ Awaits(dev'[d], net'[d], srv, cursor'[d])
    BY <1>0, <2>2, <2>6
  <2> QED  BY <2>1, <2>2, <2>7, DeviceUpToDate
<1> QED  BY <1>2, <1>3, <1>4

\* The engine takes the answer in, or the request fails.
LEMMA EngineStepUpToDate ==
  ASSUME InOrder, Originated, NEW plain, Spoken(plain), UpToDate, NEW d \in Device,
         \/ \E due \in SUBSET Retries(d) : Run(d, due)
         \/ PushReturns(d) \/ PullReturns(d)
         \/ PushFails(d) \/ PushUnauthorized(d) \/ PullFails(d)
  PROVE  UpToDate'
<1> DEFINE D == dev[d]
           N == net[d]
           L == late[d]
           c == cursor[d]
<1>0. /\ DeviceOK(d, D, N, L, c, srv, born) /\ Fine(D, d) /\ D.made <= MaxOps
      /\ N \in Request(d) /\ Traces(D, N, L, srv) /\ Speaks(D, N, L, srv, plain)
      /\ ServerOK(srv) /\ Ledger(srv) /\ KeepsUp(D, srv, c) /\ Awaits(D, N, srv, c)
  BY DEF InOrder, DeviceOK, Originated, Spoken, UpToDate
<1>1. CASE \E due \in SUBSET Retries(d) : Run(d, due)
  <2>1. PICK due \in SUBSET Retries(d) : Proceeds(d, D, due)
    BY <1>1 DEF Run
  <2>2. UNCHANGED <<srv, cursor, late, born>>
    BY <1>1 DEF Run
  <2> QED  BY <1>0, <2>1, <2>2, ProceedsUpToDate
<1>2. CASE PushReturns(d)
  <2> DEFINE E == PushTakenIn(D, N.batch, N.answers)
  <2>1. /\ N.phase = "pushed" /\ UNCHANGED <<srv, cursor, late, born>>
        /\ \/ \E due \in SUBSET Retries(d) : Proceeds(d, E, due)
           \/ dev' = [dev EXCEPT ![d] = E] /\ net' = [net EXCEPT ![d] = Pulling]
    BY <1>2 DEF PushReturns
  <2>2. DeviceOK(d, E, N, L, c, srv, born) /\ KeepsUp(E, srv, c)
    <3>0. E = PushTakenIn(D, N.batch, N.answers)
      OBVIOUS
    <3> HIDE DEF D, N, L, c
    <3>1. Leads(D, E, d, {}) /\ E.made = D.made
      BY <1>0, <2>1, ResultsTakenIn
    <3> HIDE DEF E
    <3>2. DeviceOK(d, E, N, L, c, srv, born)
      BY <1>0, <3>1, DeviceLed
    <3> QED  BY <1>0, <2>1, <3>0, <3>2, ResultsKeepUp
  <2> HIDE DEF E
  <2>3. CASE \E due \in SUBSET Retries(d) : Proceeds(d, E, due)
    BY <2>1, <2>2, <2>3, ProceedsUpToDate
  <2>4. CASE dev' = [dev EXCEPT ![d] = E] /\ net' = [net EXCEPT ![d] = Pulling]
    <3>1. dev'[d] = E /\ net'[d] = Pulling /\ cursor'[d] = c /\ Only(d)
      BY <2>1, <2>4 DEF InOrder, Only
    <3>2. Awaits(E, Pulling, srv, c)
      BY OverAwaits
    <3>3. KeepsUp(dev'[d], srv, cursor'[d]) /\ Awaits(dev'[d], net'[d], srv, cursor'[d])
      BY <2>2, <3>1, <3>2
    <3> QED  BY <2>1, <3>1, <3>3, DeviceUpToDate
  <2> QED  BY <2>1, <2>3, <2>4
<1>3. CASE PullReturns(d)
  <2> DEFINE E == PageTakenIn(D, N.page)
             R == IF N.more THEN Pulling ELSE Idle
             a == IF N.page = <<>> THEN c ELSE Last(N.page).seq
  <2>1. /\ dev' = [dev EXCEPT ![d] = E] /\ N.phase = "pulled"
        /\ cursor' = [cursor EXCEPT ![d] = a] /\ net' = [net EXCEPT ![d] = R]
        /\ UNCHANGED <<srv, late, born>>
    BY <1>3 DEF PullReturns
  <2>0. /\ E = PageTakenIn(D, N.page) /\ R \in {Idle, Pulling}
        /\ a = IF N.page = <<>> THEN c ELSE Last(N.page).seq
    OBVIOUS
  <2> HIDE DEF a, R, E
  <2>2. dev'[d] = E /\ net'[d] = R /\ cursor'[d] = a /\ Only(d)
    <3>1. InOrder'
      BY <1>3, EngineStep
    <3> QED  BY <2>1, <3>1 DEF InOrder, Only
  <2>3. KeepsUp(E, srv, a)
    <3> HIDE DEF D, N, L, c
    <3> QED  BY <1>0, <2>0, <2>1, PageTakenKeepsUp
  <2>4. Awaits(E, R, srv, a)
    BY <2>0, OverAwaits
  <2>5. KeepsUp(dev'[d], srv, cursor'[d]) /\ Awaits(dev'[d], net'[d], srv, cursor'[d])
    BY <2>2, <2>3, <2>4
  <2> QED  BY <2>1, <2>2, <2>5, DeviceUpToDate
<1>4. CASE PushFails(d) \/ PullFails(d)
  <2>1. net' = [net EXCEPT ![d] = Idle] /\ UNCHANGED <<srv, dev, cursor, born>>
        /\ (late' = late \/ late' = [late EXCEPT ![d] = N.batch])
    BY <1>4 DEF PushFails, PullFails
  <2>2. net'[d] = Idle /\ dev'[d] = D /\ cursor'[d] = c /\ Only(d)
    BY <2>1 DEF InOrder, Only
  <2>3. Awaits(D, Idle, srv, c)
    BY OverAwaits
  <2>4. KeepsUp(dev'[d], srv, cursor'[d]) /\ Awaits(dev'[d], net'[d], srv, cursor'[d])
    BY <1>0, <2>2, <2>3
  <2> QED  BY <2>1, <2>2, <2>4, DeviceUpToDate
<1>5. CASE PushUnauthorized(d)
  <2> DEFINE E == AttemptsReverted(D, N.batch)
  <2>1. /\ dev' = [dev EXCEPT ![d] = E] /\ net' = [net EXCEPT ![d] = Idle]
        /\ UNCHANGED <<srv, late, cursor, born>>
    BY <1>5 DEF PushUnauthorized
  <2>2. E.row = D.row /\ E.conf = D.conf /\ Follows(D, E)
    <3>1. \A b \in Range(N.batch) : b \in WireOp(d)
      BY <1>0 DEF Request, Range
    <3> HIDE DEF D, N
    <3> QED  BY <1>0, <3>1, RevertedFine DEF Leads
  <2> HIDE DEF E
  <2>3. dev'[d] = E /\ net'[d] = Idle /\ cursor'[d] = c /\ Only(d)
    BY <2>1 DEF InOrder, Only
  <2>4. KeepsUp(E, srv, c)
    <3> HIDE DEF D, N, L, c
    <3> QED  BY <1>0, <2>2, AllSameKeepsUp
  <2>5. Awaits(E, Idle, srv, c)
    BY OverAwaits
  <2>6. KeepsUp(dev'[d], srv, cursor'[d]) /\ Awaits(dev'[d], net'[d], srv, cursor'[d])
    BY <2>3, <2>4, <2>5
  <2> QED  BY <2>1, <2>3, <2>6, DeviceUpToDate
<1> QED  BY <1>1, <1>2, <1>3, <1>4, <1>5

\* Every step.
LEMMA NextUpToDate ==
  ASSUME InOrder, Originated, NEW plain, Spoken(plain), UpToDate, [WipesUnborn]_vars,
         [Next]_vars
  PROVE  UpToDate'
<1>1. CASE UNCHANGED vars
  BY <1>1 DEF vars, UpToDate
<1>2. ASSUME WipesUnborn, NEW d \in Device,
             \/ User(d) \/ Settle(d)
             \/ \E due \in SUBSET Retries(d) : Run(d, due)
             \/ PushArrives(d) \/ LatePushArrives(d) \/ PushReturns(d)
             \/ PushFails(d) \/ PushUnauthorized(d)
             \/ PullArrives(d) \/ PullReturns(d) \/ PullFails(d)
      PROVE  UpToDate'
  BY <1>2, UserUpToDate, ArrivalUpToDate, EngineStepUpToDate
<1> QED  BY <1>1, <1>2 DEF Next

\* What follows for a device that has pulled everything.
LEMMA UpToDateAgrees ==
  ASSUME InOrder, Originated, Spoken(TRUE), UpToDate
  PROVE  CaughtUpAgrees
<1> SUFFICES ASSUME NEW d \in Device, NEW i \in Id, CaughtUp(d), Clean(dev[d], i),
                    dev[d].conf[i].kind # "version"
             PROVE  Agrees(d, i)
  BY DEF CaughtUpAgrees
<1> DEFINE D == dev[d]
<1>1. /\ DeviceOK(d, D, net[d], late[d], cursor[d], srv, born) /\ ServerOK(srv)
      /\ Fine(D, d) /\ Rooted(D, OnServer(srv)) /\ AbreastAt(D, srv, cursor[d], i)
  BY DEF InOrder, DeviceOK, Originated, Traces, UpToDate, KeepsUp
<1>2. ~ Behind(srv, cursor[d], i)
  <2>1. \A e \in srv.log : e.seq \in Nat /\ e.seq <= cursor[d]
    BY <1>1 DEF CaughtUp, ServerOK, ServerState, Entry
  <2>2. cursor[d] \in Int
    BY DEF InOrder
  <2> QED  BY <2>1, <2>2 DEF Behind
<1>3. CASE ~ HasRow(D, i)
  <2>1. ~ Live(srv, i)
    BY <1>1, <1>2, <1>3 DEF AbreastAt, Abreast, HasRow
  <2> QED  BY <1>3, <2>1 DEF Agrees, LiveRow
<1>4. CASE HasRow(D, i)
  <2>1. D.row[i].sv <= srv.rec[i].ver /\ D.row[i].sv >= srv.rec[i].ver
    BY <1>1, <1>2, <1>4 DEF AbreastAt, Abreast, HasRow, Known, Fresh
  <2>2. /\ D.row[i].sv \in Nat /\ srv.rec[i].ver \in Nat /\ srv.rec[i].deleted \in BOOLEAN
        /\ D.row[i].deleted \in BOOLEAN
    BY <1>1, RowOf DEF ServerOK, ServerState, Row
  <2>3. D.row[i].ver = srv.rec[i].ver
    BY <2>1, <2>2 DEF Clean
  <2>4. /\ D.row[i].deleted = srv.rec[i].deleted
        /\ LiveRow(D, i) => D.row[i].data = srv.rec[i].data
    BY <1>4, <2>3, SpokenAgrees
  <2>5. LiveRow(D, i) => Found(srv, i)
    <3>1. ASSUME LiveRow(D, i), D.row[i].sv = 0  PROVE FALSE
      <4>1. OpsOf(D, i) # {}
        BY <1>1, <3>1, UnconfirmedWaits
      <4>2. Pending(d, i)
        BY <4>1 DEF Pending
      <4> QED  BY <4>2, InOrderTyped DEF DirtyIffPending
    <3> QED  BY <2>1, <2>2, <3>1 DEF Found
  <2> QED  BY <1>4, <2>2, <2>4, <2>5 DEF Agrees, LiveRow, Live
<1> QED  BY <1>3, <1>4

\* Of users who archive no category, a device that has pulled everything agrees with
\* the server on every record that neither waits to be pushed nor has a conflict
\* open, whatever was lost, repeated or late: as long as no cascade wipes a row
\* that the server may have heard of (WipedRowsUnborn, which a transaction moved
\* to a category of the device's own breaks: its delete never travels).
THEOREM CaughtUpDevicesAgree ==
  ASSUME \A data \in UserData : ~ data.archived
  PROVE  Spec /\ WipedRowsUnborn => []CaughtUpAgrees
<1>1. Plainly(TRUE)
  BY DEF Plainly
<1>2. Init => Spoken(TRUE) /\ UpToDate
  BY <1>1, InitSpoken, InitUpToDate
<1>3. InOrder /\ Originated /\ Spoken(TRUE) /\ [Next]_vars => Spoken(TRUE)'
  BY <1>1, NextSpoken
<1>4. InOrder /\ Originated /\ Spoken(TRUE) /\ UpToDate /\ [WipesUnborn]_vars /\ [Next]_vars
        => UpToDate'
  BY NextUpToDate
<1>5. InOrder /\ Originated /\ Spoken(TRUE) /\ UpToDate => CaughtUpAgrees
  BY UpToDateAgrees
<1>6. WipedRowsUnborn => [][WipesUnborn]_vars
  BY PTL DEF WipedRowsUnborn, WipesUnborn
<1> QED  BY <1>2, <1>3, <1>4, <1>5, <1>6, InOrderAlways, OriginatedAlways, PTL DEF Spec
=============================================================================
