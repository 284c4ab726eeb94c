-------------------------- MODULE SyncEngineProofs --------------------------
(***************************************************************************)
(* What the steps of a device's database keep (SyncClient, SyncEngine),    *)
(* and what one operation, or one request for changes, does on the server  *)
(* (PushEngine), for every device, record and payload.                     *)
(***************************************************************************)
EXTENDS SyncEngine, FiniteSetTheorems, SequenceTheorems, TLAPS

-----------------------------------------------------------------------------
(* Numbers.                                                                *)

\* A non-empty set of naturals has a least element.
LEMMA LeastElement ==
  ASSUME NEW S, S \subseteq Nat, S # {}
  PROVE  \E x \in S : \A y \in S : x <= y
<1> DEFINE R == {p \in Nat \X Nat : p[1] < p[2]}
<1>1. IsWellFoundedOn(R, Nat)
  BY NatLessThanWellFounded DEF OpToRel
<1>2. PICK x \in S : \A y \in S : ~ (<<y, x>> \in R)
  <2> HIDE DEF R
  <2> QED  BY <1>1, WFMin
<1>3. ASSUME NEW y \in S, y < x  PROVE FALSE
  <2>1. <<y, x>> \in R
    BY <1>3
  <2> QED  BY <2>1, <1>2
<1> QED  BY <1>2, <1>3

\* Induction, for a set of naturals.
LEMMA Induction ==
  ASSUME NEW T, T \subseteq Nat, 0 \in T, \A m \in T : m + 1 \in T
  PROVE  T = Nat
<1> SUFFICES ASSUME Nat \ T # {}  PROVE FALSE
  OBVIOUS
<1>1. PICK x \in Nat \ T : \A y \in Nat \ T : x <= y
  BY LeastElement
<1>2. x - 1 \in T
  BY <1>1
<1>3. x - 1 + 1 \in T
  BY <1>2
<1> QED  BY <1>1, <1>3

-----------------------------------------------------------------------------
(* Nth and Kept.                                                           *)

UpTo(K, k) == {j \in K : j <= k}

LEMMA UpToFacts ==
  ASSUME NEW K, \A x \in K : x \in Nat, IsFiniteSet(K)
  PROVE  /\ \A k \in K : /\ Cardinality(UpTo(K, k)) \in 1..Cardinality(K)
                         /\ IsFiniteSet(UpTo(K, k))
         /\ \A j, k \in K : j < k => Cardinality(UpTo(K, j)) < Cardinality(UpTo(K, k))
<1>1. Cardinality(K) \in Nat
  BY FS_CardinalityType
<1>2. ASSUME NEW k \in K
      PROVE  Cardinality(UpTo(K, k)) \in 1..Cardinality(K) /\ IsFiniteSet(UpTo(K, k))
  <2>1. UpTo(K, k) \in SUBSET K /\ k \in UpTo(K, k)
    BY DEF UpTo
  <2>2. IsFiniteSet(UpTo(K, k)) /\ Cardinality(UpTo(K, k)) <= Cardinality(K)
    BY <2>1, FS_Subset
  <2>3. Cardinality(UpTo(K, k)) \in Nat /\ Cardinality(UpTo(K, k)) # 0
    BY <2>1, <2>2, FS_CardinalityType, FS_EmptySet
  <2> QED  BY <1>1, <2>2, <2>3
<1>3. ASSUME NEW j \in K, NEW k \in K, j < k
      PROVE  Cardinality(UpTo(K, j)) < Cardinality(UpTo(K, k))
  <2>1. UpTo(K, j) \in SUBSET UpTo(K, k)
    BY <1>3 DEF UpTo
  <2>2. k \in UpTo(K, k) /\ k \notin UpTo(K, j)
    BY <1>3 DEF UpTo
  <2>3. Cardinality(UpTo(K, j)) <= Cardinality(UpTo(K, k))
        /\ Cardinality(UpTo(K, j)) # Cardinality(UpTo(K, k))
    BY <2>1, <2>2, <1>2, FS_Subset
  <2> QED  BY <2>3, <1>2, <1>1
<1> QED  BY <1>2, <1>3

\* The n-th member of a finite set of numbers is the one with n members up to
\* it: it exists, later ones are greater, and every member is one of them.
LEMMA NthExists ==
  ASSUME NEW K, \A x \in K : x \in Nat, IsFiniteSet(K), NEW n \in 1..Cardinality(K)
  PROVE  \E k \in K : Cardinality(UpTo(K, k)) = n
<1> DEFINE T == {m \in Nat : m < Cardinality(K) =>
                               \E k \in K : Cardinality(UpTo(K, k)) = m + 1}
<1>0. Cardinality(K) \in Nat
  BY FS_CardinalityType
<1>u. \A k \in K : /\ Cardinality(UpTo(K, k)) \in 1..Cardinality(K)
                      /\ IsFiniteSet(UpTo(K, k))
  BY UpToFacts
<1>f. \A j, k \in K : j < k => Cardinality(UpTo(K, j)) < Cardinality(UpTo(K, k))
  BY UpToFacts
<1>1. 0 \in T
  <2> SUFFICES ASSUME 0 < Cardinality(K)
               PROVE  \E k \in K : Cardinality(UpTo(K, k)) = 1
    OBVIOUS
  <2>1. K # {}
    BY FS_EmptySet
  <2>2. PICK k \in K : \A j \in K : k <= j
    <3>1. K \subseteq Nat
      OBVIOUS
    <3> QED  BY <3>1, <2>1, LeastElement
  <2>3. UpTo(K, k) = {k}
    BY <2>2 DEF UpTo
  <2> QED  BY <2>3, FS_Singleton
<1>2. ASSUME NEW m \in T  PROVE m + 1 \in T
  <2> SUFFICES ASSUME m + 1 < Cardinality(K)
               PROVE  \E k \in K : Cardinality(UpTo(K, k)) = m + 2
    OBVIOUS
  <2>1. PICK k \in K : Cardinality(UpTo(K, k)) = m + 1
    BY <1>0, <1>2
  <2>2. K \ UpTo(K, k) # {}
    <3>1. UpTo(K, k) # K
      BY <2>1, <1>0
    <3> QED  BY <3>1 DEF UpTo
  <2>3. PICK l \in K \ UpTo(K, k) : \A j \in K \ UpTo(K, k) : l <= j
    BY <2>2, LeastElement
  <2>4. UpTo(K, l) = UpTo(K, k) \cup {l} /\ l \notin UpTo(K, k)
    BY <2>3 DEF UpTo
  <2>5. Cardinality(UpTo(K, k) \cup {l}) = Cardinality(UpTo(K, k)) + 1
    <3>1. IsFiniteSet(UpTo(K, k))
      BY <1>u
    <3> QED  BY <3>1, <2>4, FS_AddElement
  <2>6. m \in Nat
    OBVIOUS
  <2>7. Cardinality(UpTo(K, l)) = m + 2
    BY <2>1, <2>4, <2>5, <2>6
  <2>8. l \in K
    BY <2>3
  <2> QED  BY <2>7, <2>8
<1>3. T = Nat
  <2>1. T \subseteq Nat
    OBVIOUS
  <2> HIDE DEF T
  <2> QED  BY <1>1, <1>2, <2>1, Induction
<1>4. n - 1 \in T
  BY <1>3, <1>0
<1> QED  BY <1>4, <1>0

LEMMA NthFacts ==
  ASSUME NEW K, \A x \in K : x \in Nat, IsFiniteSet(K)
  PROVE  /\ Cardinality(K) \in Nat
         /\ \A n \in 1..Cardinality(K) : Nth(K, n) \in K
         /\ \A m, n \in 1..Cardinality(K) : m < n => Nth(K, m) < Nth(K, n)
         /\ \A k \in K : \E n \in 1..Cardinality(K) : Nth(K, n) = k
<1>0. Cardinality(K) \in Nat
  BY FS_CardinalityType
<1>u. \A k \in K : /\ Cardinality(UpTo(K, k)) \in 1..Cardinality(K)
                      /\ IsFiniteSet(UpTo(K, k))
  BY UpToFacts
<1>f. \A j, k \in K : j < k => Cardinality(UpTo(K, j)) < Cardinality(UpTo(K, k))
  BY UpToFacts
<1>1. ASSUME NEW n \in 1..Cardinality(K)
      PROVE  Nth(K, n) \in K /\ Cardinality(UpTo(K, Nth(K, n))) = n
  <2>1. \E k \in K : Cardinality(UpTo(K, k)) = n
    BY NthExists
  <2>2. Nth(K, n) = CHOOSE k \in K : Cardinality(UpTo(K, k)) = n
    BY DEF Nth, UpTo
  <2> QED  BY <2>1, <2>2
<1>2. ASSUME NEW m \in 1..Cardinality(K), NEW n \in 1..Cardinality(K), m < n
      PROVE  Nth(K, m) < Nth(K, n)
  <2>1. Nth(K, m) \in Nat /\ Nth(K, n) \in Nat
    BY <1>1
  <2>2. ~ Nth(K, n) < Nth(K, m)
    BY <1>1, <1>2, <1>f, <1>0
  <2>3. Nth(K, m) # Nth(K, n)
    BY <1>1, <1>2, <1>0
  <2> QED  BY <2>1, <2>2, <2>3
<1>3. ASSUME NEW k \in K  PROVE \E n \in 1..Cardinality(K) : Nth(K, n) = k
  <2> DEFINE n == Cardinality(UpTo(K, k))
  <2>1. n \in 1..Cardinality(K)
    BY <1>u
  <2> HIDE DEF n
  <2>2. Nth(K, n) \in K /\ Cardinality(UpTo(K, Nth(K, n))) = Cardinality(UpTo(K, k))
    BY <2>1, <1>1 DEF n
  <2>3. ~ Nth(K, n) < k /\ ~ k < Nth(K, n)
    BY <2>2, <1>u, <1>f, <1>0
  <2>4. Nth(K, n) = k
    BY <2>2, <2>3
  <2> QED  BY <2>1, <2>4
<1> QED  BY <1>0, <1>1, <1>2, <1>3

\* What is kept of a sequence: its elements at the positions K, in order.
LEMMA KeptFacts ==
  ASSUME NEW S, NEW s \in Seq(S), NEW K \in SUBSET (DOMAIN s)
  PROVE  /\ Kept(s, K) \in Seq(S)
         /\ \A n \in DOMAIN Kept(s, K) : Nth(K, n) \in K /\ Kept(s, K)[n] = s[Nth(K, n)]
         /\ \A m, n \in DOMAIN Kept(s, K) : m < n => Nth(K, m) < Nth(K, n)
         /\ \A k \in K : \E n \in DOMAIN Kept(s, K) : Nth(K, n) = k
<1>1. DOMAIN s = 1..Len(s) /\ Len(s) \in Nat /\ s \in [1..Len(s) -> S]
  BY LenProperties
<1>2. (\A x \in K : x \in Nat) /\ IsFiniteSet(K)
  <2>1. IsFiniteSet(1..Len(s))
    BY <1>1, FS_Interval
  <2>2. K \in SUBSET (1..Len(s))
    BY <1>1
  <2>3. IsFiniteSet(K)
    BY <2>1, <2>2, FS_Subset
  <2> QED  BY <2>2, <2>3
<1>3. Cardinality(K) \in Nat /\ \A n \in 1..Cardinality(K) : s[Nth(K, n)] \in S
  BY <1>1, <1>2, NthFacts
<1>4. Kept(s, K) \in [1..Cardinality(K) -> S] /\ DOMAIN Kept(s, K) = 1..Cardinality(K)
  BY <1>3 DEF Kept
<1>5. Kept(s, K) \in Seq(S)
  BY <1>3, <1>4, SeqDef
<1> QED  BY <1>2, <1>4, <1>5, NthFacts DEF Kept

\* Of the positions K, those with an element of P.
Where(s, K, P) == {k \in K : s[k] \in P}

\* As many elements of P are left as there were at the positions K.
LEMMA KeptCount ==
  ASSUME NEW S, NEW s \in Seq(S), NEW K \in SUBSET (DOMAIN s), NEW P
  PROVE  Cardinality(Where(Kept(s, K), DOMAIN Kept(s, K), P)) = Cardinality(Where(s, K, P))
<1> DEFINE A == {n \in DOMAIN Kept(s, K) : Kept(s, K)[n] \in P}
           B == {k \in K : s[k] \in P}
           f == [n \in A |-> Nth(K, n)]
<1>1. IsFiniteSet(A)
  <2>1. Kept(s, K) \in Seq(S)
    BY KeptFacts
  <2>2. Len(Kept(s, K)) \in Nat /\ DOMAIN Kept(s, K) = 1..Len(Kept(s, K))
    BY <2>1, LenProperties
  <2>3. IsFiniteSet(1..Len(Kept(s, K)))
    BY <2>2, FS_Interval
  <2>4. A \in SUBSET (1..Len(Kept(s, K)))
    BY <2>2
  <2> HIDE DEF A
  <2> QED  BY <2>3, <2>4, FS_Subset
<1>2. f \in Bijection(A, B)
  <2>0. A \subseteq Nat
    BY KeptFacts, LenProperties
  <2>1. f \in [A -> B]
    BY KeptFacts
  <2>2. \A a, b \in A : f[a] = f[b] => a = b
    <3> SUFFICES ASSUME NEW a \in A, NEW b \in A, a # b  PROVE f[a] # f[b]
      OBVIOUS
    <3>1. Nth(K, a) \in Nat /\ Nth(K, b) \in Nat
      BY KeptFacts, LenProperties
    <3>2. CASE a < b
      BY <3>1, <3>2, KeptFacts
    <3>3. CASE b < a
      BY <3>1, <3>3, KeptFacts
    <3> QED  BY <3>2, <3>3, <2>0
  <2>3. \A y \in B : \E x \in A : f[x] = y
    <3> SUFFICES ASSUME NEW y \in B  PROVE \E x \in A : f[x] = y
      OBVIOUS
    <3>1. PICK n \in DOMAIN Kept(s, K) : Nth(K, n) = y
      BY KeptFacts
    <3>2. Kept(s, K)[n] = s[y]
      BY <3>1, KeptFacts
    <3> QED  BY <3>1, <3>2
  <2> QED  BY <2>1, <2>2, <2>3 DEF Bijection, Injection, Surjection, IsInjective
<1>3. IsFiniteSet(B) /\ Cardinality(B) = Cardinality(A)
  BY <1>1, <1>2, FS_Bijection DEF ExistsBijection
<1> QED  BY <1>3 DEF Where

-----------------------------------------------------------------------------
(* Folds.  FoldLeft takes the elements of a sequence in order; what it     *)
(* computes is the last of a sequence of intermediate results.             *)

LEMMA MaxFacts ==
  /\ \A n \in Nat : \A t \in SUBSET (1..n) :
       t # {} => /\ Max(t) \in t
                 /\ \A y \in t : y <= Max(t)
  /\ \A k \in Nat \ {0} : Max(1..k) = k
<1>1. ASSUME NEW n \in Nat, NEW t \in SUBSET (1..n), t # {}
      PROVE  \E x \in t : \A y \in t : x >= y
  <2> DEFINE U == {n - x : x \in t}
  <2>0. \A x \in t : x \in Nat /\ x <= n /\ n - x \in Nat
    BY <1>1
  <2>1. U \subseteq Nat /\ U # {}
    BY <2>0, <1>1
  <2>2. PICK u \in U : \A v \in U : u <= v
    <3> HIDE DEF U
    <3> QED  BY <2>1, LeastElement
  <2>3. PICK x \in t : u = n - x
    BY <2>2
  <2>4. \A y \in t : n - x <= n - y
    BY <2>2, <2>3
  <2>5. \A y \in t : x >= y
    BY <2>0, <2>4
  <2> QED  BY <2>5
<1>2. ASSUME NEW n \in Nat, NEW t \in SUBSET (1..n), t # {}
      PROVE  Max(t) \in t /\ \A y \in t : y <= Max(t)
  BY <1>1, <1>2 DEF Max
<1>3. ASSUME NEW k \in Nat \ {0}  PROVE Max(1..k) = k
  <2>0. 1..k \in SUBSET (1..k) /\ k \in Nat /\ k \in 1..k
    OBVIOUS
  <2>1. Max(1..k) \in 1..k /\ \A y \in 1..k : y <= Max(1..k)
    BY ONLY <2>0, <1>2
  <2> QED  BY <2>0, <2>1
<1> QED  BY <1>2, <1>3

Iterates(f, n, base, step) ==
  \A t \in SUBSET (1..n) :
    f[t] = IF t = {} THEN base ELSE step[<<f[t \ {Max(t)}], Max(t)>>]

\* The function MapThenFoldSet recurs on exists, if a step is a function.
LEMMA IterExists ==
  ASSUME NEW n \in Nat, NEW X, NEW base \in X, NEW step \in [X \X (1..n) -> X]
  PROVE  \E f \in [SUBSET (1..n) -> X] : Iterates(f, n, base, step)
<1> DEFINE Ok(m, f) ==
      /\ f \in [SUBSET (1..m) -> X]
      /\ \A t \in SUBSET (1..m) :
           f[t] = IF t = {} THEN base ELSE step[<<f[t \ {Max(t)}], Max(t)>>]
    T == {m \in Nat : m <= n => \E f : Ok(m, f)}
<1>1. 0 \in T
  <2> DEFINE f == [t \in SUBSET (1..0) |-> base]
  <2>1. \A t \in SUBSET (1..0) : t = {}
    OBVIOUS
  <2>2. Ok(0, f)
    BY <2>1
  <2> QED  BY <2>2
<1>2. ASSUME NEW m \in T  PROVE m + 1 \in T
  <2>0. m \in Nat /\ (m <= n => \E f : Ok(m, f))
    <3> HIDE DEF Ok
    <3> QED  OBVIOUS
  <2> SUFFICES ASSUME m + 1 <= n  PROVE \E f : Ok(m + 1, f)
    <3> HIDE DEF Ok
    <3> QED  BY <2>0
  <2>1. PICK f : Ok(m, f)
    <3> HIDE DEF Ok
    <3> QED  BY <2>0
  <2> DEFINE g == [t \in SUBSET (1..(m + 1)) |->
                     IF m + 1 \in t THEN step[<<f[t \ {m + 1}], m + 1>>] ELSE f[t]]
  <2>2. ASSUME NEW t \in SUBSET (1..(m + 1)), m + 1 \notin t
        PROVE  t \in SUBSET (1..m) /\ g[t] = f[t]
    BY <2>0, <2>2
  <2>3. ASSUME NEW t \in SUBSET (1..(m + 1)), m + 1 \in t
        PROVE  /\ Max(t) = m + 1 /\ t # {}
               /\ t \ {m + 1} \in SUBSET (1..m)
               /\ g[t \ {m + 1}] = f[t \ {m + 1}]
               /\ g[t] = step[<<g[t \ {m + 1}], m + 1>>]
    <3>1. m + 1 \in Nat /\ t # {}
      BY <2>0, <2>3
    <3>2. Max(t) \in t /\ m + 1 <= Max(t)
      BY <2>3, <3>1, MaxFacts
    <3>3. Max(t) = m + 1
      <4>1. Max(t) \in 1..(m + 1)
        BY <3>2
      <4> QED  BY <3>2, <4>1, <2>0
    <3>4. t \ {m + 1} \in SUBSET (1..(m + 1)) /\ m + 1 \notin t \ {m + 1}
      OBVIOUS
    <3>5. t \ {m + 1} \in SUBSET (1..m) /\ g[t \ {m + 1}] = f[t \ {m + 1}]
      BY <3>4, <2>2
    <3>6. g[t] = step[<<f[t \ {m + 1}], m + 1>>]
      BY <2>3
    <3> QED  BY <3>1, <3>3, <3>5, <3>6
  <2>4. g \in [SUBSET (1..(m + 1)) -> X]
    <3> SUFFICES ASSUME NEW t \in SUBSET (1..(m + 1))
                 PROVE  (IF m + 1 \in t THEN step[<<f[t \ {m + 1}], m + 1>>]
                                        ELSE f[t]) \in X
      OBVIOUS
    <3>1. CASE m + 1 \in t
      <4>1. f[t \ {m + 1}] \in X
        BY <2>1, <2>3, <3>1
      <4>2. m + 1 \in 1..n
        BY <2>0
      <4> QED  BY <4>1, <4>2, <3>1
    <3>2. CASE m + 1 \notin t
      BY <2>1, <2>2, <3>2
    <3> QED  BY <3>1, <3>2
  <2>5. ASSUME NEW t \in SUBSET (1..(m + 1))
        PROVE  g[t] = IF t = {} THEN base ELSE step[<<g[t \ {Max(t)}], Max(t)>>]
    <3>1. CASE m + 1 \in t
      BY <2>3, <3>1
    <3>2. CASE m + 1 \notin t
      <4>1. t \in SUBSET (1..m) /\ g[t] = f[t]
        BY <2>2, <3>2
      <4>2. t \ {Max(t)} \in SUBSET (1..(m + 1)) /\ m + 1 \notin t \ {Max(t)}
        BY <3>2
      <4>3. g[t \ {Max(t)}] = f[t \ {Max(t)}]
        BY <4>2, <2>2
      <4> QED  BY <4>1, <4>3, <2>1
    <3> QED  BY <3>1, <3>2
  <2>6. Ok(m + 1, g)
    <3> HIDE DEF g
    <3> QED  BY <2>4, <2>5
  <2> QED  BY <2>6
<1>3. T = Nat
  <2>1. T \subseteq Nat
    OBVIOUS
  <2> HIDE DEF T
  <2> QED  BY <1>1, <1>2, <2>1, Induction
<1>4. n \in T
  BY <1>3
<1>5. \E f : Ok(n, f)
  <2> HIDE DEF Ok
  <2> QED  BY <1>4
<1> QED  BY <1>5 DEF Iterates

-----------------------------------------------------------------------------
(* A device's database.                                                    *)

Data(i) == PayloadOf(i) \cup {NoData}

LocalRow == [ver : Nat, sv : Nat, deleted : BOOLEAN, data : Payload \cup {NoData}]

PendingOp(d) ==
  [opId : {d} \X Nat, action : {"upsert", "delete"}, id : Id, base : Nat,
   data : Payload \cup {NoData}, cascade : BOOLEAN, sent : BOOLEAN, tries : Nat]

ConflictRow == [kind : {"none", "version", "deleted"}, state : Row,
                local : Payload \cup {NoData}]

DeviceState(d) ==
  [self : {d}, made : Nat, row : [Id -> LocalRow], out : Seq(PendingOp(d)),
   conf : [Id -> ConflictRow]]

\* A record and its pending operations.  A row that is not there has none;
\* `version' is ahead of `serverVersion' by the number of operations at least;
\* only the first is sent, on the version the row was confirmed at; a delete is
\* of a tombstone, and the last.
Sound(D, i) ==
  LET r == D.row[i]
      ops == OpsOf(D, i)
  IN  /\ r.data \in Data(i)
      /\ HasRow(D, i) \/ (r = NoRow /\ ops = {})
      /\ r.ver >= r.sv + Cardinality(ops)
      /\ \A k \in ops :
           LET o == D.out[k]
           IN  /\ o.action = "upsert" => o.data \in PayloadOf(i)
               /\ o.sent => \A j \in ops : k <= j
               /\ o.sent /\ o.action = "upsert" => o.base = r.sv
               /\ o.action = "delete" => r.deleted /\ \A j \in ops : j <= k

\* A live DIRTY row has an operation.
Waiting(D, i) == LiveRow(D, i) /\ ~ Clean(D, i) => OpsOf(D, i) # {}

\* Operation ids are the device's own and distinct.
Numbered(D) ==
  /\ \A k \in DOMAIN D.out : D.out[k].opId[2] \in 1..D.made
  /\ \A j, k \in DOMAIN D.out : D.out[j].opId = D.out[k].opId => j = k

Told(D, i) == D.conf[i].state.data \in Data(i) /\ D.conf[i].local \in Data(i)

Fine(D, d) ==
  /\ D \in DeviceState(d)
  /\ Numbered(D)
  /\ \A i \in Id : Sound(D, i) /\ Waiting(D, i) /\ Told(D, i)

\* Operations of E are operations of D, but for new ones that are not sent; what
\* was sent stays as it was.
SameOp(o, p) ==
  /\ o.opId = p.opId /\ o.id = p.id /\ o.sent = p.sent
  /\ o.sent => o.action = p.action /\ o.base = p.base /\ o.data = p.data

Follows(D, E) ==
  /\ E.made >= D.made
  /\ \A k \in DOMAIN E.out :
       \/ ~ E.out[k].sent /\ E.out[k].opId[2] > D.made
       \/ \E j \in DOMAIN D.out : SameOp(E.out[k], D.out[j])

LEMMA NoRowFacts ==
  /\ NoRow \in LocalRow /\ NoRow.data = NoData /\ NoRow.ver = 0 /\ NoRow.sv = 0
  /\ ~ NoRow.deleted /\ Absent \in Row
  /\ \A i \in Id : Data(i) \subseteq Payload \cup {NoData}
  /\ \A i \in Id : NoData \in Data(i)
BY DEF NoRow, LocalRow, Absent, Row, Data, PayloadOf

LEMMA OutFacts ==
  ASSUME NEW d, NEW D \in DeviceState(d)
  PROVE  /\ D.out \in Seq(PendingOp(d)) /\ Len(D.out) \in Nat
         /\ DOMAIN D.out = 1..Len(D.out)
         /\ \A k \in DOMAIN D.out : D.out[k] \in PendingOp(d)
         /\ \A i \in Id : /\ OpsOf(D, i) \in SUBSET (DOMAIN D.out)
                           /\ IsFiniteSet(OpsOf(D, i))
                           /\ Cardinality(OpsOf(D, i)) \in Nat
<1>1. D.out \in Seq(PendingOp(d))
  BY DEF DeviceState
<1>2. /\ Len(D.out) \in Nat /\ DOMAIN D.out = 1..Len(D.out)
      /\ \A k \in DOMAIN D.out : D.out[k] \in PendingOp(d)
  BY <1>1, LenProperties
<1>3. ASSUME NEW i \in Id
      PROVE  /\ OpsOf(D, i) \in SUBSET (DOMAIN D.out)
             /\ IsFiniteSet(OpsOf(D, i)) /\ Cardinality(OpsOf(D, i)) \in Nat
  <2>1. OpsOf(D, i) \in SUBSET (1..Len(D.out))
    BY <1>2 DEF OpsOf
  <2>2. IsFiniteSet(1..Len(D.out))
    BY <1>2, FS_Interval
  <2> QED  BY <1>2, <2>1, <2>2, FS_Subset, FS_CardinalityType
<1> QED  BY <1>1, <1>2, <1>3

LEMMA FollowsTrans ==
  ASSUME NEW d, NEW D \in DeviceState(d), NEW E \in DeviceState(d),
         NEW F \in DeviceState(d), Follows(D, E), Follows(E, F)
  PROVE  Follows(D, F)
<1>1. D.made \in Nat /\ E.made \in Nat /\ F.made \in Nat
  BY DEF DeviceState
<1>2. \A k \in DOMAIN F.out : F.out[k].opId[2] \in Nat
  <2>1. \A k \in DOMAIN F.out : F.out[k] \in PendingOp(d)
    BY OutFacts
  <2> QED  BY <2>1 DEF PendingOp
<1>3. ASSUME NEW k \in DOMAIN F.out
      PROVE  \/ ~ F.out[k].sent /\ F.out[k].opId[2] > D.made
             \/ \E j \in DOMAIN D.out : SameOp(F.out[k], D.out[j])
  <2>1. CASE ~ F.out[k].sent /\ F.out[k].opId[2] > E.made
    BY <1>1, <1>2, <2>1 DEF Follows
  <2>2. CASE \E j \in DOMAIN E.out : SameOp(F.out[k], E.out[j])
    BY <2>2 DEF Follows, SameOp
  <2> QED  BY <2>1, <2>2 DEF Follows
<1> QED  BY <1>1, <1>3 DEF Follows

-----------------------------------------------------------------------------
(* The three things done to a database: a row is written, an operation is  *)
(* queued, operations are removed.                                         *)

\* E is D with row i written.
RowWritten(D, E, d, i, r) ==
  /\ E \in DeviceState(d)
  /\ E.row[i] = r
  /\ \A j \in Id : j # i => E.row[j] = D.row[j]
  /\ E.out = D.out /\ E.made = D.made
  /\ E.conf = D.conf
  /\ \A j \in Id : OpsOf(E, j) = OpsOf(D, j)
  /\ Numbered(D) => Numbered(E)
  /\ \A j \in Id : j # i /\ Sound(D, j) => Sound(E, j)
  /\ \A j \in Id : j # i /\ Waiting(D, j) => Waiting(E, j)
  /\ Follows(D, E)

LEMMA WithRowFacts ==
  ASSUME NEW d, NEW D \in DeviceState(d), NEW i \in Id, NEW r \in LocalRow,
         NEW E, E = WithRow(D, i, r)
  PROVE  RowWritten(D, E, d, i, r)
<1>1. /\ E \in DeviceState(d) /\ E.row[i] = r
      /\ \A j \in Id : j # i => E.row[j] = D.row[j]
      /\ E.out = D.out /\ E.made = D.made /\ E.conf = D.conf
  BY DEF WithRow, DeviceState
<1>2. \A j \in Id : OpsOf(E, j) = OpsOf(D, j)
  BY <1>1 DEF OpsOf
<1>3. Numbered(D) => Numbered(E)
  BY <1>1 DEF Numbered
<1>4. \A j \in Id : j # i /\ Sound(D, j) => Sound(E, j)
  BY <1>1, <1>2 DEF Sound, HasRow
<1>5. \A j \in Id : j # i /\ Waiting(D, j) => Waiting(E, j)
  BY <1>1, <1>2 DEF Waiting, LiveRow, HasRow, Clean
<1>6. Follows(D, E)
  <2>1. E.made >= D.made
    BY <1>1 DEF DeviceState
  <2> QED  BY <1>1, <2>1 DEF Follows, SameOp
<1> QED  BY <1>1, <1>2, <1>3, <1>4, <1>5, <1>6 DEF RowWritten

\* E is D with an operation of record i more, at position n.
Queued(D, E, d, i, n, action, data) ==
  /\ E \in DeviceState(d)
  /\ E.row = D.row /\ E.conf = D.conf /\ E.made = D.made + 1
  /\ OpsOf(E, i) = OpsOf(D, i) \cup {n}
  /\ Cardinality(OpsOf(E, i)) = Cardinality(OpsOf(D, i)) + 1
  /\ \A k \in OpsOf(D, i) : k < n /\ E.out[k] = D.out[k]
  /\ ~ E.out[n].sent /\ E.out[n].action = action /\ E.out[n].data = data
  /\ Numbered(D) => Numbered(E)
  /\ \A j \in Id : j # i => OpsOf(E, j) = OpsOf(D, j)
  /\ \A j \in Id : j # i /\ Sound(D, j) => Sound(E, j)
  /\ \A j \in Id : j # i /\ Waiting(D, j) => Waiting(E, j)
  /\ Follows(D, E)

LEMMA EnqueuedFacts ==
  ASSUME NEW d, NEW D \in DeviceState(d), NEW i \in Id,
         NEW action \in {"upsert", "delete"}, NEW data \in Payload \cup {NoData},
         NEW cascade \in BOOLEAN, NEW base \in Nat,
         NEW E, E = Enqueued(D, i, action, data, cascade, base),
         NEW n, n = Len(D.out) + 1
  PROVE  Queued(D, E, d, i, n, action, data)
<1> DEFINE o == [opId |-> <<D.self, D.made + 1>>, action |-> action, id |-> i,
                 base |-> base, data |-> data, cascade |-> cascade,
                 sent |-> FALSE, tries |-> 0]
<1>1. D.out \in Seq(PendingOp(d)) /\ Len(D.out) \in Nat /\ DOMAIN D.out = 1..Len(D.out)
  BY OutFacts
<1>2. D.self = d /\ D.made \in Nat
  BY DEF DeviceState
<1>3. o \in PendingOp(d)
  BY <1>2 DEF PendingOp
<1>4. /\ Append(D.out, o) \in Seq(PendingOp(d))
      /\ DOMAIN Append(D.out, o) = 1..n
      /\ \A k \in 1..Len(D.out) : Append(D.out, o)[k] = D.out[k]
      /\ Append(D.out, o)[n] = o
  BY <1>1, <1>3, AppendProperties
<1>5. /\ E \in DeviceState(d) /\ E.row = D.row /\ E.conf = D.conf
      /\ E.made = D.made + 1 /\ E.out = Append(D.out, o)
  <2> DEFINE q == Append(D.out, o)
  <2>1. E = [D EXCEPT !.made = D.made + 1, !.out = q]
    BY DEF Enqueued
  <2>2. q \in Seq(PendingOp(d)) /\ D.made + 1 \in Nat
    BY <1>2, <1>4
  <2> HIDE DEF o, q
  <2>3. /\ E \in DeviceState(d) /\ E.row = D.row /\ E.conf = D.conf
        /\ E.made = D.made + 1 /\ E.out = q
    BY <2>1, <2>2 DEF DeviceState
  <2> QED  BY <2>3 DEF q
<1>6. /\ DOMAIN E.out = 1..n
      /\ \A k \in 1..Len(D.out) : E.out[k] = D.out[k]
      /\ E.out[n] = o
  BY <1>4, <1>5
<1>7. OpsOf(E, i) = OpsOf(D, i) \cup {n} /\ n \notin OpsOf(D, i)
  BY <1>1, <1>6 DEF OpsOf
<1>8. \A j \in Id : j # i => OpsOf(E, j) = OpsOf(D, j)
  BY <1>1, <1>6 DEF OpsOf
<1>9. Cardinality(OpsOf(D, i) \cup {n}) = Cardinality(OpsOf(D, i)) + 1
  BY <1>7, OutFacts, FS_AddElement
<1>10. \A k \in OpsOf(D, i) : k < n /\ E.out[k] = D.out[k]
  BY <1>1, <1>6 DEF OpsOf
<1>11. Numbered(D) => Numbered(E)
  <2>1. o.opId[2] = D.made + 1
    OBVIOUS
  <2>2. ASSUME Numbered(D), NEW k \in DOMAIN E.out
        PROVE  E.out[k].opId[2] \in 1..E.made
    <3> HIDE DEF o
    <3>1. CASE k = n
      BY <3>1, <1>2, <1>5, <1>6, <2>1
    <3>2. CASE k \in 1..Len(D.out)
      <4>1. D.out[k].opId[2] \in 1..D.made
        BY <1>1, <2>2, <3>2 DEF Numbered
      <4>2. E.out[k] = D.out[k] /\ E.made = D.made + 1
        BY <1>5, <1>6, <3>2
      <4> QED  BY <1>2, <4>1, <4>2
    <3> QED  BY <1>1, <1>6, <3>1, <3>2
  <2>3. ASSUME Numbered(D), NEW k \in 1..Len(D.out)  PROVE E.out[k].opId # o.opId
    <3> HIDE DEF o
    <3>1. E.out[k].opId[2] \in 1..D.made
      BY <2>3, <1>1, <1>6 DEF Numbered
    <3>2. E.out[k].opId[2] # o.opId[2]
      BY <3>1, <2>1, <1>2
    <3> QED  BY <3>2
  <2>4. ASSUME Numbered(D), NEW j \in DOMAIN E.out, NEW k \in DOMAIN E.out,
               E.out[j].opId = E.out[k].opId
        PROVE  j = k
    <3> HIDE DEF o
    <3>1. CASE j = n \/ k = n
      <4>1. ASSUME NEW m \in DOMAIN E.out, m # n  PROVE E.out[m].opId # E.out[n].opId
        <5>1. m \in 1..Len(D.out)
          BY <1>1, <1>6, <4>1
        <5> QED  BY <1>6, <2>3, <2>4, <5>1
      <4> QED  BY <2>4, <3>1, <4>1
    <3>2. CASE j \in 1..Len(D.out) /\ k \in 1..Len(D.out)
      BY <3>2, <2>4, <1>1, <1>6 DEF Numbered
    <3> QED  BY <1>1, <1>6, <3>1, <3>2
  <2> QED  BY <2>2, <2>4 DEF Numbered
<1>12. ASSUME NEW j \in Id, j # i
       PROVE  \A k \in OpsOf(D, j) : E.out[k] = D.out[k]
  BY <1>1, <1>6 DEF OpsOf
<1>13. \A j \in Id : j # i /\ Sound(D, j) => Sound(E, j)
  <2> SUFFICES ASSUME NEW j \in Id, j # i, Sound(D, j)  PROVE Sound(E, j)
    OBVIOUS
  <2>1. /\ OpsOf(E, j) = OpsOf(D, j) /\ E.row[j] = D.row[j]
        /\ \A k \in OpsOf(D, j) : E.out[k] = D.out[k]
    BY <1>5, <1>8, <1>12
  <2> QED  BY <2>1 DEF Sound, HasRow
<1>14. \A j \in Id : j # i /\ Waiting(D, j) => Waiting(E, j)
  BY <1>5, <1>8 DEF Waiting, LiveRow, HasRow, Clean
<1>15. Follows(D, E)
  <2>1. E.made >= D.made
    BY <1>2, <1>5
  <2>2. ASSUME NEW k \in DOMAIN E.out
        PROVE  \/ ~ E.out[k].sent /\ E.out[k].opId[2] > D.made
               \/ \E j \in DOMAIN D.out : SameOp(E.out[k], D.out[j])
    <3>1. CASE k = n
      BY <3>1, <1>2, <1>6
    <3>2. CASE k \in 1..Len(D.out)
      BY <3>2, <1>1, <1>6 DEF SameOp
    <3> QED  BY <1>1, <1>6, <3>1, <3>2
  <2> QED  BY <2>1, <2>2 DEF Follows
<1>16. ~ E.out[n].sent /\ E.out[n].action = action /\ E.out[n].data = data
  BY <1>6
<1> HIDE DEF o
<1> QED
  BY <1>5, <1>7, <1>8, <1>9, <1>10, <1>11, <1>13, <1>14, <1>15, <1>16 DEF Queued

\* Operations are removed: those at the positions K stay.
Without(D, K) == [D EXCEPT !.out = Kept(@, K)]

\* E is D with the operations at the positions K.
Thinned(D, E, d, K) ==
  /\ E \in DeviceState(d)
  /\ E.row = D.row /\ E.conf = D.conf /\ E.made = D.made
  /\ \A n \in DOMAIN E.out : Nth(K, n) \in K /\ E.out[n] = D.out[Nth(K, n)]
  /\ \A m, n \in DOMAIN E.out : Nth(K, m) <= Nth(K, n) => m <= n
  /\ \A k \in K : \E n \in DOMAIN E.out : Nth(K, n) = k
  /\ \A i \in Id : OpsOf(D, i) \cap K # {} => OpsOf(E, i) # {}
  /\ \A i \in Id : OpsOf(D, i) \cap K = {} => OpsOf(E, i) = {}
  /\ \A i \in Id : Cardinality(OpsOf(E, i)) = Cardinality(OpsOf(D, i) \cap K)
  /\ \A i \in Id : OpsOf(D, i) \subseteq K /\ Waiting(D, i) => Waiting(E, i)
  /\ \A i \in Id : Sound(D, i) => Sound(E, i)
  /\ Numbered(D) => Numbered(E)
  /\ Follows(D, E)

LEMMA WithoutFacts ==
  ASSUME NEW d, NEW D \in DeviceState(d), NEW K \in SUBSET (DOMAIN D.out),
         NEW E, E = Without(D, K)
  PROVE  Thinned(D, E, d, K)
<1>0. /\ D.out \in Seq(PendingOp(d)) /\ DOMAIN D.out = 1..Len(D.out) /\ Len(D.out) \in Nat
      /\ \A k \in DOMAIN D.out : D.out[k] \in PendingOp(d)
  BY OutFacts
<1>1. /\ Kept(D.out, K) \in Seq(PendingOp(d))
      /\ \A n \in DOMAIN Kept(D.out, K) :
           Nth(K, n) \in K /\ Kept(D.out, K)[n] = D.out[Nth(K, n)]
      /\ \A m, n \in DOMAIN Kept(D.out, K) : m < n => Nth(K, m) < Nth(K, n)
      /\ \A k \in K : \E n \in DOMAIN Kept(D.out, K) : Nth(K, n) = k
  BY <1>0, KeptFacts
<1>2. /\ E \in DeviceState(d) /\ E.row = D.row /\ E.conf = D.conf
      /\ E.made = D.made /\ E.out = Kept(D.out, K)
  BY <1>1 DEF Without, DeviceState
<1>3. /\ \A n \in DOMAIN E.out : Nth(K, n) \in K /\ E.out[n] = D.out[Nth(K, n)]
      /\ \A m, n \in DOMAIN E.out : m < n => Nth(K, m) < Nth(K, n)
      /\ \A k \in K : \E n \in DOMAIN E.out : Nth(K, n) = k
  BY <1>1, <1>2
<1>4. DOMAIN E.out = 1..Len(E.out) /\ Len(E.out) \in Nat
  <2> QED  BY <1>2, OutFacts
<1>5. \A i \in Id : Cardinality(OpsOf(E, i)) = Cardinality(OpsOf(D, i) \cap K)
  <2> SUFFICES ASSUME NEW i \in Id
               PROVE  Cardinality(OpsOf(E, i)) = Cardinality(OpsOf(D, i) \cap K)
    OBVIOUS
  <2> DEFINE P == {o \in PendingOp(d) : o.id = i}
  <2>1. OpsOf(D, i) \cap K = Where(D.out, K, P)
    BY <1>0 DEF OpsOf, Where
  <2>2. OpsOf(E, i) = Where(Kept(D.out, K), DOMAIN Kept(D.out, K), P)
    BY <1>0, <1>1, <1>2 DEF OpsOf, Where
  <2> HIDE DEF P
  <2>3. \A S, s, L, Q : s \in Seq(S) /\ L \in SUBSET (DOMAIN s) =>
          Cardinality(Where(Kept(s, L), DOMAIN Kept(s, L), Q)) = Cardinality(Where(s, L, Q))
    BY KeptCount
  <2>4. Cardinality(Where(Kept(D.out, K), DOMAIN Kept(D.out, K), P)) =
          Cardinality(Where(D.out, K, P))
    BY ONLY <1>0, <2>3, K \in SUBSET (DOMAIN D.out)
  <2> QED  BY <2>1, <2>2, <2>4
<1>6. ASSUME NEW i \in Id, NEW n \in OpsOf(E, i)
      PROVE  Nth(K, n) \in OpsOf(D, i) \cap K /\ E.out[n] = D.out[Nth(K, n)]
  BY <1>3, <1>6 DEF OpsOf
<1>7. ASSUME NEW i \in Id, NEW k \in OpsOf(D, i) \cap K
      PROVE  \E n \in OpsOf(E, i) : Nth(K, n) = k
  BY <1>3, <1>7 DEF OpsOf
<1>8. \A i \in Id : OpsOf(D, i) \cap K # {} => OpsOf(E, i) # {}
  BY <1>7
<1>9. \A i \in Id : OpsOf(D, i) \cap K = {} => OpsOf(E, i) = {}
  BY <1>6
<1>10. \A i \in Id : OpsOf(D, i) \subseteq K /\ Waiting(D, i) => Waiting(E, i)
  <2> SUFFICES ASSUME NEW i \in Id, OpsOf(D, i) \subseteq K, Waiting(D, i)
               PROVE  Waiting(E, i)
    OBVIOUS
  <2>1. OpsOf(D, i) # {} => OpsOf(E, i) # {}
    BY <1>8
  <2> QED  BY <1>2, <2>1 DEF Waiting, LiveRow, HasRow, Clean
<1>11. \A m, n \in DOMAIN E.out : Nth(K, m) <= Nth(K, n) => m <= n
  <2>1. \A n \in DOMAIN E.out : Nth(K, n) \in Nat /\ n \in Nat
    BY <1>0, <1>3, <1>4
  <2> QED  BY <1>3, <2>1
<1>12. \A i \in Id : Sound(D, i) => Sound(E, i)
  <2> SUFFICES ASSUME NEW i \in Id, Sound(D, i)  PROVE Sound(E, i)
    OBVIOUS
  <2>1. E.row[i] = D.row[i] /\ D.row[i] \in LocalRow /\ (HasRow(E, i) <=> HasRow(D, i))
    BY <1>2 DEF HasRow, DeviceState
  <2>2. Cardinality(OpsOf(E, i)) \in Nat /\ Cardinality(OpsOf(D, i)) \in Nat
        /\ Cardinality(OpsOf(E, i)) <= Cardinality(OpsOf(D, i))
    <3>1. OpsOf(D, i) \cap K \in SUBSET OpsOf(D, i)
      OBVIOUS
    <3>2. IsFiniteSet(OpsOf(D, i)) /\ Cardinality(OpsOf(D, i)) \in Nat
      BY OutFacts
    <3>3. Cardinality(OpsOf(E, i)) \in Nat
      BY <1>2, OutFacts
    <3> QED  BY <1>5, <3>1, <3>2, <3>3, FS_Subset
  <2>3. E.row[i].ver >= E.row[i].sv + Cardinality(OpsOf(E, i))
    BY <2>1, <2>2 DEF Sound, LocalRow
  <2>4. HasRow(E, i) \/ (E.row[i] = NoRow /\ OpsOf(E, i) = {})
    BY <1>9, <2>1 DEF Sound
  <2>5. ASSUME NEW n \in OpsOf(E, i)
        PROVE  LET o == E.out[n]
               IN  /\ o.action = "upsert" => o.data \in PayloadOf(i)
                   /\ o.sent => \A j \in OpsOf(E, i) : n <= j
                   /\ o.sent /\ o.action = "upsert" => o.base = E.row[i].sv
                   /\ o.action = "delete" =>
                        E.row[i].deleted /\ \A j \in OpsOf(E, i) : j <= n
    <3> DEFINE k == Nth(K, n)
               o == D.out[k]
    <3>1. k \in OpsOf(D, i) /\ E.out[n] = o
      BY <1>6
    <3>2. /\ o.action = "upsert" => o.data \in PayloadOf(i)
          /\ o.sent => \A j \in OpsOf(D, i) : k <= j
          /\ o.sent /\ o.action = "upsert" => o.base = D.row[i].sv
          /\ o.action = "delete" => D.row[i].deleted /\ \A j \in OpsOf(D, i) : j <= k
      BY <3>1 DEF Sound
    <3>3. \A j \in OpsOf(E, i) : Nth(K, j) \in OpsOf(D, i) /\ j \in DOMAIN E.out
      BY <1>6 DEF OpsOf
    <3>4. n \in DOMAIN E.out
      BY <3>3
    <3> HIDE DEF o
    <3>5. o.sent => \A j \in OpsOf(E, i) : n <= j
      BY <3>2, <3>3, <3>4, <1>11
    <3>6. o.action = "delete" => \A j \in OpsOf(E, i) : j <= n
      BY <3>2, <3>3, <3>4, <1>11
    <3> QED  BY <2>1, <3>1, <3>2, <3>5, <3>6
  <2> HIDE DEF Sound
  <2>6. D.row[i].data \in Data(i)
    BY DEF Sound
  <2> QED  BY <2>1, <2>3, <2>4, <2>5, <2>6 DEF Sound
<1>13. Numbered(D) => Numbered(E)
  <2>1. \A m, n \in DOMAIN E.out : Nth(K, m) = Nth(K, n) => m = n
    <3>1. \A n \in DOMAIN E.out : Nth(K, n) \in Nat /\ n \in Nat
      BY <1>0, <1>3, <1>4
    <3> QED  BY <1>11, <3>1
  <2>2. \A n \in DOMAIN E.out : Nth(K, n) \in DOMAIN D.out
    BY <1>3
  <2> QED  BY <1>2, <1>3, <2>1, <2>2 DEF Numbered
<1>14. Follows(D, E)
  <2>1. E.made >= D.made
    BY <1>2 DEF DeviceState
  <2> QED  BY <1>3, <2>1 DEF Follows, SameOp
<1> QED
  BY <1>2, <1>3, <1>5, <1>8, <1>9, <1>10, <1>11, <1>12, <1>13, <1>14 DEF Thinned

\* E is D without the operations of record i.
Dropped(D, E, d, i) ==
  /\ E \in DeviceState(d)
  /\ E.row = D.row /\ E.conf = D.conf /\ E.made = D.made
  /\ OpsOf(E, i) = {} /\ Cardinality(OpsOf(E, i)) = 0
  /\ \A j \in Id : Sound(D, j) => Sound(E, j)
  /\ \A j \in Id : j # i /\ Waiting(D, j) => Waiting(E, j)
  /\ Numbered(D) => Numbered(E)
  /\ Follows(D, E)

LEMMA DropFacts ==
  ASSUME NEW d, NEW D \in DeviceState(d), NEW i \in Id,
         NEW E, E = DropOps(D, i)
  PROVE  Dropped(D, E, d, i)
<1> DEFINE K == DOMAIN D.out \ OpsOf(D, i)
<1>1. K \in SUBSET (DOMAIN D.out) /\ OpsOf(D, i) \cap K = {}
  OBVIOUS
<1>2. \A j \in Id : j # i => OpsOf(D, j) \subseteq K
  BY DEF OpsOf
<1>3. E = Without(D, K)
  BY DEF DropOps, Without
<1> HIDE DEF K
<1>4. /\ E \in DeviceState(d)
      /\ E.row = D.row /\ E.conf = D.conf /\ E.made = D.made
      /\ OpsOf(E, i) = {}
      /\ \A j \in Id : Sound(D, j) => Sound(E, j)
      /\ \A j \in Id : j # i /\ Waiting(D, j) => Waiting(E, j)
      /\ Numbered(D) => Numbered(E)
      /\ Follows(D, E)
  <2>1. Thinned(D, E, d, K)
    BY <1>1, <1>3, WithoutFacts
  <2> QED  BY <1>1, <1>2, <2>1 DEF Thinned
<1> QED  BY <1>4, FS_EmptySet DEF Dropped

-----------------------------------------------------------------------------
(* What makes a record sound again after one of the three.                 *)

\* A record without operations.
LEMMA QuietSound ==
  ASSUME NEW d, NEW E \in DeviceState(d), NEW i \in Id, OpsOf(E, i) = {},
         E.row[i].data \in Data(i), HasRow(E, i) \/ E.row[i] = NoRow,
         E.row[i].ver >= E.row[i].sv
  PROVE  /\ Sound(E, i)
         /\ E.row[i].deleted \/ E.row[i].ver = E.row[i].sv => Waiting(E, i)
<1>1. Cardinality(OpsOf(E, i)) = 0
  BY FS_EmptySet
<1>2. E.row[i].sv \in Nat
  BY DEF DeviceState, LocalRow
<1>3. E.row[i].ver >= E.row[i].sv + Cardinality(OpsOf(E, i))
  BY <1>1, <1>2
<1> QED  BY <1>3 DEF Sound, Waiting, LiveRow, Clean

\* A record with one more operation.
LEMMA QueuedSound ==
  ASSUME NEW d, NEW D \in DeviceState(d), NEW i \in Id,
         NEW action \in {"upsert", "delete"}, NEW data \in Data(i),
         NEW cascade \in BOOLEAN, NEW base \in Nat,
         HasRow(D, i), D.row[i].data \in Data(i),
         D.row[i].ver >= D.row[i].sv + Cardinality(OpsOf(D, i)) + 1,
         \A k \in OpsOf(D, i) :
           /\ D.out[k].action = "upsert" /\ D.out[k].data \in PayloadOf(i)
           /\ D.out[k].sent => /\ \A j \in OpsOf(D, i) : k <= j
                               /\ D.out[k].base = D.row[i].sv,
         action = "delete" => D.row[i].deleted,
         action = "upsert" => data \in PayloadOf(i),
         NEW E, E = Enqueued(D, i, action, data, cascade, base)
  PROVE  Sound(E, i) /\ Waiting(E, i)
<1> DEFINE n == Len(D.out) + 1
<1>1. data \in Payload \cup {NoData}
  BY NoRowFacts
<1>2. /\ E \in DeviceState(d) /\ E.row = D.row
      /\ OpsOf(E, i) = OpsOf(D, i) \cup {n}
      /\ Cardinality(OpsOf(E, i)) = Cardinality(OpsOf(D, i)) + 1
      /\ \A k \in OpsOf(D, i) : k < n /\ E.out[k] = D.out[k]
      /\ ~ E.out[n].sent /\ E.out[n].action = action /\ E.out[n].data = data
  <2>1. Queued(D, E, d, i, n, action, data)
    BY <1>1, EnqueuedFacts
  <2> QED  BY <2>1 DEF Queued
<1>3. n \in Nat /\ \A k \in OpsOf(D, i) : k \in Nat
  BY OutFacts
<1> HIDE DEF n
<1>4. HasRow(E, i) /\ E.row[i] = D.row[i]
  BY <1>2 DEF HasRow
<1>5. Cardinality(OpsOf(D, i)) \in Nat /\ D.row[i].sv \in Nat /\ D.row[i].ver \in Nat
  BY OutFacts DEF DeviceState, LocalRow
<1>6. E.row[i].ver >= E.row[i].sv + Cardinality(OpsOf(E, i))
  BY <1>2, <1>4, <1>5
<1>7. ASSUME NEW k \in OpsOf(E, i)
      PROVE  LET o == E.out[k]
             IN  /\ o.action = "upsert" => o.data \in PayloadOf(i)
                 /\ o.sent => \A j \in OpsOf(E, i) : k <= j
                 /\ o.sent /\ o.action = "upsert" => o.base = E.row[i].sv
                 /\ o.action = "delete" =>
                      E.row[i].deleted /\ \A j \in OpsOf(E, i) : j <= k
  <2>1. CASE k = n
    BY <2>1, <1>2, <1>3, <1>4
  <2>2. CASE k \in OpsOf(D, i)
    <3>1. E.out[k] = D.out[k] /\ k < n
      BY <1>2, <2>2
    <3>2. D.out[k].action # "delete"
      BY <2>2
    <3> QED  BY <1>2, <1>3, <1>4, <2>2, <3>1, <3>2
  <2> QED  BY <1>2, <2>1, <2>2
<1>8. Sound(E, i)
  BY <1>4, <1>6, <1>7 DEF Sound
<1>9. Waiting(E, i)
  BY <1>2 DEF Waiting
<1> QED  BY <1>8, <1>9

\* Only conflict records change.
LEMMA RecordingFine ==
  ASSUME NEW d, NEW D, Fine(D, d), NEW i \in Id, NEW c \in ConflictRow,
         c.state.data \in Data(i), c.local \in Data(i),
         NEW E, E = [D EXCEPT !.conf[i] = c]
  PROVE  /\ Fine(E, d) /\ Follows(D, E)
         /\ E.row = D.row /\ E.out = D.out /\ E.made = D.made
<1>0. D \in DeviceState(d)
  BY DEF Fine
<1>1. /\ E \in DeviceState(d) /\ E.row = D.row /\ E.out = D.out /\ E.made = D.made
      /\ E.conf[i] = c /\ \A j \in Id : j # i => E.conf[j] = D.conf[j]
  BY <1>0 DEF DeviceState
<1>2. \A j \in Id : OpsOf(E, j) = OpsOf(D, j)
  BY <1>1 DEF OpsOf
<1>3. Numbered(E)
  BY <1>1 DEF Fine, Numbered
<1>4. \A j \in Id : Sound(E, j)
  <2> TAKE j \in Id
  <2>1. Sound(D, j)
    BY DEF Fine
  <2> QED  BY <1>1, <1>2, <2>1 DEF Sound, HasRow
<1>5. \A j \in Id : Waiting(E, j)
  BY <1>1, <1>2 DEF Fine, Waiting, LiveRow, HasRow, Clean
<1>6. \A j \in Id : Told(E, j)
  BY <1>1 DEF Fine, Told
<1>7. Follows(D, E)
  <2>1. E.made >= D.made
    BY <1>0, <1>1 DEF DeviceState
  <2> QED  BY <1>1, <2>1 DEF Follows, SameOp
<1>8. Fine(E, d)
  BY <1>1, <1>3, <1>4, <1>5, <1>6 DEF Fine
<1> QED  BY <1>1, <1>7, <1>8

-----------------------------------------------------------------------------
(* The first operation of a record: it is what creates the record, if the  *)
(* server has not confirmed it.                                            *)

\* The id of the first operation of record i, if that is an upsert.
FirstIds(D, i) ==
  {D.out[k].opId : k \in {n \in OpsOf(D, i) : /\ D.out[n].action = "upsert"
                                              /\ \A j \in OpsOf(D, i) : n <= j}}

\* The three things done to a database and the first operations.
LEMMA WithRowFirsts ==
  ASSUME NEW d, NEW D \in DeviceState(d), NEW i \in Id, NEW r \in LocalRow,
         NEW E, E = WithRow(D, i, r)
  PROVE  \A j \in Id : FirstIds(E, j) = FirstIds(D, j)
<1>1. RowWritten(D, E, d, i, r)
  BY WithRowFacts
<1>2. E.out = D.out /\ \A j \in Id : OpsOf(E, j) = OpsOf(D, j)
  BY <1>1 DEF RowWritten
<1> QED  BY <1>2 DEF FirstIds

LEMMA EnqueuedFirsts ==
  ASSUME NEW d, NEW D \in DeviceState(d), NEW i \in Id,
         NEW action \in {"upsert", "delete"}, NEW data \in Payload \cup {NoData},
         NEW cascade \in BOOLEAN, NEW base \in Nat,
         NEW E, E = Enqueued(D, i, action, data, cascade, base)
  PROVE  /\ \A j \in Id : j # i => FirstIds(E, j) = FirstIds(D, j)
         /\ OpsOf(D, i) # {} \/ action = "delete" => FirstIds(E, i) \subseteq FirstIds(D, i)
<1> DEFINE n == Len(D.out) + 1
           o == [opId |-> <<D.self, D.made + 1>>, action |-> action, id |-> i,
                 base |-> base, data |-> data, cascade |-> cascade,
                 sent |-> FALSE, tries |-> 0]
<1>0. /\ D.out \in Seq(PendingOp(d)) /\ Len(D.out) \in Nat /\ DOMAIN D.out = 1..Len(D.out)
      /\ D.self = d /\ D.made \in Nat
  BY OutFacts DEF DeviceState
<1>1. Queued(D, E, d, i, n, action, data)
  BY EnqueuedFacts
<1>2. E.out = Append(D.out, o)
  BY DEF Enqueued, DeviceState
<1>3. o \in PendingOp(d)
  BY <1>0 DEF PendingOp
<1>4. \A k \in 1..Len(D.out) : E.out[k] = D.out[k]
  <2> HIDE DEF o
  <2> QED  BY <1>0, <1>2, <1>3, AppendProperties
<1>5. \A j \in Id : \A k \in OpsOf(D, j) : E.out[k] = D.out[k] /\ k < n
  BY <1>0, <1>4 DEF OpsOf
<1>6. /\ OpsOf(E, i) = OpsOf(D, i) \cup {n} /\ E.out[n].action = action
      /\ \A j \in Id : j # i => OpsOf(E, j) = OpsOf(D, j)
  BY <1>1 DEF Queued
<1>7. n \in Nat /\ \A k \in OpsOf(D, i) : k \in Nat
  BY <1>0 DEF OpsOf
<1> HIDE DEF n, o
<1>8. \A j \in Id : j # i => FirstIds(E, j) = FirstIds(D, j)
  BY <1>5, <1>6 DEF FirstIds
<1>9. ASSUME OpsOf(D, i) # {} \/ action = "delete",
             NEW k \in OpsOf(E, i), E.out[k].action = "upsert",
             \A j \in OpsOf(E, i) : k <= j
      PROVE  E.out[k].opId \in FirstIds(D, i)
  <2>1. k # n
    BY <1>5, <1>6, <1>7, <1>9
  <2>2. k \in OpsOf(D, i) /\ \A j \in OpsOf(D, i) : k <= j
    BY <1>6, <1>9, <2>1
  <2> QED  BY <1>5, <1>9, <2>2 DEF FirstIds
<1>10. ASSUME OpsOf(D, i) # {} \/ action = "delete"
       PROVE  FirstIds(E, i) \subseteq FirstIds(D, i)
  <2>1. ASSUME NEW x \in FirstIds(E, i)  PROVE x \in FirstIds(D, i)
    <3>1. PICK k \in OpsOf(E, i) : /\ x = E.out[k].opId /\ E.out[k].action = "upsert"
                                   /\ \A j \in OpsOf(E, i) : k <= j
      BY DEF FirstIds
    <3> QED  BY <1>9, <1>10, <3>1
  <2> QED  BY <2>1
<1> QED  BY <1>8, <1>10

LEMMA ThinnedFirsts ==
  ASSUME NEW d, NEW D \in DeviceState(d), NEW K \in SUBSET (DOMAIN D.out),
         NEW E, Thinned(D, E, d, K), NEW j \in Id,
         \A l \in OpsOf(D, j) : \E h \in OpsOf(D, j) \cap K : h <= l
  PROVE  FirstIds(E, j) \subseteq FirstIds(D, j)
<1>1. /\ \A n \in DOMAIN E.out : Nth(K, n) \in K /\ E.out[n] = D.out[Nth(K, n)]
      /\ \A m, n \in DOMAIN E.out : Nth(K, m) <= Nth(K, n) => m <= n
      /\ \A k \in K : \E n \in DOMAIN E.out : Nth(K, n) = k
      /\ E \in DeviceState(d)
  BY DEF Thinned
<1>2. ASSUME NEW n \in OpsOf(E, j), E.out[n].action = "upsert",
             \A m \in OpsOf(E, j) : n <= m
      PROVE  E.out[n].opId \in FirstIds(D, j)
  <2> DEFINE k == Nth(K, n)
  <2>1. n \in DOMAIN E.out /\ k \in OpsOf(D, j) /\ E.out[n] = D.out[k]
    BY <1>1 DEF OpsOf
  <2>2. ASSUME NEW l \in OpsOf(D, j)  PROVE k <= l
    <3>0. PICK h \in OpsOf(D, j) \cap K : h <= l
      OBVIOUS
    <3>1. PICK m \in DOMAIN E.out : Nth(K, m) = h
      BY <1>1
    <3>2. m \in OpsOf(E, j)
      BY <1>1, <3>1 DEF OpsOf
    <3>3. /\ n <= m /\ n \in Nat /\ m \in Nat /\ k \in Nat /\ h \in Nat /\ l \in Nat
      <4>1. E.out \in Seq(PendingOp(d)) /\ DOMAIN E.out = 1..Len(E.out) /\ Len(E.out) \in Nat
            /\ DOMAIN D.out = 1..Len(D.out) /\ Len(D.out) \in Nat
        BY <1>1, OutFacts
      <4>2. n \in DOMAIN E.out /\ m \in DOMAIN E.out /\ k \in DOMAIN D.out
            /\ h \in DOMAIN D.out /\ l \in DOMAIN D.out
        BY <2>1, <3>1, <3>0 DEF OpsOf
      <4> HIDE DEF k
      <4>3. n <= m
        BY <1>2, <3>2
      <4>4. \A x : x \in DOMAIN E.out \/ x \in DOMAIN D.out => x \in Nat
        BY <4>1
      <4> QED  BY <4>2, <4>3, <4>4
    <3>4. h <= k => m <= n
      BY <1>1, <2>1, <3>1
    <3>5. m = n => h = k
      BY <3>1
    <3> HIDE DEF k
    <3> QED  BY <3>0, <3>3, <3>4, <3>5
  <2> HIDE DEF k
  <2> QED  BY <1>2, <2>1, <2>2 DEF FirstIds
<1> QED  BY <1>2 DEF FirstIds

LEMMA ThinnedElsewhere ==
  ASSUME NEW d, NEW D \in DeviceState(d), NEW K \in SUBSET (DOMAIN D.out),
         NEW E, Thinned(D, E, d, K), NEW j \in Id, OpsOf(D, j) \subseteq K
  PROVE  FirstIds(E, j) \subseteq FirstIds(D, j)
<1>1. \A l \in OpsOf(D, j) : l \in OpsOf(D, j) \cap K /\ l <= l
  BY OutFacts DEF OpsOf
<1> QED  BY <1>1, ThinnedFirsts

LEMMA RewrittenFirsts ==
  ASSUME NEW D, NEW E, NEW i \in Id, OpsOf(E, i) = OpsOf(D, i),
         \A k \in OpsOf(D, i) :
           /\ E.out[k].opId = D.out[k].opId
           /\ E.out[k].action = "upsert" => D.out[k].action = "upsert"
  PROVE  FirstIds(E, i) \subseteq FirstIds(D, i)
BY DEF FirstIds

LEMMA NoFirsts ==
  ASSUME NEW E, NEW j, OpsOf(E, j) = {}
  PROVE  FirstIds(E, j) = {}
BY DEF FirstIds

LEMMA DropFirsts ==
  ASSUME NEW d, NEW D \in DeviceState(d), NEW i \in Id, NEW E, E = DropOps(D, i)
  PROVE  FirstIds(E, i) = {} /\ \A j \in Id : FirstIds(E, j) \subseteq FirstIds(D, j)
<1> DEFINE K == DOMAIN D.out \ OpsOf(D, i)
<1>1. K \in SUBSET (DOMAIN D.out) /\ OpsOf(D, i) \cap K = {} /\ E = Without(D, K)
      /\ \A j \in Id : j # i => OpsOf(D, j) \subseteq K
  BY DEF OpsOf, DropOps, Without
<1> HIDE DEF K
<1>2. Thinned(D, E, d, K)
  BY <1>1, WithoutFacts
<1>3. OpsOf(E, i) = {}
  BY <1>1, <1>2 DEF Thinned
<1>4. FirstIds(E, i) = {}
  BY <1>3, NoFirsts
<1>5. \A j \in Id : j # i => FirstIds(E, j) \subseteq FirstIds(D, j)
  BY <1>1, <1>2, ThinnedElsewhere
<1> QED  BY <1>4, <1>5

\* E is D with record i touched: its row is r, its conflict c, and its first
\* operation, if an upsert, one of A.
Touched(D, E, d, i, r, c, A) ==
  /\ E \in DeviceState(d)
  /\ E.row[i] = r /\ E.conf[i] = c /\ FirstIds(E, i) \subseteq A
  /\ \A j \in Id : j # i => /\ E.row[j] = D.row[j] /\ E.conf[j] = D.conf[j]
                            /\ FirstIds(E, j) \subseteq FirstIds(D, j)

LEMMA TouchedOn ==
  ASSUME NEW d, NEW D, NEW E, NEW G, NEW i \in Id, NEW r, NEW c, NEW A, NEW q, NEW b, NEW B,
         Touched(D, E, d, i, r, c, A), Touched(E, G, d, i, q, b, B)
  PROVE  Touched(D, G, d, i, q, b, B)
BY DEF Touched

LEMMA WithRowTouched ==
  ASSUME NEW d, NEW D \in DeviceState(d), NEW i \in Id, NEW r \in LocalRow,
         NEW E, E = WithRow(D, i, r)
  PROVE  Touched(D, E, d, i, r, D.conf[i], FirstIds(D, i))
<1>1. RowWritten(D, E, d, i, r)
  BY WithRowFacts
<1>2. \A j \in Id : FirstIds(E, j) = FirstIds(D, j)
  BY WithRowFirsts
<1> QED  BY <1>1, <1>2 DEF RowWritten, Touched

LEMMA DropTouched ==
  ASSUME NEW d, NEW D \in DeviceState(d), NEW i \in Id, NEW E, E = DropOps(D, i)
  PROVE  Touched(D, E, d, i, D.row[i], D.conf[i], {}) /\ OpsOf(E, i) = {}
<1>1. Dropped(D, E, d, i)
  BY DropFacts
<1>2. FirstIds(E, i) = {} /\ \A j \in Id : FirstIds(E, j) \subseteq FirstIds(D, j)
  BY DropFirsts
<1> QED  BY <1>1, <1>2 DEF Dropped, Touched

LEMMA EnqueuedTouched ==
  ASSUME NEW d, NEW D \in DeviceState(d), NEW i \in Id,
         NEW action \in {"upsert", "delete"}, NEW data \in Payload \cup {NoData},
         NEW cascade \in BOOLEAN, NEW base \in Nat,
         NEW E, E = Enqueued(D, i, action, data, cascade, base)
  PROVE  /\ Touched(D, E, d, i, D.row[i], D.conf[i], FirstIds(E, i))
         /\ OpsOf(D, i) # {} \/ action = "delete"
              => Touched(D, E, d, i, D.row[i], D.conf[i], FirstIds(D, i))
<1> DEFINE n == Len(D.out) + 1
<1>1. Queued(D, E, d, i, n, action, data)
  BY EnqueuedFacts
<1>2. /\ \A j \in Id : j # i => FirstIds(E, j) = FirstIds(D, j)
      /\ OpsOf(D, i) # {} \/ action = "delete" => FirstIds(E, i) \subseteq FirstIds(D, i)
  BY EnqueuedFirsts
<1> HIDE DEF n
<1> QED  BY <1>1, <1>2 DEF Queued, Touched

LEMMA RecordingTouched ==
  ASSUME NEW d, NEW D \in DeviceState(d), NEW i \in Id,
         NEW kind \in {"none", "version", "deleted"}, NEW state \in Row,
         NEW local \in Payload \cup {NoData},
         NEW E, E = Recording(D, i, kind, state, local)
  PROVE  Touched(D, E, d, i, D.row[i], [kind |-> kind, state |-> state, local |-> local],
                 FirstIds(D, i))
<1> DEFINE c == [kind |-> kind, state |-> state, local |-> local]
<1>1. c \in ConflictRow
  BY DEF ConflictRow
<1>2. E = [D EXCEPT !.conf[i] = c]
  BY DEF Recording
<1> HIDE DEF c
<1>3. /\ E \in DeviceState(d) /\ E.row = D.row /\ E.out = D.out /\ E.conf[i] = c
      /\ \A j \in Id : j # i => E.conf[j] = D.conf[j]
  BY <1>1, <1>2 DEF DeviceState
<1>4. \A j \in Id : FirstIds(E, j) = FirstIds(D, j)
  BY <1>3 DEF FirstIds, OpsOf
<1> QED  BY <1>3, <1>4 DEF Touched, c

-----------------------------------------------------------------------------
(* The repositories.                                                       *)

\* E is a database the steps may reach from D, with rows for the records of D
\* and the records N only.
Leads(D, E, d, N) ==
  /\ Fine(E, d)
  /\ Follows(D, E)
  /\ \A j \in Id : HasRow(E, j) => HasRow(D, j) \/ j \in N

LEMMA LeadsTrans ==
  ASSUME NEW d, NEW D, NEW E, NEW F, NEW N, NEW M, D \in DeviceState(d),
         Leads(D, E, d, N), Leads(E, F, d, M)
  PROVE  Leads(D, F, d, N \cup M)
<1>1. E \in DeviceState(d) /\ F \in DeviceState(d)
  BY DEF Leads, Fine
<1>2. Follows(D, F)
  BY <1>1, FollowsTrans DEF Leads
<1> QED  BY <1>2 DEF Leads

LEMMA FollowsSelf ==
  ASSUME NEW d, NEW D \in DeviceState(d)
  PROVE  Follows(D, D)
<1>1. D.made >= D.made
  BY DEF DeviceState
<1> QED  BY <1>1 DEF Follows, SameOp

LEMMA LeadsSelf ==
  ASSUME NEW d, NEW D, Fine(D, d)
  PROVE  Leads(D, D, d, {})
BY FollowsSelf DEF Leads, Fine

LEMMA RowOf ==
  ASSUME NEW d, NEW D, Fine(D, d), NEW i \in Id
  PROVE  /\ D \in DeviceState(d) /\ Sound(D, i) /\ Waiting(D, i)
         /\ D.row[i] \in LocalRow /\ D.row[i].data \in Data(i)
         /\ D.row[i].ver \in Nat /\ D.row[i].sv \in Nat /\ D.row[i].deleted \in BOOLEAN
         /\ D.row[i].ver >= D.row[i].sv + Cardinality(OpsOf(D, i))
         /\ HasRow(D, i) \/ (D.row[i] = NoRow /\ OpsOf(D, i) = {})
         /\ HasRow(D, i) <=> D.row[i].data \in PayloadOf(i)
         /\ HasRow(D, i) => D.row[i].data \in PayloadOf(i)
         /\ Cardinality(OpsOf(D, i)) \in Nat
         /\ Clean(D, i) => OpsOf(D, i) = {}
<1>1. D \in DeviceState(d) /\ Sound(D, i) /\ Waiting(D, i)
  BY DEF Fine
<1>2. /\ D.row[i] \in LocalRow /\ D.row[i].ver \in Nat /\ D.row[i].sv \in Nat
      /\ D.row[i].deleted \in BOOLEAN
  BY <1>1 DEF DeviceState, LocalRow
<1>3. /\ D.row[i].data \in Data(i)
      /\ D.row[i].ver >= D.row[i].sv + Cardinality(OpsOf(D, i))
      /\ HasRow(D, i) \/ (D.row[i] = NoRow /\ OpsOf(D, i) = {})
  BY <1>1 DEF Sound
<1>4. NoData \notin PayloadOf(i)
  BY NoDataAssumption DEF PayloadOf
<1>5. Cardinality(OpsOf(D, i)) \in Nat /\ IsFiniteSet(OpsOf(D, i))
  BY <1>1, OutFacts
<1>6. Clean(D, i) => Cardinality(OpsOf(D, i)) = 0
  BY <1>2, <1>3, <1>5 DEF Clean
<1>7. Clean(D, i) => OpsOf(D, i) = {}
  BY <1>5, <1>6, FS_EmptySet
<1> QED  BY <1>1, <1>2, <1>3, <1>4, <1>5, <1>7 DEF HasRow, Data

\* The payload of a create.
LEMMA NewPayload ==
  ASSUME NEW i \in Id, NEW data \in PayloadOf(i)
  PROVE  [data EXCEPT !.archived = FALSE] \in PayloadOf(i)
BY DEF PayloadOf, Payload

LEMMA CreateFine ==
  ASSUME NEW d, NEW D, Fine(D, d), NEW i \in Id, ~ HasRow(D, i), NEW data \in PayloadOf(i)
  PROVE  Leads(D, LocalCreate(D, i, data), d, {i})
<1> DEFINE new == [data EXCEPT !.archived = FALSE]
           r == [ver |-> 1, sv |-> 0, deleted |-> FALSE, data |-> new]
           F == WithRow(D, i, r)
           E == Enqueued(F, i, "upsert", new, FALSE, 0)
<1>1. new \in PayloadOf(i)
  BY NewPayload
<1>2. new \in Data(i) /\ new \in Payload \cup {NoData} /\ new # NoData
  BY <1>1, NoDataAssumption, NoRowFacts DEF Data, PayloadOf
<1> HIDE DEF new
<1>3. r \in LocalRow
  BY <1>2 DEF LocalRow
<1>4. D \in DeviceState(d) /\ OpsOf(D, i) = {}
  BY RowOf
<1>5. /\ F \in DeviceState(d) /\ F.row[i] = r /\ F.conf = D.conf /\ Numbered(F)
      /\ OpsOf(F, i) = {} /\ Follows(D, F)
      /\ \A j \in Id : j # i => F.row[j] = D.row[j] /\ Sound(F, j) /\ Waiting(F, j)
  <2>1. RowWritten(D, F, d, i, r)
    BY <1>3, <1>4, WithRowFacts
  <2> QED  BY <1>4, <2>1 DEF RowWritten, Fine
<1>6. E = LocalCreate(D, i, data)
  BY DEF LocalCreate, new
<1> HIDE DEF F
<1>7. /\ E \in DeviceState(d) /\ E.row = F.row /\ E.conf = D.conf /\ Numbered(E)
      /\ Follows(F, E)
      /\ \A j \in Id : j # i => Sound(E, j) /\ Waiting(E, j)
  <2>1. Queued(F, E, d, i, Len(F.out) + 1, "upsert", new)
    BY <1>2, <1>5, EnqueuedFacts
  <2> QED  BY <1>5, <2>1 DEF Queued
<1>8. Sound(E, i) /\ Waiting(E, i)
  <2>1. HasRow(F, i)
    BY <1>2, <1>5 DEF HasRow
  <2>2. F.row[i].ver >= F.row[i].sv + Cardinality(OpsOf(F, i)) + 1
    BY <1>5, FS_EmptySet
  <2>3. F.row[i].data \in Data(i)
    BY <1>2, <1>5
  <2> QED  BY <1>1, <1>2, <1>5, <2>1, <2>2, <2>3, QueuedSound
<1> HIDE DEF E
<1>9. Fine(E, d)
  BY <1>7, <1>8 DEF Fine, Told
<1>10. Follows(D, E)
  BY <1>4, <1>5, <1>7, FollowsTrans
<1>11. \A j \in Id : HasRow(E, j) => HasRow(D, j) \/ j \in {i}
  BY <1>5, <1>7 DEF HasRow
<1> QED  BY <1>6, <1>9, <1>10, <1>11 DEF Leads

\* The live row takes a new state with one more operation.
LEMMA RewriteFine ==
  ASSUME NEW d, NEW D, Fine(D, d), NEW i \in Id, LiveRow(D, i), NEW r \in LocalRow,
         r.ver = D.row[i].ver + 1, r.sv = D.row[i].sv, r.data \in PayloadOf(i),
         NEW action \in {"upsert", "delete"}, NEW data \in Data(i),
         NEW cascade \in BOOLEAN, NEW base \in Nat,
         action = "delete" => r.deleted, action = "upsert" => data \in PayloadOf(i)
  PROVE  Leads(D, Enqueued(WithRow(D, i, r), i, action, data, cascade, base), d, {})
<1> DEFINE F == WithRow(D, i, r)
           E == Enqueued(F, i, action, data, cascade, base)
<1>1. /\ D \in DeviceState(d) /\ Sound(D, i)
      /\ D.row[i].ver >= D.row[i].sv + Cardinality(OpsOf(D, i))
      /\ D.row[i].ver \in Nat /\ D.row[i].sv \in Nat /\ Cardinality(OpsOf(D, i)) \in Nat
  BY RowOf
<1>2. /\ F \in DeviceState(d) /\ F.row[i] = r /\ F.conf = D.conf /\ Numbered(F)
      /\ F.out = D.out
      /\ OpsOf(F, i) = OpsOf(D, i) /\ Follows(D, F)
      /\ \A j \in Id : j # i => F.row[j] = D.row[j] /\ Sound(F, j) /\ Waiting(F, j)
  <2>1. RowWritten(D, F, d, i, r)
    BY <1>1, WithRowFacts
  <2> QED  BY <1>1, <2>1 DEF RowWritten, Fine
<1>3. data \in Payload \cup {NoData}
  BY NoRowFacts
<1> HIDE DEF F
<1>4. /\ E \in DeviceState(d) /\ E.row = F.row /\ E.conf = D.conf /\ Numbered(E)
      /\ Follows(F, E)
      /\ \A j \in Id : j # i => Sound(E, j) /\ Waiting(E, j)
  <2>1. Queued(F, E, d, i, Len(F.out) + 1, action, data)
    BY <1>2, <1>3, EnqueuedFacts
  <2> QED  BY <1>2, <2>1 DEF Queued
<1>5. HasRow(F, i) /\ r.data \in Data(i)
  BY <1>2, NoDataAssumption DEF HasRow, PayloadOf, Data
<1>6. F.row[i].ver >= F.row[i].sv + Cardinality(OpsOf(F, i)) + 1
  BY <1>1, <1>2
<1>7. \A k \in OpsOf(F, i) :
        /\ F.out[k].action = "upsert" /\ F.out[k].data \in PayloadOf(i)
        /\ F.out[k].sent => /\ \A j \in OpsOf(F, i) : k <= j
                            /\ F.out[k].base = F.row[i].sv
  <2> SUFFICES ASSUME NEW k \in OpsOf(D, i)
               PROVE  /\ D.out[k].action = "upsert" /\ D.out[k].data \in PayloadOf(i)
                      /\ D.out[k].sent => /\ \A j \in OpsOf(D, i) : k <= j
                                          /\ D.out[k].base = D.row[i].sv
    BY <1>2
  <2>1. D.out[k].action \in {"upsert", "delete"}
    BY <1>1, OutFacts DEF PendingOp
  <2>2. D.out[k].action # "delete"
    BY <1>1 DEF Sound, LiveRow
  <2> QED  BY <1>1, <2>1, <2>2 DEF Sound
<1>8. Sound(E, i) /\ Waiting(E, i)
  BY <1>2, <1>5, <1>6, <1>7, QueuedSound
<1> HIDE DEF E
<1>9. Fine(E, d)
  BY <1>4, <1>8 DEF Fine, Told
<1>10. Follows(D, E)
  BY <1>1, <1>2, <1>4, FollowsTrans
<1>11. \A j \in Id : HasRow(E, j) => HasRow(D, j)
  BY <1>2, <1>4 DEF HasRow, LiveRow
<1> QED  BY <1>9, <1>10, <1>11 DEF Leads, E, F

LEMMA UpdateFine ==
  ASSUME NEW d, NEW D, Fine(D, d), NEW i \in Id, LiveRow(D, i), NEW data \in PayloadOf(i)
  PROVE  Leads(D, LocalUpdate(D, i, data), d, {})
<1> DEFINE r == [D.row[i] EXCEPT !.ver = @ + 1, !.data = data]
<1>1. /\ D.row[i] \in LocalRow /\ D.row[i].ver \in Nat /\ D.row[i].sv \in Nat
  BY RowOf
<1>2. data \in Data(i) /\ data \in Payload \cup {NoData}
  BY NoRowFacts DEF Data
<1>0. D.row[i].deleted \in BOOLEAN
  BY RowOf
<1>3. r \in LocalRow /\ r.ver = D.row[i].ver + 1 /\ r.sv = D.row[i].sv /\ r.data = data
  <2> DEFINE q == D.row[i]
             v == q.ver + 1
  <2>1. r = [q EXCEPT !.ver = v, !.data = data] /\ v \in Nat /\ q \in LocalRow
    BY <1>1
  <2> HIDE DEF r, q, v
  <2>2. r \in LocalRow /\ r.ver = v /\ r.sv = q.sv /\ r.data = data
    BY <1>2, <2>1 DEF LocalRow
  <2> QED  BY <2>2 DEF q, v
<1>4. LocalUpdate(D, i, data) =
        Enqueued(WithRow(D, i, r), i, "upsert", data, FALSE, D.row[i].sv)
  BY DEF LocalUpdate
<1> HIDE DEF r
<1> QED  BY <1>1, <1>2, <1>3, <1>4, RewriteFine

LEMMA SweptFine ==
  ASSUME NEW d, NEW D, Fine(D, d), NEW R \in SUBSET Id, NEW gone,
         \A j \in R : HasRow(D, j)
  PROVE  Leads(D, Swept(D, R, gone), d, {})
<1> DEFINE rows == [j \in Id |-> IF j \notin R THEN D.row[j]
                                 ELSE IF j \in gone THEN NoRow ELSE Buried(D.row[j])]
           F == [D EXCEPT !.row = rows]
           K == {k \in DOMAIN D.out : D.out[k].id \notin R}
           E == Without(F, K)
<1>1. D \in DeviceState(d)
  BY DEF Fine
<1>2. \A j \in R : /\ Buried(D.row[j]) \in LocalRow
                   /\ Buried(D.row[j]).data = D.row[j].data
                   /\ Buried(D.row[j]).deleted
                   /\ Buried(D.row[j]).ver >= Buried(D.row[j]).sv
  <2> SUFFICES ASSUME NEW j \in R
               PROVE  /\ Buried(D.row[j]) \in LocalRow
                      /\ Buried(D.row[j]).data = D.row[j].data
                      /\ Buried(D.row[j]).deleted
                      /\ Buried(D.row[j]).ver >= Buried(D.row[j]).sv
    OBVIOUS
  <2> DEFINE r == D.row[j]
             v == r.ver + 1
  <2>1. /\ r \in LocalRow /\ r.ver \in Nat /\ r.sv \in Nat
        /\ r.ver >= r.sv + Cardinality(OpsOf(D, j)) /\ Cardinality(OpsOf(D, j)) \in Nat
    BY RowOf
  <2>2. Buried(r) = [r EXCEPT !.deleted = TRUE, !.ver = v] /\ v \in Nat /\ v >= r.sv
    BY <2>1 DEF Buried
  <2> HIDE DEF r, v
  <2>3. /\ Buried(r) \in LocalRow /\ Buried(r).data = r.data /\ Buried(r).deleted
        /\ Buried(r).ver = v /\ Buried(r).sv = r.sv
    BY <2>1, <2>2 DEF LocalRow
  <2> QED  BY <2>2, <2>3 DEF r
<1>3. rows \in [Id -> LocalRow]
  BY <1>1, <1>2, NoRowFacts DEF DeviceState
<1>4. /\ F \in DeviceState(d) /\ F.row = rows /\ F.conf = D.conf
      /\ F.made = D.made /\ F.out = D.out
  <2> HIDE DEF rows
  <2> QED  BY <1>1, <1>3 DEF DeviceState
<1>5. K \in SUBSET (DOMAIN F.out)
  BY <1>4
<1>6. Swept(D, R, gone) = E
  <2>1. Swept(D, R, gone) = [D EXCEPT !.row = rows, !.out = Kept(D.out, K)]
    BY DEF Swept
  <2>2. E = [F EXCEPT !.out = Kept(D.out, K)]
    BY <1>4 DEF Without
  <2> HIDE DEF rows, K
  <2> QED  BY <1>1, <2>1, <2>2 DEF DeviceState
<1>7. \A j \in Id : OpsOf(F, j) = OpsOf(D, j)
  BY <1>4 DEF OpsOf
<1>8. \A j \in Id : j \in R => OpsOf(F, j) \cap K = {}
  BY <1>4 DEF OpsOf
<1>9. \A j \in Id : j \notin R => OpsOf(F, j) \subseteq K
  BY <1>4 DEF OpsOf
<1>10. \A j \in Id : j \notin R => F.row[j] = D.row[j]
  BY <1>4
<1>11. \A j \in R : F.row[j] \in {NoRow, Buried(D.row[j])}
  BY <1>4
<1> HIDE DEF F, K
<1>12. Thinned(F, E, d, K)
  BY <1>4, <1>5, WithoutFacts
<1> HIDE DEF E
<1>13. \A j \in Id \ R : Sound(F, j) /\ Waiting(F, j)
  <2> TAKE j \in Id \ R
  <2>1. Sound(D, j) /\ Waiting(D, j)
    BY DEF Fine
  <2> QED  BY <1>4, <1>7, <1>10, <2>1 DEF Sound, Waiting, LiveRow, HasRow, Clean
<1>14. \A j \in Id \ R : Sound(E, j) /\ Waiting(E, j)
  BY <1>9, <1>12, <1>13 DEF Thinned
<1>15. /\ E \in DeviceState(d) /\ E.row = F.row /\ E.conf = D.conf /\ E.made = D.made
       /\ Numbered(E) /\ Follows(F, E)
  <2>1. Numbered(F)
    BY <1>4 DEF Fine, Numbered
  <2> QED  BY <1>4, <1>12, <2>1 DEF Thinned
<1>16. ASSUME NEW j \in R  PROVE Sound(E, j) /\ Waiting(E, j)
  <2>1. OpsOf(E, j) = {}
    BY <1>8, <1>12 DEF Thinned
  <2>2. CASE E.row[j] = NoRow
    <3>1. /\ E.row[j].data \in Data(j) /\ E.row[j].ver >= E.row[j].sv
          /\ E.row[j].ver = E.row[j].sv
      BY <2>2, NoRowFacts
    <3> QED  BY <2>1, <2>2, <3>1, <1>15, QuietSound
  <2>3. CASE E.row[j] = Buried(D.row[j])
    <3>1. D.row[j].data \in Data(j) /\ D.row[j].data # NoData
      BY RowOf DEF HasRow
    <3>2. E.row[j].data \in Data(j) /\ HasRow(E, j)
      BY <2>3, <3>1, <1>2 DEF HasRow
    <3>3. E.row[j].ver >= E.row[j].sv /\ E.row[j].deleted
      BY <2>3, <1>2
    <3> QED  BY <2>1, <3>2, <3>3, <1>15, QuietSound
  <2> QED  BY <1>11, <1>15, <2>2, <2>3
<1>17. Fine(E, d)
  BY <1>14, <1>15, <1>16 DEF Fine, Told
<1>18. Follows(D, E)
  <2>1. Follows(F, E) /\ F.out = D.out /\ F.made = D.made
    BY <1>4, <1>15
  <2> QED  BY <2>1 DEF Follows
<1>19. \A j \in Id : HasRow(E, j) => HasRow(D, j)
  BY <1>10, <1>15 DEF HasRow
<1> QED  BY <1>6, <1>17, <1>18, <1>19 DEF Leads

LEMMA BuriedRow ==
  ASSUME NEW r \in LocalRow
  PROVE  /\ Buried(r) \in LocalRow /\ Buried(r).ver = r.ver + 1 /\ Buried(r).sv = r.sv
         /\ Buried(r).data = r.data /\ Buried(r).deleted
<1>1. r.ver + 1 \in Nat
  BY DEF LocalRow
<1> DEFINE v == r.ver + 1
<1>2. Buried(r) = [r EXCEPT !.deleted = TRUE, !.ver = v]
  BY DEF Buried
<1> HIDE DEF v
<1>3. /\ Buried(r) \in LocalRow /\ Buried(r).ver = v /\ Buried(r).sv = r.sv
      /\ Buried(r).data = r.data /\ Buried(r).deleted
  <2>1. v \in Nat
    BY <1>1 DEF v
  <2> QED  BY <1>2, <2>1 DEF LocalRow
<1> QED  BY <1>3 DEF v

LEMMA RemoveFine ==
  ASSUME NEW d, NEW D, Fine(D, d), NEW i \in Id, LiveRow(D, i), NEW cascade \in BOOLEAN
  PROVE  Leads(D, LocalRemove(D, i, cascade), d, {})
<1> DEFINE R == IF i \in Category THEN Referencing(D, i) ELSE {}
           r == Buried(D.row[i])
           E == Enqueued(WithRow(D, i, r), i, "delete", NoData, cascade, D.row[i].sv)
           G == {j \in R : Unborn(D, j)}
<1>1. R \in SUBSET Id /\ \A j \in R : HasRow(D, j)
  BY DEF Referencing, LiveRow, Id
<1>2. CASE Unborn(D, i)
  <2>1. LocalRemove(D, i, cascade) = Swept(D, {i} \cup R, {i} \cup R)
    BY <1>2 DEF LocalRemove
  <2>2. {i} \cup R \in SUBSET Id /\ \A j \in {i} \cup R : HasRow(D, j)
    BY <1>1 DEF LiveRow
  <2> HIDE DEF R
  <2> QED  BY <2>1, <2>2, SweptFine
<1>3. CASE ~ Unborn(D, i)
  <2>1. LocalRemove(D, i, cascade) = IF cascade THEN Swept(E, R, G) ELSE E
    BY <1>3 DEF LocalRemove
  <2>2. /\ D.row[i] \in LocalRow /\ D.row[i].sv \in Nat /\ D.row[i].data \in PayloadOf(i)
        /\ D \in DeviceState(d)
    BY RowOf DEF LiveRow
  <2>3. /\ r \in LocalRow /\ r.ver = D.row[i].ver + 1 /\ r.sv = D.row[i].sv
        /\ r.data = D.row[i].data /\ r.deleted
    BY <2>2, BuriedRow
  <2>4. NoData \in Data(i)
    BY NoRowFacts
  <2> HIDE DEF r
  <2>5. Leads(D, E, d, {})
    BY <2>2, <2>3, <2>4, RewriteFine
  <2>6. \A j \in R : HasRow(E, j)
    <3>1. RowWritten(D, WithRow(D, i, r), d, i, r)
      BY <2>2, <2>3, WithRowFacts
    <3>2. WithRow(D, i, r) \in DeviceState(d)
      BY <3>1 DEF RowWritten
    <3>3. NoData \in Payload \cup {NoData}
      OBVIOUS
    <3>4. Queued(WithRow(D, i, r), E, d, i, Len(WithRow(D, i, r).out) + 1, "delete", NoData)
      BY <2>2, <3>2, <3>3, EnqueuedFacts
    <3>5. E.row = WithRow(D, i, r).row
      BY <3>4 DEF Queued
    <3>6. \A j \in Id : E.row[j].data = D.row[j].data
      BY <2>3, <3>1, <3>5 DEF RowWritten
    <3> QED  BY <1>1, <3>6 DEF HasRow
  <2> HIDE DEF E, G, R
  <2>7. Leads(E, Swept(E, R, G), d, {})
    BY <1>1, <2>5, <2>6, SweptFine DEF Leads
  <2>8. Leads(D, Swept(E, R, G), d, {})
    <3>1. {} \cup {} = {}
      OBVIOUS
    <3> QED  BY <2>2, <2>5, <2>7, <3>1, LeadsTrans
  <2> QED  BY <2>1, <2>5, <2>8
<1> QED  BY <1>2, <1>3

-----------------------------------------------------------------------------
(* Conflicts.                                                              *)

\* The row becomes the confirmed state r, its operations go.
LEMMA SettledFine ==
  ASSUME NEW d, NEW D, Fine(D, d), NEW i \in Id, NEW r \in LocalRow,
         r.data \in Data(i), r.ver = r.sv, r.data # NoData \/ r = NoRow
  PROVE  /\ Leads(D, DropOps(WithRow(D, i, r), i), d, {i})
         /\ HasRow(D, i) => Leads(D, DropOps(WithRow(D, i, r), i), d, {})
<1> DEFINE F == WithRow(D, i, r)
           E == DropOps(F, i)
<1>1. D \in DeviceState(d)
  BY DEF Fine
<1>2. RowWritten(D, F, d, i, r)
  BY <1>1, WithRowFacts
<1> HIDE DEF F
<1>3. /\ F \in DeviceState(d) /\ F.row[i] = r /\ F.conf = D.conf /\ Numbered(F)
      /\ Follows(D, F)
      /\ \A j \in Id : j # i => F.row[j] = D.row[j] /\ Sound(F, j) /\ Waiting(F, j)
  BY <1>2 DEF RowWritten, Fine
<1>4. Dropped(F, E, d, i)
  BY <1>3, DropFacts
<1> HIDE DEF E
<1>5. /\ E \in DeviceState(d) /\ E.row = F.row /\ E.conf = D.conf /\ Numbered(E)
      /\ OpsOf(E, i) = {} /\ Follows(F, E)
      /\ \A j \in Id : j # i => Sound(E, j) /\ Waiting(E, j)
  BY <1>3, <1>4 DEF Dropped
<1>6. Sound(E, i) /\ Waiting(E, i)
  <2>1. r.ver \in Nat
    BY DEF LocalRow
  <2>2. E.row[i] = r /\ E.row[i].ver >= E.row[i].sv
    BY <1>3, <1>5, <2>1
  <2>3. HasRow(E, i) \/ E.row[i] = NoRow
    BY <2>2 DEF HasRow
  <2> QED  BY <1>5, <2>2, <2>3, QuietSound
<1>7. Fine(E, d)
  BY <1>5, <1>6 DEF Fine, Told
<1>8. Follows(D, E)
  BY <1>1, <1>3, <1>5, FollowsTrans
<1>9. \A j \in Id : HasRow(E, j) => HasRow(D, j) \/ j = i
  BY <1>3, <1>5 DEF HasRow
<1> QED  BY <1>7, <1>8, <1>9 DEF Leads, E, F

\* The operations of a record go that is CLEAN, a tombstone or not there.
LEMMA DropFine ==
  ASSUME NEW d, NEW D, Fine(D, d), NEW i \in Id,
         ~ HasRow(D, i) \/ D.row[i].deleted \/ Clean(D, i)
  PROVE  Leads(D, DropOps(D, i), d, {})
<1> DEFINE E == DropOps(D, i)
<1>1. D \in DeviceState(d)
  BY DEF Fine
<1>2. Dropped(D, E, d, i)
  BY <1>1, DropFacts
<1> HIDE DEF E
<1>3. /\ E \in DeviceState(d) /\ E.row = D.row /\ E.conf = D.conf /\ Numbered(E)
      /\ Follows(D, E)
      /\ \A j \in Id : Sound(E, j)
      /\ \A j \in Id : j # i => Waiting(E, j)
  BY <1>2 DEF Dropped, Fine
<1>4. Waiting(E, i)
  BY <1>3 DEF Waiting, LiveRow, HasRow, Clean
<1>5. Fine(E, d)
  BY <1>3, <1>4 DEF Fine, Told
<1>6. \A j \in Id : HasRow(E, j) => HasRow(D, j)
  BY <1>3 DEF HasRow
<1> QED  BY <1>3, <1>5, <1>6 DEF Leads, E

\* The row is based on the server's version v and pushed again.
LEMMA AgainFine ==
  ASSUME NEW d, NEW D, Fine(D, d), NEW i \in Id, HasRow(D, i), NEW v \in Nat,
         NEW r, r = [D.row[i] EXCEPT !.sv = v, !.ver = MaxOf(@, v + 1)],
         NEW action \in {"upsert", "delete"}, NEW data \in Data(i),
         action = "delete" => r.deleted, action = "upsert" => data \in PayloadOf(i)
  PROVE  Leads(D, Enqueued(WithRow(DropOps(D, i), i, r), i, action, data, FALSE, v), d, {})
<1> DEFINE F == DropOps(D, i)
           G == WithRow(F, i, r)
           E == Enqueued(G, i, action, data, FALSE, v)
<1>1. /\ D \in DeviceState(d) /\ D.row[i] \in LocalRow
      /\ D.row[i].ver \in Nat /\ D.row[i].data \in PayloadOf(i)
  BY RowOf
<1>2. Dropped(D, F, d, i)
  BY <1>1, DropFacts
<1> HIDE DEF F
<1>3. /\ F \in DeviceState(d) /\ F.row = D.row /\ F.conf = D.conf /\ Numbered(F)
      /\ Follows(D, F) /\ OpsOf(F, i) = {}
      /\ \A j \in Id : j # i => Sound(F, j) /\ Waiting(F, j)
  BY <1>2 DEF Dropped, Fine
<1>4. /\ r \in LocalRow /\ r.sv = v /\ r.ver >= v + 1 /\ r.data = D.row[i].data
      /\ r.deleted = D.row[i].deleted
  <2> DEFINE m == MaxOf(D.row[i].ver, v + 1)
             q == D.row[i]
  <2>1. m \in Nat /\ m >= v + 1
    BY <1>1 DEF MaxOf
  <2>2. r = [q EXCEPT !.sv = v, !.ver = m] /\ q \in LocalRow
    BY <1>1
  <2> HIDE DEF m, q
  <2>3. r \in LocalRow /\ r.sv = v /\ r.ver = m /\ r.data = q.data /\ r.deleted = q.deleted
    BY <2>1, <2>2 DEF LocalRow
  <2> QED  BY <2>1, <2>3 DEF q
<1>5. RowWritten(F, G, d, i, r)
  BY <1>3, <1>4, WithRowFacts
<1> HIDE DEF G
<1>6. /\ G \in DeviceState(d) /\ G.row[i] = r /\ G.conf = D.conf /\ Numbered(G)
      /\ Follows(F, G) /\ OpsOf(G, i) = {}
      /\ \A j \in Id : j # i => G.row[j] = D.row[j] /\ Sound(G, j) /\ Waiting(G, j)
  BY <1>3, <1>5 DEF RowWritten
<1>7. data \in Payload \cup {NoData}
  BY NoRowFacts
<1>8. Queued(G, E, d, i, Len(G.out) + 1, action, data)
  <2>1. G \in DeviceState(d) /\ FALSE \in BOOLEAN
    BY <1>6
  <2> HIDE DEF Queued
  <2> QED  BY <1>7, <2>1, EnqueuedFacts
<1>9. Sound(E, i) /\ Waiting(E, i)
  <2>1. HasRow(G, i) /\ G.row[i].data \in Data(i)
    BY <1>1, <1>4, <1>6, NoDataAssumption DEF HasRow, PayloadOf, Data
  <2>2. G.row[i].ver >= G.row[i].sv + Cardinality(OpsOf(G, i)) + 1
    <3>1. Cardinality(OpsOf(G, i)) = 0
      BY <1>6, FS_EmptySet
    <3> QED  BY <1>4, <1>6, <3>1
  <2>3. action = "delete" => G.row[i].deleted
    BY <1>6
  <2> QED  BY <1>6, <2>1, <2>2, <2>3, QueuedSound
<1> HIDE DEF E
<1>10. /\ E \in DeviceState(d) /\ E.row = G.row /\ E.conf = D.conf /\ Numbered(E)
       /\ Follows(G, E)
       /\ \A j \in Id : j # i => Sound(E, j) /\ Waiting(E, j)
  BY <1>6, <1>8 DEF Queued
<1>11. Fine(E, d)
  BY <1>9, <1>10 DEF Fine, Told
<1>12. Follows(D, E)
  <2>1. Follows(D, G)
    BY <1>1, <1>3, <1>6, FollowsTrans
  <2> QED  BY <1>1, <1>6, <1>10, <2>1, FollowsTrans
<1>13. \A j \in Id : HasRow(E, j) => HasRow(D, j)
  BY <1>6, <1>10 DEF HasRow
<1> QED  BY <1>11, <1>12, <1>13 DEF Leads, E, F, G

LEMMA RecordFine ==
  ASSUME NEW d, NEW D, Fine(D, d), NEW i \in Id, NEW kind \in {"none", "version", "deleted"},
         NEW state \in Row, state.data \in Data(i), NEW local \in Data(i)
  PROVE  Leads(D, Recording(D, i, kind, state, local), d, {})
<1> DEFINE c == [kind |-> kind, state |-> state, local |-> local]
           E == [D EXCEPT !.conf[i] = c]
<1>1. c \in ConflictRow /\ c.state.data \in Data(i) /\ c.local \in Data(i)
  BY NoRowFacts DEF ConflictRow
<1> HIDE DEF c
<1>2. Fine(E, d) /\ Follows(D, E) /\ E.row = D.row
  BY <1>1, RecordingFine
<1>3. Recording(D, i, kind, state, local) = E
  BY DEF Recording, c
<1> HIDE DEF E
<1> QED  BY <1>2, <1>3 DEF Leads, HasRow

LEMMA ResolvedFine ==
  ASSUME NEW d, NEW D, Fine(D, d), NEW i \in Id
  PROVE  Leads(D, Resolved(D, i), d, {})
<1>1. Absent \in Row /\ Absent.data \in Data(i) /\ NoData \in Data(i)
  BY NoRowFacts DEF Absent
<1>2. Resolved(D, i) = Recording(D, i, "none", Absent, NoData)
  BY DEF Resolved, Recording, NoConflict
<1>3. "none" \in {"none", "version", "deleted"}
  OBVIOUS
<1> QED  BY <1>1, <1>2, <1>3, RecordFine

\* Two steps that make no record.
LEMMA LeadsOn ==
  ASSUME NEW d, NEW D, NEW E, NEW F, Fine(D, d), NEW N,
         Leads(D, E, d, N), Leads(E, F, d, {})
  PROVE  Leads(D, F, d, N)
<1>1. N \cup {} = N
  OBVIOUS
<1>2. D \in DeviceState(d)
  BY DEF Fine
<1>3. Leads(D, F, d, N \cup {})
  BY <1>2, LeadsTrans
<1> QED  BY <1>1, <1>3

LEMMA DeleteWinsFine ==
  ASSUME NEW d, NEW D, Fine(D, d), NEW i \in Id, NEW v \in Nat
  PROVE  Leads(D, DeleteWins(D, i, v), d, {})
<1> DEFINE r == [ver |-> v, sv |-> v, deleted |-> TRUE, data |-> D.row[i].data]
           F == DropOps(IF HasRow(D, i) THEN WithRow(D, i, r) ELSE D, i)
           state == [ver |-> v, deleted |-> TRUE, data |-> NoData]
<1>1. D.row[i].data \in Data(i) /\ state \in Row /\ state.data \in Data(i)
  BY RowOf, NoRowFacts DEF Row
<1>2. Leads(D, F, d, {})
  <2>1. CASE HasRow(D, i)
    <3>1. r \in LocalRow /\ r.data \in Data(i) /\ r.ver = r.sv /\ r.data # NoData
      BY <1>1, <2>1, NoRowFacts DEF LocalRow, HasRow
    <3>2. F = DropOps(WithRow(D, i, r), i)
      BY <2>1
    <3> HIDE DEF r, F
    <3> QED  BY <2>1, <3>1, <3>2, SettledFine
  <2>2. CASE ~ HasRow(D, i)
    <3>1. F = DropOps(D, i)
      BY <2>2
    <3> HIDE DEF F
    <3> QED  BY <2>2, <3>1, DropFine
  <2> QED  BY <2>1, <2>2
<1>3. DeleteWins(D, i, v) = Recording(F, i, "deleted", state, D.row[i].data)
  BY DEF DeleteWins
<1> HIDE DEF F, state
<1>4. Fine(F, d)
  BY <1>2 DEF Leads
<1>5. Leads(F, Recording(F, i, "deleted", state, D.row[i].data), d, {})
  <2>1. "deleted" \in {"none", "version", "deleted"}
    OBVIOUS
  <2> QED  BY <1>1, <1>4, <2>1, RecordFine
<1> QED  BY <1>2, <1>3, <1>5, LeadsOn

LEMMA LocalDeleteWinsFine ==
  ASSUME NEW d, NEW D, Fine(D, d), NEW i \in Id, HasRow(D, i), D.row[i].deleted,
         NEW state \in Row, state.data \in Data(i)
  PROVE  Leads(D, LocalDeleteWins(D, i, state), d, {})
<1> DEFINE v == state.ver
           r == [D.row[i] EXCEPT !.sv = v, !.ver = MaxOf(@, v + 1)]
           F == Enqueued(WithRow(DropOps(D, i), i, r), i, "delete", NoData, FALSE, v)
<1>1. v \in Nat /\ NoData \in Data(i) /\ D.row[i] \in LocalRow /\ D \in DeviceState(d)
  BY NoRowFacts, RowOf DEF Row
<1>2. r.deleted
  BY <1>1 DEF LocalRow
<1>3. DropOps(WithRow(D, i, r), i) = WithRow(DropOps(D, i), i, r)
  <2> HIDE DEF r
  <2>1. OpsOf(WithRow(D, i, r), i) = OpsOf(D, i) /\ WithRow(D, i, r).out = D.out
    BY <1>1 DEF OpsOf, WithRow, DeviceState
  <2> DEFINE q == Kept(D.out, DOMAIN D.out \ OpsOf(D, i))
             rows == [D.row EXCEPT ![i] = r]
  <2>2. DropOps(D, i) = [D EXCEPT !.out = q]
    BY DEF DropOps
  <2>3. WithRow(D, i, r) = [D EXCEPT !.row = rows]
    BY <1>1 DEF WithRow, DeviceState
  <2>4. DropOps(WithRow(D, i, r), i) = [WithRow(D, i, r) EXCEPT !.out = q]
    BY <2>1 DEF DropOps
  <2>5. WithRow(DropOps(D, i), i, r) = [DropOps(D, i) EXCEPT !.row = rows]
    <3> HIDE DEF q
    <3> QED  BY <1>1, <2>2 DEF WithRow, DeviceState
  <2> HIDE DEF q, rows
  <2>6. D = [self |-> D.self, made |-> D.made, row |-> D.row, out |-> D.out, conf |-> D.conf]
    BY <1>1 DEF DeviceState
  <2> DEFINE G == [self |-> D.self, made |-> D.made, row |-> rows, out |-> q,
                   conf |-> D.conf]
  <2>7. DropOps(D, i) = [self |-> D.self, made |-> D.made, row |-> D.row, out |-> q,
                         conf |-> D.conf]
    BY <2>2, <2>6
  <2>8. WithRow(D, i, r) = [self |-> D.self, made |-> D.made, row |-> rows,
                            out |-> D.out, conf |-> D.conf]
    BY <2>3, <2>6
  <2>9. DropOps(WithRow(D, i, r), i) = G
    BY <2>4, <2>8
  <2>10. WithRow(DropOps(D, i), i, r) = G
    BY <2>5, <2>7
  <2> QED  BY <2>9, <2>10
<1>4. LocalDeleteWins(D, i, state) = Recording(F, i, "deleted", state, state.data)
  BY <1>3 DEF LocalDeleteWins
<1>5. Leads(D, F, d, {})
  <2>1. r = [D.row[i] EXCEPT !.sv = v, !.ver = MaxOf(@, v + 1)]
    OBVIOUS
  <2> HIDE DEF r, v
  <2> QED  BY <1>1, <1>2, <2>1, AgainFine
<1> HIDE DEF F
<1>6. Fine(F, d)
  BY <1>5 DEF Leads
<1>7. Leads(F, Recording(F, i, "deleted", state, state.data), d, {})
  <2>1. "deleted" \in {"none", "version", "deleted"}
    OBVIOUS
  <2> QED  BY <1>6, <2>1, RecordFine
<1> QED  BY <1>4, <1>5, <1>7, LeadsOn

LEMMA KeepLocalFine ==
  ASSUME NEW d, NEW D, Fine(D, d), NEW i \in Id
  PROVE  Leads(D, KeepLocal(D, i), d, {})
<1> DEFINE v == D.conf[i].state.ver
           r == [D.row[i] EXCEPT !.sv = v, !.ver = MaxOf(@, v + 1)]
           E == DropOps(D, i)
           F == WithRow(E, i, r)
           G == IF ~ HasRow(D, i) THEN E
                ELSE IF D.row[i].deleted THEN Enqueued(F, i, "delete", NoData, FALSE, v)
                ELSE Enqueued(F, i, "upsert", D.row[i].data, FALSE, v)
<1>1. /\ D \in DeviceState(d) /\ D.row[i] \in LocalRow /\ D.row[i].data \in Data(i)
      /\ HasRow(D, i) => D.row[i].data \in PayloadOf(i)
      /\ D.row[i].deleted \in BOOLEAN /\ NoData \in Data(i)
  BY RowOf, NoRowFacts
<1>2. v \in Nat
  BY <1>1 DEF DeviceState, ConflictRow, Row
<1>3. E.row[i] = D.row[i]
  <2>1. Dropped(D, E, d, i)
    BY <1>1, DropFacts
  <2> HIDE DEF E
  <2> QED  BY <2>1 DEF Dropped
<1>4. KeepLocal(D, i) = Resolved(G, i)
  BY <1>3 DEF KeepLocal
<1>5. r = [D.row[i] EXCEPT !.sv = v, !.ver = MaxOf(@, v + 1)] /\ r.deleted = D.row[i].deleted
  BY <1>1 DEF LocalRow
<1> HIDE DEF r, v
<1>6. Leads(D, G, d, {})
  <2>1. CASE ~ HasRow(D, i)
    BY <2>1, DropFine
  <2>2. CASE HasRow(D, i) /\ D.row[i].deleted
    <3>1. r.deleted
      BY <1>5, <2>2
    <3>2. Leads(D, Enqueued(F, i, "delete", NoData, FALSE, v), d, {})
      BY <1>1, <1>2, <1>5, <2>2, <3>1, AgainFine
    <3> QED  BY <2>2, <3>2
  <2>3. CASE HasRow(D, i) /\ ~ D.row[i].deleted
    <3>1. Leads(D, Enqueued(F, i, "upsert", D.row[i].data, FALSE, v), d, {})
      BY <1>1, <1>2, <1>5, <2>3, AgainFine
    <3> QED  BY <2>3, <3>1
  <2> QED  BY <2>1, <2>2, <2>3
<1> HIDE DEF G
<1>7. Leads(G, Resolved(G, i), d, {})
  BY <1>6, ResolvedFine DEF Leads
<1> QED  BY <1>4, <1>6, <1>7, LeadsOn

LEMMA TakeServerFine ==
  ASSUME NEW d, NEW D, Fine(D, d), NEW i \in Id
  PROVE  Leads(D, TakeServer(D, i), d, {})
<1> DEFINE s == D.conf[i].state
           r == IF s.ver = 0 THEN NoRow
                ELSE IF s.deleted \/ s.data = NoData
                THEN [ver |-> s.ver, sv |-> s.ver, deleted |-> TRUE, data |-> D.row[i].data]
                ELSE [ver |-> s.ver, sv |-> s.ver, deleted |-> FALSE, data |-> s.data]
           F == DropOps(IF HasRow(D, i) THEN WithRow(D, i, r) ELSE D, i)
<1>1. D \in DeviceState(d) /\ D.row[i].data \in Data(i) /\ NoData \in Data(i)
  BY RowOf, NoRowFacts
<1>2. s.ver \in Nat /\ s.data \in Data(i) /\ s.deleted \in BOOLEAN
  BY <1>1 DEF DeviceState, ConflictRow, Row, Fine, Told
<1>3. TakeServer(D, i) = Resolved(F, i)
  BY DEF TakeServer
<1> HIDE DEF s
<1>4. Leads(D, F, d, {})
  <2>1. CASE HasRow(D, i)
    <3>1. /\ r \in LocalRow /\ r.data \in Data(i) /\ r.ver = r.sv
          /\ r.data # NoData \/ r = NoRow
      BY <1>1, <1>2, <2>1, NoRowFacts DEF LocalRow, HasRow
    <3>2. F = DropOps(WithRow(D, i, r), i)
      BY <2>1
    <3> HIDE DEF r, F
    <3> QED  BY <2>1, <3>1, <3>2, SettledFine
  <2>2. CASE ~ HasRow(D, i)
    <3>1. F = DropOps(D, i)
      BY <2>2
    <3> HIDE DEF F
    <3> QED  BY <2>2, <3>1, DropFine
  <2> QED  BY <2>1, <2>2
<1> HIDE DEF F
<1>5. Leads(F, Resolved(F, i), d, {})
  BY <1>4, ResolvedFine DEF Leads
<1> QED  BY <1>3, <1>4, <1>5, LeadsOn

-----------------------------------------------------------------------------
(* What the engine does with answers and changes.                          *)

\* The confirmation of an operation that was sent: an upsert made the version
\* next to its base.
LEMMA ConfirmedFine ==
  ASSUME NEW d, NEW D, Fine(D, d), NEW opId, NEW v \in Nat,
         \A k \in DOMAIN D.out : D.out[k].opId = opId =>
           /\ D.out[k].sent
           /\ D.out[k].action = "upsert" => v = D.out[k].base + 1
  PROVE  Leads(D, Confirmed(D, opId, v), d, {})
<1>1. CASE ~ \E k \in DOMAIN D.out : D.out[k].opId = opId
  BY <1>1, LeadsSelf DEF Confirmed
<1>2. CASE \E k \in DOMAIN D.out : D.out[k].opId = opId
  <2> DEFINE k == CHOOSE k \in DOMAIN D.out : D.out[k].opId = opId
             i == D.out[k].id
             K == {j \in DOMAIN D.out : D.out[j].opId # opId}
             E == Without(D, K)
             r == [D.row[i] EXCEPT !.sv = v, !.ver = IF OpsOf(E, i) = {} THEN v ELSE @]
             F == WithRow(E, i, r)
  <2>1. Confirmed(D, opId, v) = IF ~ HasRow(D, i) THEN E ELSE F
    BY <1>2 DEF Confirmed, Without
  <2>2. k \in DOMAIN D.out /\ D.out[k].opId = opId
    BY <1>2
  <2> HIDE DEF k
  <2>3. D \in DeviceState(d) /\ D.out[k] \in PendingOp(d) /\ i \in Id
    BY <2>2, OutFacts DEF Fine, PendingOp
  <2> HIDE DEF i
  <2>4. k \in OpsOf(D, i)
    BY <2>2 DEF OpsOf, i
  <2>5. \A j \in DOMAIN D.out : j # k => j \in K
    BY <2>2 DEF Fine, Numbered
  <2>6. OpsOf(D, i) \cap K = OpsOf(D, i) \ {k}
    BY <2>2, <2>4, <2>5 DEF OpsOf
  <2>7. \A j \in Id : j # i => OpsOf(D, j) \subseteq K
    BY <2>5 DEF OpsOf, i
  <2>8. /\ Sound(D, i) /\ HasRow(D, i) /\ D.row[i] \in LocalRow
        /\ D.row[i].data \in Data(i) /\ D.row[i].ver \in Nat /\ D.row[i].sv \in Nat
        /\ D.row[i].ver >= D.row[i].sv + Cardinality(OpsOf(D, i))
        /\ Cardinality(OpsOf(D, i)) \in Nat
    BY <2>3, <2>4, RowOf
  <2>9. D.out[k].sent /\ (D.out[k].action = "upsert" => v = D.row[i].sv + 1)
    BY <2>2, <2>4, <2>8 DEF Sound
  <2>10. /\ \A j \in OpsOf(D, i) : k <= j
         /\ D.out[k].action = "delete" => \A j \in OpsOf(D, i) : j <= k
    BY <2>4, <2>8, <2>9 DEF Sound
  <2>11. K \in SUBSET (DOMAIN D.out)
    OBVIOUS
  <2> HIDE DEF K
  <2>12. Thinned(D, E, d, K)
    BY <2>3, <2>11, WithoutFacts
  <2> HIDE DEF E
  <2>13. /\ E \in DeviceState(d) /\ E.row = D.row /\ E.conf = D.conf /\ Numbered(E)
         /\ Follows(D, E)
         /\ \A j \in Id : Sound(E, j)
         /\ \A j \in Id : j # i => Waiting(E, j)
    BY <2>7, <2>12 DEF Thinned, Fine
  <2>14. Cardinality(OpsOf(E, i)) = Cardinality(OpsOf(D, i)) - 1
    <3>1. Cardinality(OpsOf(E, i)) = Cardinality(OpsOf(D, i) \ {k})
      BY <2>3, <2>6, <2>12 DEF Thinned
    <3>2. IsFiniteSet(OpsOf(D, i))
      BY <2>3, OutFacts
    <3> QED  BY <2>4, <3>1, <3>2, FS_RemoveElement
  <2>15. ASSUME NEW n \in OpsOf(E, i)
         PROVE  ~ E.out[n].sent /\ D.out[k].action = "upsert"
    <3> DEFINE m == Nth(K, n)
    <3>1. m \in K /\ E.out[n] = D.out[m] /\ E.out[n].id = i
      BY <2>12 DEF Thinned, OpsOf
    <3>2. m \in OpsOf(D, i) /\ m # k
      BY <2>11, <3>1, <2>2 DEF OpsOf, K
    <3>3. m \in Nat /\ k \in Nat
      BY <2>2, <2>3, <3>2, OutFacts DEF OpsOf
    <3> HIDE DEF m
    <3>4. k < m
      BY <2>10, <3>2, <3>3
    <3>5. ~ D.out[m].sent
      BY <2>4, <2>8, <3>2, <3>3, <3>4 DEF Sound
    <3>6. D.out[k].action # "delete"
      BY <2>10, <3>2, <3>3, <3>4
    <3> QED  BY <2>3, <3>1, <3>5, <3>6 DEF PendingOp
  <2>16. /\ r \in LocalRow /\ r.sv = v /\ r.data = D.row[i].data
         /\ r.deleted = D.row[i].deleted
         /\ r.ver = IF OpsOf(E, i) = {} THEN v ELSE D.row[i].ver
    <3> DEFINE m == IF OpsOf(E, i) = {} THEN v ELSE D.row[i].ver
               q == D.row[i]
    <3>1. m \in Nat /\ q \in LocalRow
      BY <2>8
    <3>2. r = [q EXCEPT !.sv = v, !.ver = m]
      OBVIOUS
    <3> HIDE DEF m, q, r
    <3>3. r \in LocalRow /\ r.sv = v /\ r.ver = m /\ r.data = q.data /\ r.deleted = q.deleted
      BY <3>1, <3>2 DEF LocalRow
    <3> QED  BY <3>3 DEF m, q
  <2> HIDE DEF r
  <2>17. RowWritten(E, F, d, i, r)
    BY <2>3, <2>13, <2>16, WithRowFacts
  <2> HIDE DEF F
  <2>18. /\ F \in DeviceState(d) /\ F.row[i] = r /\ F.conf = D.conf /\ Numbered(F)
         /\ F.out = E.out
         /\ OpsOf(F, i) = OpsOf(E, i) /\ Follows(E, F)
         /\ \A j \in Id : j # i => F.row[j] = D.row[j] /\ Sound(F, j) /\ Waiting(F, j)
    BY <2>3, <2>13, <2>17 DEF RowWritten
  <2>19. Sound(F, i) /\ Waiting(F, i)
    <3>0. HasRow(F, i) /\ F.row[i].data \in Data(i)
      BY <2>8, <2>16, <2>18 DEF HasRow
    <3>1. CASE OpsOf(F, i) = {}
      <4>1. F.row[i].ver >= F.row[i].sv /\ F.row[i].ver = F.row[i].sv
        BY <2>16, <2>18, <3>1
      <4> QED  BY <2>3, <2>18, <3>0, <3>1, <4>1, QuietSound
    <3>2. CASE OpsOf(F, i) # {}
      <4>1. D.out[k].action = "upsert"
        BY <2>15, <2>18, <3>2
      <4>2. F.row[i].ver >= F.row[i].sv + Cardinality(OpsOf(F, i))
        BY <2>8, <2>9, <2>14, <2>16, <2>18, <3>2, <4>1
      <4>3. Sound(E, i)
        BY <2>3, <2>13
      <4>4. ASSUME NEW n \in OpsOf(F, i)
            PROVE  LET o == F.out[n]
                   IN  /\ o.action = "upsert" => o.data \in PayloadOf(i)
                       /\ o.sent => \A j \in OpsOf(F, i) : n <= j
                       /\ o.sent /\ o.action = "upsert" => o.base = F.row[i].sv
                       /\ o.action = "delete" =>
                            F.row[i].deleted /\ \A j \in OpsOf(F, i) : j <= n
        BY <2>13, <2>15, <2>16, <2>18, <4>3 DEF Sound
      <4>5. Sound(F, i)
        BY <3>0, <4>2, <4>4 DEF Sound
      <4> QED  BY <3>2, <4>5 DEF Waiting
    <3> QED  BY <3>1, <3>2
  <2>20. Fine(F, d)
    BY <2>18, <2>19 DEF Fine, Told
  <2>21. Follows(D, F)
    BY <2>3, <2>13, <2>18, FollowsTrans
  <2>22. \A j \in Id : HasRow(F, j) => HasRow(D, j)
    BY <2>8, <2>18 DEF HasRow
  <2> QED  BY <2>1, <2>8, <2>20, <2>21, <2>22 DEF Leads
<1> QED  BY <1>1, <1>2

\* The row becomes the confirmed state of a change; its operations, if it has
\* any, stay: it has none when it was CLEAN or not there.
LEMMA OverwrittenFine ==
  ASSUME NEW d, NEW D, Fine(D, d), NEW i \in Id, Clean(D, i), NEW r \in LocalRow,
         r.data \in Data(i), r.ver = r.sv, r.data # NoData
  PROVE  /\ Leads(D, WithRow(D, i, r), d, {i})
         /\ HasRow(D, i) => Leads(D, WithRow(D, i, r), d, {})
<1> DEFINE F == WithRow(D, i, r)
<1>1. D \in DeviceState(d) /\ OpsOf(D, i) = {}
  BY RowOf
<1>2. RowWritten(D, F, d, i, r)
  BY <1>1, WithRowFacts
<1> HIDE DEF F
<1>3. /\ F \in DeviceState(d) /\ F.row[i] = r /\ F.conf = D.conf /\ Numbered(F)
      /\ Follows(D, F) /\ OpsOf(F, i) = {}
      /\ \A j \in Id : j # i => F.row[j] = D.row[j] /\ Sound(F, j) /\ Waiting(F, j)
  BY <1>1, <1>2 DEF RowWritten, Fine
<1>4. Sound(F, i) /\ Waiting(F, i)
  <2>1. r.ver \in Nat
    BY DEF LocalRow
  <2>2. F.row[i] = r /\ F.row[i].ver >= F.row[i].sv /\ HasRow(F, i)
    BY <1>3, <2>1 DEF HasRow
  <2> QED  BY <1>3, <2>2, QuietSound
<1>5. Fine(F, d)
  BY <1>3, <1>4 DEF Fine, Told
<1>6. \A j \in Id : HasRow(F, j) => HasRow(D, j) \/ j = i
  BY <1>3 DEF HasRow
<1> QED  BY <1>3, <1>5, <1>6 DEF Leads, F

\* A pulled change (an element of a page).
PulledChange ==
  [seq : Nat, id : Id, action : {"upsert", "tombstone"}, ver : Nat,
   data : Payload \cup {NoData}]

LEMMA ChangeTakenInFine ==
  ASSUME NEW d, NEW D, Fine(D, d), NEW ch \in PulledChange, ch.data \in Data(ch.id)
  PROVE  Leads(D, ChangeTakenIn(D, ch), d, {ch.id})
<1> DEFINE i == ch.id
           r == D.row[i]
           E == ChangeTakenIn(D, ch)
           up == [ver |-> ch.ver, sv |-> ch.ver, deleted |-> FALSE, data |-> ch.data]
           dead == [ver |-> ch.ver, sv |-> ch.ver, deleted |-> TRUE, data |-> r.data]
           state == StateOf(ch)
           bad == [r EXCEPT !.ver = ch.ver, !.sv = ch.ver]
<1>0. \A F : Leads(D, F, d, {}) => Leads(D, F, d, {i})
  BY DEF Leads
<1>1. /\ i \in Id /\ ch.ver \in Nat /\ ch.data \in Payload \cup {NoData}
      /\ ch.action \in {"upsert", "tombstone"}
  BY DEF PulledChange
<1>2. /\ D \in DeviceState(d) /\ r \in LocalRow /\ r.data \in Data(i)
      /\ HasRow(D, i) \/ r = NoRow
  BY <1>1, RowOf
<1>3. state \in Row /\ state.data \in Data(i)
  BY <1>1, NoRowFacts DEF StateOf, Row
<1>4. Leads(D, D, d, {i})
  BY <1>0, LeadsSelf
<1>5. Leads(D, Recording(D, i, "version", state, r.data), d, {i})
  <2>1. "version" \in {"none", "version", "deleted"}
    OBVIOUS
  <2> HIDE DEF i, r, state
  <2>2. Leads(D, Recording(D, i, "version", state, r.data), d, {})
    BY <1>1, <1>2, <1>3, <2>1, RecordFine
  <2> QED  BY <1>0, <2>2
<1>6. CASE ~ HasRow(D, i)
  <2>1. CASE ch.action = "tombstone" \/ ch.data = NoData
    BY <1>4, <1>6, <2>1 DEF ChangeTakenIn
  <2>2. CASE ~ (ch.action = "tombstone" \/ ch.data = NoData)
    <3>1. E = WithRow(D, i, up)
      BY <1>6, <2>2 DEF ChangeTakenIn
    <3>2. up \in LocalRow /\ up.data \in Data(i) /\ up.ver = up.sv /\ up.data # NoData
      BY <1>1, <2>2 DEF LocalRow
    <3>3. Clean(D, i)
      BY <1>2, <1>6, NoRowFacts DEF Clean
    <3> HIDE DEF up, E, i
    <3>4. Leads(D, WithRow(D, i, up), d, {i})
      BY <1>1, <3>2, <3>3, OverwrittenFine
    <3> QED  BY <3>1, <3>4 DEF E, i
  <2> QED  BY <2>1, <2>2
<1>7. CASE HasRow(D, i) /\ ch.ver <= r.sv
  BY <1>4, <1>7 DEF ChangeTakenIn
<1>8. CASE HasRow(D, i) /\ ~ ch.ver <= r.sv /\ D.conf[i].kind # "none"
  BY <1>5, <1>8 DEF ChangeTakenIn
<1>9. CASE HasRow(D, i) /\ ~ ch.ver <= r.sv /\ D.conf[i].kind = "none" /\ Clean(D, i)
  <2>1. dead \in LocalRow /\ dead.data \in Data(i) /\ dead.ver = dead.sv /\ dead.data # NoData
    BY <1>1, <1>2, <1>9, NoRowFacts DEF LocalRow, HasRow
  <2>2. ch.data # NoData =>
          up \in LocalRow /\ up.data \in Data(i) /\ up.ver = up.sv /\ up.data # NoData
    BY <1>1 DEF LocalRow
  <2>3. E = IF ch.action = "tombstone" THEN WithRow(D, i, dead)
            ELSE IF ch.data = NoData THEN D ELSE WithRow(D, i, up)
    BY <1>9 DEF ChangeTakenIn, OverClean
  <2> HIDE DEF up, dead, E, i
  <2>4. Leads(D, WithRow(D, i, dead), d, {i})
    BY <1>1, <1>9, <2>1, OverwrittenFine
  <2>5. ch.data # NoData => Leads(D, WithRow(D, i, up), d, {i})
    BY <1>1, <1>9, <2>2, OverwrittenFine
  <2>6. Leads(D, E, d, {i})
    BY <1>4, <2>3, <2>4, <2>5
  <2> QED  BY <2>6 DEF E, i
<1>10. CASE HasRow(D, i) /\ ~ ch.ver <= r.sv /\ D.conf[i].kind = "none" /\ ~ Clean(D, i)
  <2>1. CASE ch.action = "tombstone" /\ r.deleted
    <3>1. E = DropOps(WithRow(D, i, bad), i)
      BY <1>10, <2>1 DEF ChangeTakenIn, OverClean
    <3>2. bad \in LocalRow /\ bad.data = r.data /\ bad.ver = bad.sv
      <4> HIDE DEF r
      <4> QED  BY <1>1, <1>2 DEF LocalRow
    <3>3. r.data # NoData
      BY <1>10 DEF HasRow
    <3> HIDE DEF bad, E, i, r
    <3>4. Leads(D, DropOps(WithRow(D, i, bad), i), d, {i})
      BY <1>1, <1>2, <3>2, <3>3, SettledFine
    <3> QED  BY <3>1, <3>4 DEF E, i
  <2>2. CASE ch.action = "tombstone" /\ ~ r.deleted
    <3>1. E = DeleteWins(D, i, ch.ver)
      BY <1>10, <2>2 DEF ChangeTakenIn, OverClean
    <3>2. Leads(D, DeleteWins(D, i, ch.ver), d, {})
      BY <1>1, DeleteWinsFine
    <3> QED  BY <1>0, <3>1, <3>2
  <2>3. CASE ch.action # "tombstone" /\ r.deleted
    <3>1. E = LocalDeleteWins(D, i, state)
      BY <1>10, <2>3 DEF ChangeTakenIn, OverClean
    <3> HIDE DEF state, E, i
    <3>2. Leads(D, LocalDeleteWins(D, i, state), d, {})
      BY <1>1, <1>3, <1>10, <2>3, LocalDeleteWinsFine
    <3> QED  BY <1>0, <3>1, <3>2 DEF E, i
  <2>4. CASE ch.action # "tombstone" /\ ~ r.deleted
    <3>1. E = Recording(D, i, "version", state, r.data)
      BY <1>10, <2>4 DEF ChangeTakenIn, OverClean
    <3> QED  BY <1>5, <3>1
  <2> QED  BY <2>1, <2>2, <2>3, <2>4
<1> QED  BY <1>6, <1>7, <1>8, <1>9, <1>10

\* A conflict answer to the pushed operation w.
LEMMA ConflictedFine ==
  ASSUME NEW d, NEW D, Fine(D, d), NEW w, NEW a, w.id \in Id,
         a.state \in Row, a.state.data \in Data(w.id)
  PROVE  Leads(D, Conflicted(D, w, a), d, {})
<1> DEFINE i == w.id
           v == a.state.ver
           r == [ver |-> v, sv |-> v, deleted |-> FALSE, data |-> a.state.data]
<1>1. v \in Nat /\ D.row[i].data \in Data(i)
  BY RowOf DEF Row
<1>2. CASE Adoptable(w, a)
  <2>1. /\ r \in LocalRow /\ r.data \in Data(i) /\ r.ver = r.sv /\ r.data # NoData
    BY <1>1, <1>2, NoRowFacts DEF Adoptable, LocalRow
  <2>2. Conflicted(D, w, a) = DropOps(IF HasRow(D, i) THEN WithRow(D, i, r) ELSE D, i)
    BY <1>2 DEF Conflicted
  <2> HIDE DEF r, i
  <2>3. HasRow(D, i) => Leads(D, DropOps(WithRow(D, i, r), i), d, {})
    BY <2>1, SettledFine DEF i
  <2>4. ~ HasRow(D, i) => Leads(D, DropOps(D, i), d, {})
    BY DropFine DEF i
  <2> QED  BY <2>2, <2>3, <2>4
<1>3. CASE ~ Adoptable(w, a) /\ (a.code = "SYNC_DELETED_CONFLICT" \/ a.state.deleted)
  <2>1. Conflicted(D, w, a) = DeleteWins(D, i, v)
    BY <1>3 DEF Conflicted
  <2> QED  BY <1>1, <2>1, DeleteWinsFine
<1>4. CASE ~ Adoptable(w, a) /\ ~ (a.code = "SYNC_DELETED_CONFLICT" \/ a.state.deleted)
  <2>1. Conflicted(D, w, a) = Recording(D, i, "version", a.state, D.row[i].data)
    BY <1>4 DEF Conflicted
  <2>2. "version" \in {"none", "version", "deleted"}
    OBVIOUS
  <2> QED  BY <1>1, <2>1, <2>2, RecordFine
<1> QED  BY <1>2, <1>3, <1>4

\* The operation o may stand at position k among the operations ops of the
\* record i with row r.
Fits(r, ops, i, k, o) ==
  /\ o.action = "upsert" => o.data \in PayloadOf(i)
  /\ o.sent => \A j \in ops : k <= j
  /\ o.sent /\ o.action = "upsert" => o.base = r.sv
  /\ o.action = "delete" => r.deleted /\ \A j \in ops : j <= k

\* The operations are rewritten where they are.
LEMMA RewrittenFine ==
  ASSUME NEW d, NEW D, Fine(D, d), NEW q \in Seq(PendingOp(d)), DOMAIN q = DOMAIN D.out,
         \A k \in DOMAIN q : q[k].opId = D.out[k].opId /\ q[k].id = D.out[k].id,
         \A i \in Id : \A k \in OpsOf(D, i) : Fits(D.row[i], OpsOf(D, i), i, k, q[k]),
         NEW E, E = [D EXCEPT !.out = q]
  PROVE  /\ Fine(E, d) /\ E.row = D.row /\ E.conf = D.conf /\ E.made = D.made
         /\ E.out = q /\ \A i \in Id : OpsOf(E, i) = OpsOf(D, i)
<1>1. /\ E \in DeviceState(d) /\ E.row = D.row /\ E.conf = D.conf /\ E.made = D.made
      /\ E.out = q
  BY DEF Fine, DeviceState
<1>2. \A i \in Id : OpsOf(E, i) = OpsOf(D, i)
  BY <1>1 DEF OpsOf
<1>3. Numbered(E)
  BY <1>1 DEF Fine, Numbered
<1>4. \A i \in Id : Sound(E, i)
  <2> TAKE i \in Id
  <2>1. Sound(D, i)
    BY DEF Fine
  <2>2. /\ E.row[i] = D.row[i] /\ OpsOf(E, i) = OpsOf(D, i) /\ (HasRow(E, i) <=> HasRow(D, i))
        /\ \A k \in OpsOf(D, i) : Fits(E.row[i], OpsOf(D, i), i, k, E.out[k])
    BY <1>1, <1>2 DEF HasRow
  <2> QED  BY <2>1, <2>2 DEF Sound, Fits
<1>5. \A i \in Id : Waiting(E, i) /\ Told(E, i)
  BY <1>1, <1>2 DEF Fine, Waiting, LiveRow, HasRow, Clean, Told
<1> QED  BY <1>1, <1>2, <1>3, <1>4, <1>5 DEF Fine

LEMMA FitsAlready ==
  ASSUME NEW d, NEW D, Fine(D, d), NEW i \in Id, NEW k \in OpsOf(D, i)
  PROVE  Fits(D.row[i], OpsOf(D, i), i, k, D.out[k])
<1>1. Sound(D, i)
  BY DEF Fine
<1> QED  BY <1>1 DEF Sound, Fits

\* What is on its way to the server.
WireOp(d) ==
  [opId : {d} \X Nat, action : {"upsert", "delete"}, id : Id, cascade : BOOLEAN,
   base : Nat, data : Payload \cup {NoData}, tries : Nat]

\* Operation p, sent perhaps for the first time.
Resent(o, p) ==
  /\ o.opId = p.opId /\ o.id = p.id /\ o.action = p.action /\ o.data = p.data
  /\ p.sent => o.sent /\ o.base = p.base

LEMMA RevertedFine ==
  ASSUME NEW d, NEW D, Fine(D, d), NEW batch, \A b \in Range(batch) : b \in WireOp(d)
  PROVE  /\ Leads(D, AttemptsReverted(D, batch), d, {})
         /\ AttemptsReverted(D, batch).row = D.row /\ AttemptsReverted(D, batch).conf = D.conf
         /\ \A j \in Id : /\ OpsOf(AttemptsReverted(D, batch), j) = OpsOf(D, j)
                         /\ FirstIds(AttemptsReverted(D, batch), j) \subseteq FirstIds(D, j)
         /\ \A k \in DOMAIN D.out : Resent(AttemptsReverted(D, batch).out[k], D.out[k])
<1> DEFINE t(k) == (CHOOSE b \in Range(batch) : b.opId = D.out[k].opId).tries
           sel(k) == \E b \in Range(batch) : b.opId = D.out[k].opId
           q == [k \in DOMAIN D.out |-> IF sel(k) THEN [D.out[k] EXCEPT !.tries = t(k)]
                                        ELSE D.out[k]]
           E == [D EXCEPT !.out = q]
<1>1. D \in DeviceState(d)
  BY DEF Fine
<1>2. DOMAIN D.out = 1..Len(D.out) /\ Len(D.out) \in Nat
      /\ \A k \in DOMAIN D.out : D.out[k] \in PendingOp(d)
  BY <1>1, OutFacts
<1>3. AttemptsReverted(D, batch) = E
  BY DEF AttemptsReverted
<1>4. ASSUME NEW k \in DOMAIN D.out
      PROVE  /\ q[k] \in PendingOp(d) /\ q[k].opId = D.out[k].opId /\ q[k].id = D.out[k].id
             /\ q[k].action = D.out[k].action /\ q[k].base = D.out[k].base
             /\ q[k].sent = D.out[k].sent /\ q[k].data = D.out[k].data
  <2>1. CASE sel(k)
    <3>1. t(k) \in Nat
      BY <2>1 DEF WireOp
    <3>2. q[k] = [D.out[k] EXCEPT !.tries = t(k)]
      BY <2>1
    <3> HIDE DEF q, t
    <3> QED  BY <1>2, <3>1, <3>2 DEF PendingOp
  <2>2. CASE ~ sel(k)
    <3>1. q[k] = D.out[k]
      BY <2>2
    <3> QED  BY <1>2, <3>1
  <2> QED  BY <2>1, <2>2
<1>5. q \in Seq(PendingOp(d)) /\ DOMAIN q = DOMAIN D.out
  <2>1. q \in [1..Len(D.out) -> PendingOp(d)]
    <3>1. q = [k \in 1..Len(D.out) |-> q[k]]
      BY <1>2
    <3> HIDE DEF q
    <3> QED  BY <1>2, <1>4, <3>1
  <2>2. DOMAIN q = DOMAIN D.out
    OBVIOUS
  <2> HIDE DEF q
  <2> QED  BY <1>2, <2>1, <2>2, SeqDef
<1> HIDE DEF q
<1>6. \A i \in Id : \A k \in OpsOf(D, i) : Fits(D.row[i], OpsOf(D, i), i, k, q[k])
  <2> TAKE i \in Id
  <2> TAKE k \in OpsOf(D, i)
  <2>1. Fits(D.row[i], OpsOf(D, i), i, k, D.out[k]) /\ k \in DOMAIN D.out
    BY FitsAlready DEF OpsOf
  <2> QED  BY <1>4, <2>1 DEF Fits
<1>7. /\ Fine(E, d) /\ E.row = D.row /\ E.conf = D.conf /\ E.made = D.made /\ E.out = q
      /\ \A i \in Id : OpsOf(E, i) = OpsOf(D, i)
  <2>1. \A k \in DOMAIN q : q[k].opId = D.out[k].opId /\ q[k].id = D.out[k].id
    BY <1>4, <1>5
  <2> HIDE DEF E
  <2>2. E = [D EXCEPT !.out = q]
    BY DEF E
  <2> QED  BY <1>5, <1>6, <2>1, <2>2, RewrittenFine
<1> HIDE DEF E
<1>8. Follows(D, E)
  <2>1. E.made >= D.made
    BY <1>1, <1>7 DEF DeviceState
  <2> QED  BY <1>4, <1>5, <1>7, <2>1 DEF Follows, SameOp
<1>9. \A j \in Id : FirstIds(E, j) \subseteq FirstIds(D, j)
  <2> TAKE j \in Id
  <2>1. \A k \in OpsOf(D, j) : /\ E.out[k].opId = D.out[k].opId
                               /\ E.out[k].action = D.out[k].action
    BY <1>4, <1>7 DEF OpsOf
  <2> QED  BY <1>7, <2>1, RewrittenFirsts
<1>10. \A k \in DOMAIN D.out : Resent(E.out[k], D.out[k])
  BY <1>4, <1>7 DEF Resent
<1> QED  BY <1>3, <1>7, <1>8, <1>9, <1>10 DEF Leads, HasRow

-----------------------------------------------------------------------------
(* The next batch.                                                         *)

\* An operation that carries the record as it is in row r.
Whole(o, r) ==
  /\ ~ o.sent
  /\ r.deleted => o.action = "delete"
  /\ ~ r.deleted => o.action = "upsert" /\ o.data = r.data

\* E is what coalescing makes of D: of the operations only those of K are left
\* (F), and of a record that had more than one not yet sent, one carries it.
Coalesces(D, F, E, d, K) ==
  /\ Thinned(D, F, d, K)
  /\ E.row = D.row /\ E.conf = D.conf
  /\ DOMAIN E.out = DOMAIN F.out /\ \A i \in Id : OpsOf(E, i) = OpsOf(F, i)
  /\ \A n \in DOMAIN E.out :
       /\ E.out[n].sent = F.out[n].sent
       /\ E.out[n] = F.out[n] \/ Whole(E.out[n], D.row[E.out[n].id])
  /\ \A i \in Id : \A l \in OpsOf(D, i) : \E h \in OpsOf(D, i) \cap K : h <= l
  /\ \A i \in Id : \/ OpsOf(D, i) \subseteq K
                  \/ \E n \in OpsOf(E, i) : Whole(E.out[n], D.row[i])
  /\ \A i \in Id : \A m, n \in OpsOf(E, i) : ~ E.out[m].sent /\ ~ E.out[n].sent => m = n

LEMMA CoalescedFine ==
  ASSUME NEW d, NEW D, Fine(D, d)
  PROVE  /\ Leads(D, Coalesced(D), d, {})
         /\ Coalesced(D).row = D.row /\ Coalesced(D).conf = D.conf
         /\ Coalesced(D).made = D.made
         /\ \A j \in Id : FirstIds(Coalesced(D), j) \subseteq FirstIds(D, j)
         /\ \E K \in SUBSET (DOMAIN D.out) : \E F : Coalesces(D, F, Coalesced(D), d, K)
<1> DEFINE Unsent(i) == {k \in OpsOf(D, i) : ~ D.out[k].sent}
           Merged == {k \in DOMAIN D.out :
                        ~ D.out[k].sent /\ Cardinality(Unsent(D.out[k].id)) > 1}
           Gone == {k \in Merged : \/ ~ HasRow(D, D.out[k].id)
                                   \/ \E j \in Unsent(D.out[k].id) : j < k}
           whole(o) == LET r == D.row[o.id]
                       IN  IF r.deleted
                           THEN [o EXCEPT !.action = "delete", !.data = NoData,
                                          !.cascade = FALSE]
                           ELSE [o EXCEPT !.action = "upsert", !.data = r.data,
                                          !.cascade = FALSE]
           new(k) == IF k \in Merged THEN whole(D.out[k]) ELSE D.out[k]
           all == [k \in DOMAIN D.out |-> new(k)]
           K == DOMAIN D.out \ Gone
           F == Without(D, K)
           q == [n \in DOMAIN F.out |-> new(Nth(K, n))]
           E == [F EXCEPT !.out = q]
<1>0. /\ D \in DeviceState(d) /\ DOMAIN D.out = 1..Len(D.out) /\ Len(D.out) \in Nat
      /\ \A k \in DOMAIN D.out : D.out[k] \in PendingOp(d) /\ D.out[k].id \in Id
  <2>1. D \in DeviceState(d)
    BY DEF Fine
  <2> QED  BY <2>1, OutFacts DEF PendingOp
<1>1. Coalesced(D) = E
  <2>1. Coalesced(D) = [D EXCEPT !.out = Kept(all, K)]
    BY DEF Coalesced
  <2>2. F = [D EXCEPT !.out = Kept(D.out, K)]
    BY DEF Without
  <2>3. DOMAIN F.out = 1..Cardinality(K)
    BY <1>0, <2>2 DEF Kept, DeviceState
  <2>4. \A n \in 1..Cardinality(K) : Nth(K, n) \in DOMAIN D.out
    <3>1. K \in SUBSET (1..Len(D.out)) /\ IsFiniteSet(1..Len(D.out))
      BY <1>0, FS_Interval
    <3>2. \A x \in K : x \in Nat
      BY <1>0
    <3> HIDE DEF K
    <3>3. IsFiniteSet(K)
      BY <3>1, FS_Subset
    <3> QED  BY <1>0, <3>1, <3>2, <3>3, NthFacts
  <2>5. Kept(all, K) = q
    <3>1. Kept(all, K) = [n \in 1..Cardinality(K) |-> all[Nth(K, n)]]
      BY DEF Kept
    <3>2. \A n \in 1..Cardinality(K) : all[Nth(K, n)] = new(Nth(K, n))
      BY <2>4
    <3> HIDE DEF K, new, all, F
    <3> QED  BY <2>3, <3>1, <3>2
  <2> HIDE DEF all, q, K, F
  <2>6. E = [D EXCEPT !.out = q]
    BY <1>0, <2>2 DEF DeviceState
  <2> QED  BY <2>1, <2>5, <2>6
<1>2. ASSUME NEW i \in Id
      PROVE  /\ \A k \in Unsent(i) : k \in Nat /\ k \in DOMAIN D.out /\ HasRow(D, i)
                                      /\ D.out[k].id = i
             /\ Sound(D, i)
  <2>1. Sound(D, i)
    BY DEF Fine
  <2> QED  BY <1>0, <2>1 DEF Sound, OpsOf
<1>3. ASSUME NEW i \in Id, OpsOf(D, i) # {}  PROVE OpsOf(D, i) \cap K # {}
  <2>1. CASE \E k \in OpsOf(D, i) : k \notin Gone
    BY <2>1 DEF OpsOf
  <2>2. CASE \A k \in OpsOf(D, i) : k \in Gone
    <3>1. Unsent(i) # {}
      BY <1>3, <2>2
    <3>2. Unsent(i) \subseteq Nat
      BY <1>2
    <3>3. PICK k \in Unsent(i) : \A j \in Unsent(i) : k <= j
      <4> HIDE DEF Unsent
      <4> QED  BY <3>1, <3>2, LeastElement
    <3>4. k \in OpsOf(D, i) /\ D.out[k].id = i /\ HasRow(D, i)
      BY <1>2
    <3>5. ~ \E j \in Unsent(i) : j < k
      BY <3>2, <3>3
    <3>6. k \notin Gone
      BY <3>4, <3>5
    <3> QED  BY <2>2, <3>4, <3>6
  <2> QED  BY <2>1, <2>2
<1>4. Thinned(D, F, d, K)
  <2>1. K \in SUBSET (DOMAIN D.out)
    OBVIOUS
  <2> HIDE DEF K
  <2> QED  BY <1>0, <2>1, WithoutFacts
<1>5. ASSUME NEW k \in K, k \in Merged, NEW j \in K, D.out[j].id = D.out[k].id
      PROVE  j = k \/ D.out[j].sent
  <2> DEFINE i == D.out[k].id
  <2>1. i \in Id /\ k \in Unsent(i)
    BY <1>0, <1>5 DEF OpsOf
  <2>2. j \in OpsOf(D, i) /\ (~ D.out[j].sent => j \in Unsent(i) /\ j \in Merged)
    BY <1>5 DEF OpsOf
  <2>3. HasRow(D, i) /\ j \in Nat /\ k \in Nat
    BY <1>0, <1>2, <2>1, <1>5
  <2>4. k \notin Gone /\ j \notin Gone
    BY <1>5
  <2>5. ~ \E l \in Unsent(i) : l < k
    BY <2>3, <2>4, <1>5
  <2>6. ~ D.out[j].sent => ~ \E l \in Unsent(i) : l < j
    BY <2>2, <2>3, <2>4, <1>5
  <2> HIDE DEF Unsent, Merged, Gone, K
  <2> QED  BY <2>1, <2>2, <2>3, <2>5, <2>6
<1>6. ASSUME NEW k \in DOMAIN D.out
      PROVE  /\ new(k) \in PendingOp(d) /\ new(k).opId = D.out[k].opId
             /\ new(k).id = D.out[k].id /\ new(k).sent = D.out[k].sent
             /\ new(k).sent => new(k) = D.out[k]
             /\ k \in Merged =>
                  LET r == D.row[D.out[k].id]
                  IN  /\ ~ new(k).sent
                      /\ r.deleted => new(k).action = "delete"
                      /\ ~ r.deleted => new(k).action = "upsert" /\ new(k).data = r.data
             /\ k \notin Merged => new(k) = D.out[k]
  <2> DEFINE o == D.out[k]
             r == D.row[o.id]
  <2>1. o \in PendingOp(d) /\ o.id \in Id /\ r.data \in Payload \cup {NoData}
    BY <1>0 DEF DeviceState, LocalRow
  <2>2. CASE k \in Merged
    <3>1. ~ o.sent
      BY <2>2
    <3>2. new(k) = IF r.deleted
                   THEN [o EXCEPT !.action = "delete", !.data = NoData, !.cascade = FALSE]
                   ELSE [o EXCEPT !.action = "upsert", !.data = r.data, !.cascade = FALSE]
      BY <2>2
    <3> HIDE DEF o, new, r, Merged
    <3>3. new(k) \in PendingOp(d) /\ new(k).opId = o.opId /\ new(k).id = o.id
          /\ new(k).sent = o.sent
      <4>1. CASE r.deleted
        <5>1. new(k) = [o EXCEPT !.action = "delete", !.data = NoData, !.cascade = FALSE]
          BY <3>2, <4>1
        <5> QED  BY <2>1, <5>1 DEF PendingOp
      <4>2. CASE ~ r.deleted
        <5>1. new(k) = [o EXCEPT !.action = "upsert", !.data = r.data, !.cascade = FALSE]
          BY <3>2, <4>2
        <5> QED  BY <2>1, <5>1 DEF PendingOp
      <4> QED  BY <4>1, <4>2
    <3>4. r.deleted => new(k).action = "delete"
      <4>1. ASSUME r.deleted
            PROVE  new(k) = [o EXCEPT !.action = "delete", !.data = NoData, !.cascade = FALSE]
        BY <3>2, <4>1
      <4> QED  BY <2>1, <4>1 DEF PendingOp
    <3>5. ~ r.deleted => new(k).action = "upsert" /\ new(k).data = r.data
      <4>1. ASSUME ~ r.deleted
            PROVE  new(k) = [o EXCEPT !.action = "upsert", !.data = r.data, !.cascade = FALSE]
        BY <3>2, <4>1
      <4> QED  BY <2>1, <4>1 DEF PendingOp
    <3> QED  BY <2>2, <3>1, <3>3, <3>4, <3>5 DEF o, r
  <2>3. CASE k \notin Merged
    <3>1. new(k) = o
      BY <2>3
    <3> HIDE DEF new
    <3> QED  BY <2>1, <2>3, <3>1
  <2> QED  BY <2>2, <2>3
<1> HIDE DEF F
<1>7. Fine(F, d) /\ Follows(D, F)
  <2>1. \A i \in Id : Sound(F, i) /\ Waiting(F, i) /\ Told(F, i)
    <3> TAKE i \in Id
    <3>1. Sound(D, i) /\ Waiting(D, i) /\ Told(D, i)
      BY DEF Fine
    <3>2. Sound(F, i) /\ Told(F, i)
      BY <1>4, <3>1 DEF Thinned, Told
    <3>3. OpsOf(D, i) # {} => OpsOf(F, i) # {}
      BY <1>3, <1>4 DEF Thinned
    <3>4. Waiting(F, i)
      BY <1>4, <3>1, <3>3 DEF Thinned, Waiting, LiveRow, HasRow, Clean
    <3> QED  BY <3>2, <3>4
  <2> QED  BY <1>4, <2>1 DEF Thinned, Fine
<1>8. /\ \A n \in DOMAIN F.out : Nth(K, n) \in K /\ F.out[n] = D.out[Nth(K, n)]
      /\ \A m, n \in DOMAIN F.out : Nth(K, m) <= Nth(K, n) => m <= n
      /\ F.row = D.row /\ F.conf = D.conf /\ F.made = D.made
      /\ F \in DeviceState(d)
  BY <1>4 DEF Thinned
<1>9. q \in Seq(PendingOp(d)) /\ DOMAIN q = DOMAIN F.out
  <2>1. DOMAIN F.out = 1..Len(F.out) /\ Len(F.out) \in Nat
    BY <1>8, OutFacts
  <2>2. \A n \in DOMAIN F.out : new(Nth(K, n)) \in PendingOp(d)
    BY <1>6, <1>8
  <2>3. q \in [1..Len(F.out) -> PendingOp(d)]
    <3> HIDE DEF new, K
    <3> QED  BY <2>1, <2>2
  <2>4. DOMAIN q = DOMAIN F.out
    OBVIOUS
  <2> HIDE DEF q
  <2> QED  BY <2>1, <2>3, <2>4, SeqDef
<1>a. \A n \in DOMAIN F.out : Nth(K, n) \in DOMAIN D.out /\ q[n] = new(Nth(K, n))
  BY <1>8
<1>b. \A k \in DOMAIN D.out : /\ new(k).opId = D.out[k].opId /\ new(k).id = D.out[k].id
                              /\ new(k).sent = D.out[k].sent
                              /\ new(k).sent => new(k) = D.out[k]
  <2> TAKE k \in DOMAIN D.out
  <2> HIDE DEF new, Merged
  <2> QED  BY <1>6
<1>10. \A n \in DOMAIN q : q[n].opId = F.out[n].opId /\ q[n].id = F.out[n].id
  <2> HIDE DEF new, q, K
  <2> QED  BY <1>8, <1>9, <1>a, <1>b
<1>11. ASSUME NEW i \in Id, NEW n \in OpsOf(F, i)
       PROVE  Fits(F.row[i], OpsOf(F, i), i, n, q[n])
  <2> DEFINE k == Nth(K, n)
  <2>1. n \in DOMAIN F.out /\ k \in K /\ F.out[n] = D.out[k] /\ F.out[n].id = i
    BY <1>8 DEF OpsOf
  <2>2. q[n] = new(k) /\ k \in DOMAIN D.out
    BY <2>1
  <2>3. Fits(F.row[i], OpsOf(F, i), i, n, F.out[n])
    BY <1>7, FitsAlready
  <2>4. CASE k \notin Merged
    BY <1>6, <2>1, <2>2, <2>3, <2>4
  <2>5. CASE k \in Merged
    <3>1. ASSUME NEW j \in OpsOf(F, i)  PROVE j <= n
      <4>1. j \in DOMAIN F.out /\ Nth(K, j) \in K /\ D.out[Nth(K, j)].id = i
            /\ F.out[j] = D.out[Nth(K, j)]
        BY <1>8 DEF OpsOf
      <4>2. Nth(K, j) = k \/ D.out[Nth(K, j)].sent
        BY <1>5, <2>1, <2>5, <4>1
      <4>3. CASE Nth(K, j) = k
        <5>1. Nth(K, j) <= Nth(K, n)
          <6> HIDE DEF K, k, q, new, Merged
          <6>1. k \in Nat
            BY <1>0, <2>2
          <6> QED  BY <4>3, <6>1 DEF k
        <5> QED  BY <1>8, <2>1, <4>1, <5>1
      <4>4. CASE D.out[Nth(K, j)].sent
        <5>1. Fits(F.row[i], OpsOf(F, i), i, j, F.out[j])
          BY <1>7, FitsAlready
        <5> QED  BY <4>1, <4>4, <5>1 DEF Fits
      <4> QED  BY <4>2, <4>3, <4>4
    <3>2. D.row[i].data \in PayloadOf(i)
      <4>1. k \in Unsent(i)
        BY <2>1, <2>5 DEF OpsOf
      <4>2. HasRow(D, i)
        BY <1>2, <4>1
      <4> QED  BY <4>2, RowOf
    <3>3. /\ ~ new(k).sent
          /\ D.row[i].deleted => new(k).action = "delete"
          /\ ~ D.row[i].deleted => new(k).action = "upsert" /\ new(k).data = D.row[i].data
      BY <1>6, <2>1, <2>2, <2>5
    <3>4. D.row[i].deleted \in BOOLEAN
      BY <1>0 DEF DeviceState, LocalRow
    <3> HIDE DEF new, Merged, q, K
    <3> QED  BY <1>8, <2>2, <3>1, <3>2, <3>3, <3>4 DEF Fits
  <2> QED  BY <2>4, <2>5
<1>12. \A n \in DOMAIN q : SameOp(q[n], F.out[n])
  <2> HIDE DEF new, q, K
  <2> QED  BY <1>8, <1>9, <1>a, <1>b DEF SameOp
<1> HIDE DEF q
<1>13. /\ Fine(E, d) /\ E.row = F.row /\ E.conf = F.conf /\ E.made = F.made /\ E.out = q
       /\ \A i \in Id : OpsOf(E, i) = OpsOf(F, i)
  <2> HIDE DEF E
  <2>1. E = [F EXCEPT !.out = q]
    BY DEF E
  <2> QED  BY <1>7, <1>9, <1>10, <1>11, <2>1, RewrittenFine
<1> HIDE DEF E
<1>14. Follows(F, E)
  <2>1. F.made \in Nat
    BY <1>8 DEF DeviceState
  <2>2. E.made >= F.made
    BY <1>13, <2>1
  <2> QED  BY <1>9, <1>12, <1>13, <2>2 DEF Follows
<1>15. Follows(D, E)
  BY <1>0, <1>7, <1>8, <1>13, <1>14, FollowsTrans DEF Fine
<1>16. ASSUME NEW i \in Id, NEW l \in OpsOf(D, i)
       PROVE  \E h \in OpsOf(D, i) \cap K : h <= l
  <2>1. \A k \in OpsOf(D, i) : k \in Nat /\ k \in DOMAIN D.out /\ D.out[k].id = i
    BY <1>0 DEF OpsOf
  <2>2. PICK h \in OpsOf(D, i) : \A k \in OpsOf(D, i) : h <= k
    <3>1. OpsOf(D, i) \subseteq Nat /\ OpsOf(D, i) # {}
      BY <1>16, <2>1
    <3> QED  BY <3>1, LeastElement
  <2>3. ~ \E k \in Unsent(i) : k < h
    BY <2>1, <2>2
  <2>4. HasRow(D, i)
    BY <1>2 DEF Sound
  <2>5. h \in K
    BY <2>1, <2>3, <2>4
  <2> QED  BY <2>2, <2>5
<1>17. ASSUME NEW i \in Id, NEW n \in OpsOf(F, i), E.out[n].action = "upsert"
       PROVE  F.out[n].action = "upsert"
  <2> DEFINE k == Nth(K, n)
  <2>1. n \in DOMAIN F.out /\ k \in DOMAIN D.out /\ F.out[n] = D.out[k] /\ D.out[k].id = i
        /\ E.out[n] = new(k)
    BY <1>8, <1>13, <1>a DEF OpsOf
  <2>2. D.out[k].action \in {"upsert", "delete"} /\ D.row[i].deleted \in BOOLEAN
    BY <1>0, <2>1 DEF PendingOp, DeviceState, LocalRow
  <2>3. D.out[k].action = "delete" => D.row[i].deleted
    <3>1. k \in OpsOf(D, i) /\ Sound(D, i)
      BY <1>2, <2>1 DEF OpsOf
    <3> HIDE DEF k
    <3> QED  BY <3>1 DEF Sound
  <2>4. /\ k \in Merged => (D.row[i].deleted => new(k).action = "delete")
        /\ k \notin Merged => new(k) = D.out[k]
    <3> HIDE DEF new, Merged, k
    <3> QED  BY <1>6, <2>1
  <2> HIDE DEF new, Merged, k
  <2> QED  BY <1>17, <2>1, <2>2, <2>3, <2>4
<1>18. ASSUME NEW i \in Id  PROVE FirstIds(E, i) \subseteq FirstIds(D, i)
  <2>1. K \in SUBSET (DOMAIN D.out)
    OBVIOUS
  <2>2. FirstIds(F, i) \subseteq FirstIds(D, i)
    <3> HIDE DEF K
    <3> QED  BY <1>0, <1>4, <1>16, <2>1, ThinnedFirsts
  <2>3. \A n \in OpsOf(F, i) : E.out[n].opId = F.out[n].opId
    BY <1>9, <1>10, <1>13 DEF OpsOf
  <2>4. FirstIds(E, i) \subseteq FirstIds(F, i)
    BY <1>13, <1>17, <2>3, RewrittenFirsts
  <2> QED  BY <2>2, <2>4
<1>19. ASSUME NEW n \in DOMAIN E.out
       PROVE  /\ Nth(K, n) \in K /\ Nth(K, n) \in DOMAIN D.out
              /\ F.out[n] = D.out[Nth(K, n)] /\ E.out[n] = new(Nth(K, n))
              /\ E.out[n].id = D.out[Nth(K, n)].id
              /\ E.out[n].sent = D.out[Nth(K, n)].sent
              /\ Nth(K, n) \in Merged => Whole(E.out[n], D.row[E.out[n].id])
              /\ Nth(K, n) \notin Merged => E.out[n] = F.out[n]
  <2>1. n \in DOMAIN F.out
    BY <1>9, <1>13
  <2>2. /\ Nth(K, n) \in K /\ Nth(K, n) \in DOMAIN D.out
        /\ F.out[n] = D.out[Nth(K, n)] /\ E.out[n] = new(Nth(K, n))
    BY <1>8, <1>13, <1>a, <2>1
  <2> DEFINE k == Nth(K, n)
  <2>3. k \in DOMAIN D.out
    BY <2>2
  <2> HIDE DEF new, Merged, K
  <2> QED  BY <1>6, <2>2, <2>3 DEF Whole
<1>20. \A i \in Id : \A n \in OpsOf(E, i) :
         n \in DOMAIN E.out /\ E.out[n].id = i /\ Nth(K, n) \in OpsOf(D, i)
  <2> HIDE DEF new, Merged, K
  <2> QED  BY <1>19 DEF OpsOf
<1>21. ASSUME NEW i \in Id, NEW j \in Unsent(i), NEW k \in Unsent(i), j # k
       PROVE  j \in Merged
  <2>1. IsFiniteSet(Unsent(i))
    <3>1. IsFiniteSet(OpsOf(D, i)) /\ Unsent(i) \subseteq OpsOf(D, i)
      BY <1>0, OutFacts
    <3> HIDE DEF Unsent
    <3> QED  BY <3>1, FS_Subset
  <2>2. Cardinality(Unsent(i)) > 1
    <3> DEFINE S == Unsent(i)
    <3> HIDE DEF S
    <3>1. j \in S /\ k \in S /\ IsFiniteSet(S)
      BY <2>1 DEF S
    <3> DEFINE R == S \ {j}
    <3>2. IsFiniteSet(R) /\ Cardinality(R) = Cardinality(S) - 1 /\ k \in R
      BY <1>21, <3>1, FS_RemoveElement
    <3> HIDE DEF R
    <3>3. IsFiniteSet(R \ {k}) /\ Cardinality(R \ {k}) = Cardinality(R) - 1
      BY <3>2, FS_RemoveElement
    <3>4. Cardinality(R \ {k}) \in Nat /\ Cardinality(S) \in Nat /\ Cardinality(R) \in Nat
      BY <3>1, <3>2, <3>3, FS_CardinalityType
    <3>5. Cardinality(S) > 1
      BY <3>2, <3>3, <3>4
    <3> QED  BY <3>5 DEF S
  <2>3. j \in DOMAIN D.out /\ D.out[j].id = i /\ ~ D.out[j].sent
    BY <1>2
  <2> QED  BY <2>2, <2>3
<1>22. ASSUME NEW i \in Id, NEW m \in OpsOf(E, i), NEW n \in OpsOf(E, i),
              ~ E.out[m].sent, ~ E.out[n].sent
       PROVE  m = n
  <2> DEFINE j == Nth(K, m)
             k == Nth(K, n)
  <2>1. /\ j \in K /\ j \in DOMAIN D.out /\ j \in OpsOf(D, i) /\ m \in DOMAIN F.out
        /\ k \in K /\ k \in DOMAIN D.out /\ k \in OpsOf(D, i) /\ n \in DOMAIN F.out
    BY <1>9, <1>13, <1>19, <1>20
  <2>2. ~ D.out[j].sent /\ ~ D.out[k].sent
    BY <1>19, <1>20, <1>22
  <2>3. j \in Unsent(i) /\ k \in Unsent(i) /\ D.out[j].id = D.out[k].id
    BY <2>1, <2>2 DEF OpsOf
  <2>4. j = k
    <3> HIDE DEF j, k, K, Merged, Unsent
    <3> QED  BY <1>5, <1>21, <2>1, <2>2, <2>3
  <2>5. j \in Nat /\ j <= k /\ k <= j /\ m \in Nat /\ n \in Nat
    <3>0. DOMAIN F.out = 1..Len(F.out) /\ Len(F.out) \in Nat
      BY <1>8, OutFacts
    <3> HIDE DEF j, k
    <3>1. j \in Nat /\ m \in Nat /\ n \in Nat
      BY <1>0, <2>1, <3>0
    <3> QED  BY <2>4, <3>1
  <2>6. m <= n /\ n <= m
    BY <1>8, <2>1, <2>5
  <2> QED  BY <2>5, <2>6
<1>23. ASSUME NEW i \in Id, ~ (OpsOf(D, i) \subseteq K)
       PROVE  \E n \in OpsOf(E, i) : Whole(E.out[n], D.row[i])
  <2>1. PICK k \in OpsOf(D, i) : k \in Gone
    BY <1>23 DEF OpsOf
  <2>2. /\ k \in Unsent(i) /\ D.out[k].id = i /\ Cardinality(Unsent(i)) > 1
    BY <2>1 DEF OpsOf
  <2>3. Unsent(i) \subseteq Nat /\ Unsent(i) # {}
    BY <1>2, <2>2
  <2>4. PICK h \in Unsent(i) : \A j \in Unsent(i) : h <= j
    <3> HIDE DEF Unsent
    <3> QED  BY <2>3, LeastElement
  <2>5. h \in OpsOf(D, i) /\ h \in DOMAIN D.out /\ D.out[h].id = i /\ HasRow(D, i)
        /\ ~ D.out[h].sent
    BY <1>2
  <2>6. ~ \E j \in Unsent(i) : j < h
    BY <2>3, <2>4
  <2>7. h \in Merged /\ h \in K
    BY <2>2, <2>5, <2>6
  <2>8. PICK n \in DOMAIN F.out : Nth(K, n) = h
    <3> HIDE DEF K
    <3> QED  BY <1>4, <2>7 DEF Thinned
  <2>9. n \in DOMAIN E.out /\ E.out[n].id = i /\ Whole(E.out[n], D.row[E.out[n].id])
    <3>1. n \in DOMAIN E.out
      BY <1>9, <1>13, <2>8
    <3> HIDE DEF new, Merged, K
    <3> QED  BY <1>19, <2>5, <2>7, <2>8, <3>1
  <2> QED  BY <2>9 DEF OpsOf
<1>24. Coalesces(D, F, E, d, K)
  <2>1. \A n \in DOMAIN E.out :
          /\ E.out[n].sent = F.out[n].sent
          /\ E.out[n] = F.out[n] \/ Whole(E.out[n], D.row[E.out[n].id])
    <3> HIDE DEF new, Merged, K
    <3> QED  BY <1>19
  <2> HIDE DEF K, Unsent, Merged, Gone, new
  <2> QED  BY <1>4, <1>8, <1>9, <1>13, <1>16, <1>22, <1>23, <2>1 DEF Coalesces
<1>25. \E J \in SUBSET (DOMAIN D.out) : \E G : Coalesces(D, G, E, d, J)
  <2>1. K \in SUBSET (DOMAIN D.out)
    OBVIOUS
  <2> HIDE DEF K
  <2> QED  BY <1>24, <2>1
<1> QED  BY <1>1, <1>8, <1>13, <1>15, <1>18, <1>25 DEF Leads, HasRow

\* What a selection leaves: an operation of the batch is marked as sent, and
\* no other one is touched but for what coalescing does.
Selects(D, E, batch, d) ==
  /\ Fine(E, d) /\ E.row = D.row /\ E.conf = D.conf /\ E.made = D.made
  /\ \A i \in Id : FirstIds(E, i) \subseteq FirstIds(D, i)
  /\ batch \in Seq(WireOp(d))
  /\ \A k \in DOMAIN E.out : \E j \in DOMAIN D.out :
       LET o == E.out[k]
           p == D.out[j]
       IN  /\ o.opId = p.opId /\ o.id = p.id
           /\ p.sent => SameOp(o, p)
           /\ o.sent /\ ~ p.sent => \E n \in DOMAIN batch : batch[n].opId = o.opId
  /\ \A n \in DOMAIN batch : \E k \in DOMAIN E.out :
       LET w == batch[n]
           o == E.out[k]
       IN  /\ o.sent /\ o.opId = w.opId /\ o.id = w.id /\ o.action = w.action
           /\ o.base = w.base
           /\ w.action = "upsert" => w.data \in PayloadOf(w.id)

\* From the coalesced C: the operations of the batch are the first ones of their
\* records, and sent (F); no operation goes.
Freezes(C, F, E, batch, d) ==
  /\ F \in DeviceState(d) /\ F.row = C.row /\ F.conf = C.conf
  /\ DOMAIN F.out = DOMAIN C.out /\ \A i \in Id : OpsOf(F, i) = OpsOf(C, i)
  /\ \A k \in DOMAIN C.out : Resent(F.out[k], C.out[k])
  /\ Thinned(F, E, d, DOMAIN C.out)
  /\ \A n \in DOMAIN batch : \E k \in DOMAIN C.out : \E m \in DOMAIN E.out :
       /\ \A j \in OpsOf(C, C.out[k].id) : k <= j
       /\ batch[n] = Wire(C, C.out[k]) /\ E.out[m] = F.out[k]

LEMMA SelectedFine ==
  ASSUME NEW d, NEW D, Fine(D, d), NEW due
  PROVE  /\ Selects(D, Selected(D, due).dev, Selected(D, due).batch, d)
         /\ \E F : Freezes(Coalesced(D), F, Selected(D, due).dev, Selected(D, due).batch, d)
<1> DEFINE C == Coalesced(D)
           First == {k \in Firsts(C) : C.conf[C.out[k].id].kind # "version"}
           Gone == {k \in First : ~ HasRow(C, C.out[k].id)}
           Go == {k \in First \ Gone : C.out[k].tries = 0 \/ C.out[k].opId \in due}
           new(k) == IF k \in Go THEN Frozen(C, C.out[k]) ELSE C.out[k]
           q == [k \in DOMAIN C.out |-> new(k)]
           K == DOMAIN C.out \ Gone
           F == [C EXCEPT !.out = q]
           E == Without(F, K)
           wires == [k \in DOMAIN C.out |-> Wire(C, C.out[k])]
           batch == Kept(wires, Go)
<1>1. /\ Leads(D, C, d, {}) /\ C.row = D.row /\ C.conf = D.conf /\ C.made = D.made
      /\ \A i \in Id : FirstIds(C, i) \subseteq FirstIds(D, i)
  BY CoalescedFine
<1> HIDE DEF C
<1>2. /\ C \in DeviceState(d) /\ Fine(C, d) /\ DOMAIN C.out = 1..Len(C.out)
      /\ Len(C.out) \in Nat
      /\ \A k \in DOMAIN C.out : C.out[k] \in PendingOp(d) /\ C.out[k].id \in Id
  <2>1. C \in DeviceState(d) /\ Fine(C, d)
    BY <1>1 DEF Fine, Leads
  <2> QED  BY <2>1, OutFacts DEF PendingOp
<1>3. /\ Selected(D, due).dev = E
      /\ Selected(D, due).batch = batch
  <2>1. /\ Selected(D, due).dev = [C EXCEPT !.out = Kept(q, K)]
        /\ Selected(D, due).batch = batch
    BY DEF Selected, C
  <2> HIDE DEF q, K
  <2>2. E = [F EXCEPT !.out = Kept(q, K)] /\ F.out = q
    BY <1>2 DEF Without, DeviceState
  <2> DEFINE z == Kept(q, K)
  <2> HIDE DEF z
  <2>3. [F EXCEPT !.out = z] = [C EXCEPT !.out = z]
    BY <1>2 DEF DeviceState
  <2> QED  BY <2>1, <2>2, <2>3 DEF z
<1>4. \A k \in DOMAIN C.out : HasRow(C, C.out[k].id)
  <2> TAKE k \in DOMAIN C.out
  <2>1. k \in OpsOf(C, C.out[k].id) /\ C.out[k].id \in Id
    BY <1>2 DEF OpsOf
  <2> QED  BY <1>2, <2>1, RowOf
<1>5. /\ Go \subseteq DOMAIN C.out
      /\ \A k \in Go : \A j \in OpsOf(C, C.out[k].id) : k <= j
  <2>1. Go \subseteq Firsts(C)
    OBVIOUS
  <2>2. Firsts(C) \subseteq DOMAIN C.out
    BY DEF Firsts
  <2>3. \A k \in Firsts(C) : \A j \in OpsOf(C, C.out[k].id) : k <= j
    BY <1>2 DEF Firsts, OpsOf
  <2> QED  BY <2>1, <2>2, <2>3
<1>6. Gone = {}
  BY <1>4 DEF Firsts
<1>7. K = DOMAIN C.out
  <2> HIDE DEF Gone
  <2> QED  BY <1>6
<1> HIDE DEF Go, K
<1>8. ASSUME NEW k \in DOMAIN C.out
      PROVE  LET o == C.out[k]
             IN  /\ new(k) \in PendingOp(d) /\ new(k).opId = o.opId /\ new(k).id = o.id
                 /\ new(k).action = o.action /\ new(k).data = o.data
                 /\ k \notin Go => new(k) = o
                 /\ k \in Go => /\ new(k).sent
                                /\ new(k).base = IF o.sent THEN o.base ELSE C.row[o.id].sv
  <2> DEFINE o == C.out[k]
             v == IF o.sent THEN o.base ELSE C.row[o.id].sv
  <2>1. o \in PendingOp(d) /\ o.id \in Id /\ v \in Nat
    BY <1>2 DEF DeviceState, LocalRow, PendingOp
  <2>2. CASE k \in Go
    <3>1. new(k) = [o EXCEPT !.sent = TRUE, !.tries = 1, !.base = v]
      BY <2>1, <2>2 DEF Frozen
    <3> HIDE DEF new, o, v
    <3>0. 1 \in Nat /\ o \in PendingOp(d) /\ v \in Nat
      BY <2>1
    <3>2. new(k) \in PendingOp(d)
      BY <3>0, <3>1 DEF PendingOp
    <3>3. /\ new(k).opId = o.opId /\ new(k).id = o.id
          /\ new(k).action = o.action /\ new(k).data = o.data
          /\ new(k).sent /\ new(k).base = v
      BY <3>0, <3>1 DEF PendingOp
    <3> QED  BY <2>2, <3>2, <3>3 DEF o, v
  <2>3. CASE k \notin Go
    <3>1. new(k) = o
      BY <2>3
    <3> HIDE DEF new
    <3> QED  BY <2>1, <2>3, <3>1
  <2> QED  BY <2>2, <2>3
<1> HIDE DEF new
<1>9. q \in Seq(PendingOp(d)) /\ DOMAIN q = DOMAIN C.out
  <2>1. q \in [1..Len(C.out) -> PendingOp(d)]
    BY <1>2, <1>8
  <2>2. DOMAIN q = DOMAIN C.out
    OBVIOUS
  <2> HIDE DEF q
  <2> QED  BY <1>2, <2>1, <2>2, SeqDef
<1>10. \A k \in DOMAIN C.out : q[k] = new(k)
  OBVIOUS
<1> HIDE DEF q
<1>11. \A i \in Id : \A k \in OpsOf(C, i) : Fits(C.row[i], OpsOf(C, i), i, k, q[k])
  <2> TAKE i \in Id
  <2> TAKE k \in OpsOf(C, i)
  <2>1. Fits(C.row[i], OpsOf(C, i), i, k, C.out[k]) /\ k \in DOMAIN C.out /\ C.out[k].id = i
    BY <1>2, FitsAlready DEF OpsOf
  <2>2. k \notin Go => q[k] = C.out[k]
    BY <1>8, <1>10, <2>1
  <2>3. k \in Go => Fits(C.row[i], OpsOf(C, i), i, k, q[k])
    <3> SUFFICES ASSUME k \in Go  PROVE Fits(C.row[i], OpsOf(C, i), i, k, q[k])
      OBVIOUS
    <3>1. /\ q[k].action = C.out[k].action /\ q[k].data = C.out[k].data /\ q[k].sent
          /\ q[k].base = IF C.out[k].sent THEN C.out[k].base ELSE C.row[i].sv
      BY <1>8, <1>10, <2>1
    <3>2. \A j \in OpsOf(C, i) : k <= j
      BY <1>5, <2>1
    <3> QED  BY <2>1, <3>1, <3>2 DEF Fits
  <2> QED  BY <2>1, <2>2, <2>3
<1>12. /\ Fine(F, d) /\ F.row = C.row /\ F.conf = C.conf /\ F.made = C.made /\ F.out = q
       /\ \A i \in Id : OpsOf(F, i) = OpsOf(C, i)
  <2>1. \A k \in DOMAIN q : q[k].opId = C.out[k].opId /\ q[k].id = C.out[k].id
    BY <1>8, <1>9, <1>10
  <2> HIDE DEF F
  <2>2. F = [C EXCEPT !.out = q]
    BY DEF F
  <2> QED  BY <1>2, <1>9, <1>11, <2>1, <2>2, RewrittenFine
<1> HIDE DEF F
<1>13. Thinned(F, E, d, K)
  <2>1. F \in DeviceState(d) /\ K \in SUBSET (DOMAIN F.out)
    BY <1>7, <1>9, <1>12 DEF Fine
  <2> QED  BY <2>1, WithoutFacts
<1> HIDE DEF E
<1>14. /\ Fine(E, d) /\ E.row = D.row /\ E.conf = D.conf /\ E.made = D.made
       /\ \A n \in DOMAIN E.out : Nth(K, n) \in DOMAIN C.out /\ E.out[n] = q[Nth(K, n)]
       /\ \A k \in DOMAIN C.out : \E n \in DOMAIN E.out : Nth(K, n) = k
  <2>1. \A i \in Id : OpsOf(F, i) \subseteq K
    BY <1>7, <1>12 DEF OpsOf
  <2>2. \A i \in Id : Sound(E, i) /\ Waiting(E, i) /\ Told(E, i)
    BY <1>12, <1>13, <2>1 DEF Thinned, Fine, Told
  <2>3. Fine(E, d)
    BY <1>12, <1>13, <2>2 DEF Thinned, Fine
  <2> QED  BY <1>1, <1>7, <1>12, <1>13, <2>3 DEF Thinned
<1>15. /\ wires \in Seq(WireOp(d)) /\ DOMAIN wires = DOMAIN C.out
       /\ \A k \in DOMAIN C.out : wires[k] = Wire(C, C.out[k])
  <2>1. \A k \in DOMAIN C.out : Wire(C, C.out[k]) \in WireOp(d)
    <3> TAKE k \in DOMAIN C.out
    <3> DEFINE o == C.out[k]
    <3>1. /\ o \in PendingOp(d) /\ C.row[o.id].sv \in Nat
          /\ C.row[o.id].data \in Payload \cup {NoData}
      BY <1>2 DEF DeviceState, LocalRow
    <3> HIDE DEF o
    <3>2. Wire(C, o) \in WireOp(d)
      BY <3>1 DEF Wire, WireOp, PendingOp
    <3> QED  BY <3>2 DEF o
  <2>2. wires \in [1..Len(C.out) -> WireOp(d)]
    BY <1>2, <2>1
  <2>3. DOMAIN wires = DOMAIN C.out /\ \A k \in DOMAIN C.out : wires[k] = Wire(C, C.out[k])
    OBVIOUS
  <2> HIDE DEF wires
  <2> QED  BY <1>2, <2>2, <2>3, SeqDef
<1> HIDE DEF wires
<1>16. /\ batch \in Seq(WireOp(d))
       /\ \A n \in DOMAIN batch : Nth(Go, n) \in Go /\ batch[n] = wires[Nth(Go, n)]
       /\ \A k \in Go : \E n \in DOMAIN batch : Nth(Go, n) = k
  <2>1. Go \in SUBSET (DOMAIN wires)
    BY <1>5, <1>15
  <2> QED  BY <1>15, <2>1, KeptFacts
<1> HIDE DEF batch
<1>17. ASSUME NEW k \in Go
       PROVE  LET w == wires[k]
                  o == q[k]
              IN  /\ o.sent /\ o.opId = w.opId /\ o.id = w.id /\ o.action = w.action
                  /\ o.base = w.base
                  /\ w.action = "upsert" => w.data \in PayloadOf(w.id)
  <2> DEFINE p == C.out[k]
             i == p.id
  <2>1. k \in DOMAIN C.out /\ i \in Id /\ p \in PendingOp(d) /\ k \in OpsOf(C, i)
    BY <1>2, <1>5 DEF OpsOf
  <2>2. wires[k] = Wire(C, p)
    BY <1>15, <2>1
  <2>3. /\ q[k].opId = p.opId /\ q[k].id = p.id /\ q[k].action = p.action /\ q[k].sent
        /\ q[k].base = IF p.sent THEN p.base ELSE C.row[i].sv
    BY <1>8, <1>10, <2>1
  <2>4. Fits(C.row[i], OpsOf(C, i), i, k, p)
    BY <1>2, <2>1, FitsAlready
  <2>5. C.row[i].data \in PayloadOf(i)
    BY <1>2, <1>4, <2>1, RowOf
  <2> QED  BY <2>2, <2>3, <2>4, <2>5 DEF Wire, Fits
<1>18. ASSUME NEW k \in DOMAIN E.out
       PROVE  \E j \in DOMAIN D.out :
                LET o == E.out[k]
                    p == D.out[j]
                IN  /\ o.opId = p.opId /\ o.id = p.id
                    /\ p.sent => SameOp(o, p)
                    /\ o.sent /\ ~ p.sent => \E n \in DOMAIN batch : batch[n].opId = o.opId
  <2> DEFINE m == Nth(K, k)
  <2>1. m \in DOMAIN C.out /\ E.out[k] = q[m]
    BY <1>14
  <2> HIDE DEF m
  <2>2. PICK j \in DOMAIN D.out : SameOp(C.out[m], D.out[j])
    <3>1. ~ (~ C.out[m].sent /\ C.out[m].opId[2] > D.made)
      <4>1. C.out[m].opId[2] \in 1..C.made /\ C.made \in Nat
        BY <1>2, <2>1 DEF Fine, Numbered, DeviceState
      <4> QED  BY <1>1, <4>1
    <3> QED  BY <1>1, <2>1, <3>1 DEF Leads, Follows
  <2> DEFINE o == E.out[k]
             c == C.out[m]
             p == D.out[j]
  <2>3. /\ o.opId = c.opId /\ o.id = c.id /\ o.action = c.action /\ o.data = c.data
        /\ m \notin Go => o = c
        /\ m \in Go => /\ o.sent
                       /\ o.base = IF c.sent THEN c.base ELSE C.row[c.id].sv
    BY <1>8, <1>10, <2>1
  <2>4. m \in Go => \E n \in DOMAIN batch : batch[n].opId = o.opId
    BY <1>16, <1>17, <2>1
  <2>5. p.sent => SameOp(o, p)
    BY <2>2, <2>3 DEF SameOp
  <2>6. o.opId = p.opId /\ o.id = p.id
    BY <2>2, <2>3 DEF SameOp
  <2>7. o.sent /\ ~ p.sent => m \in Go
    BY <2>2, <2>3 DEF SameOp
  <2> HIDE DEF o, p
  <2>8. /\ o.opId = p.opId /\ o.id = p.id
        /\ p.sent => SameOp(o, p)
        /\ o.sent /\ ~ p.sent => \E n \in DOMAIN batch : batch[n].opId = o.opId
    BY <2>4, <2>5, <2>6, <2>7
  <2> QED  BY <2>8 DEF o, p
<1>19. ASSUME NEW n \in DOMAIN batch
       PROVE  \E k \in DOMAIN E.out :
                LET w == batch[n]
                    o == E.out[k]
                IN  /\ o.sent /\ o.opId = w.opId /\ o.id = w.id /\ o.action = w.action
                    /\ o.base = w.base
                    /\ w.action = "upsert" => w.data \in PayloadOf(w.id)
  <2> DEFINE g == Nth(Go, n)
  <2>1. g \in Go /\ batch[n] = wires[g] /\ g \in DOMAIN C.out
    BY <1>5, <1>16
  <2> HIDE DEF g
  <2>2. PICK k \in DOMAIN E.out : Nth(K, k) = g
    BY <1>14, <2>1
  <2>3. E.out[k] = q[g]
    BY <1>14, <2>2
  <2> QED  BY <1>17, <2>1, <2>3
<1>20. ASSUME NEW i \in Id  PROVE FirstIds(E, i) \subseteq FirstIds(D, i)
  <2>1. FirstIds(E, i) \subseteq FirstIds(F, i)
    <3>1. K \in SUBSET (DOMAIN F.out) /\ OpsOf(F, i) \subseteq K
      BY <1>7, <1>9, <1>12 DEF OpsOf
    <3> QED  BY <1>12, <1>13, <3>1, ThinnedElsewhere DEF Fine
  <2>2. FirstIds(F, i) \subseteq FirstIds(C, i)
    <3>1. \A k \in OpsOf(C, i) : /\ F.out[k].opId = C.out[k].opId
                                 /\ F.out[k].action = C.out[k].action
      BY <1>8, <1>10, <1>12 DEF OpsOf
    <3> QED  BY <1>12, <3>1, RewrittenFirsts
  <2> QED  BY <1>1, <2>1, <2>2
<1>21. \E G : Freezes(C, G, E, batch, d)
  <2>1. \A k \in DOMAIN C.out : Resent(F.out[k], C.out[k])
    <3> TAKE k \in DOMAIN C.out
    <3>1. F.out[k] = new(k)
      BY <1>10, <1>12
    <3> QED  BY <1>8, <3>1 DEF Resent
  <2>2. ASSUME NEW n \in DOMAIN batch
        PROVE  \E k \in DOMAIN C.out : \E m \in DOMAIN E.out :
                 /\ \A j \in OpsOf(C, C.out[k].id) : k <= j
                 /\ batch[n] = Wire(C, C.out[k]) /\ E.out[m] = F.out[k]
    <3> DEFINE g == Nth(Go, n)
    <3>1. g \in Go /\ batch[n] = wires[g] /\ g \in DOMAIN C.out
      BY <1>5, <1>16
    <3> HIDE DEF g
    <3>2. PICK m \in DOMAIN E.out : Nth(K, m) = g
      BY <1>14, <3>1
    <3>3. E.out[m] = F.out[g] /\ batch[n] = Wire(C, C.out[g])
      BY <1>12, <1>14, <1>15, <3>1, <3>2
    <3>4. \A j \in OpsOf(C, C.out[g].id) : g <= j
      BY <1>5, <3>1
    <3> QED  BY <3>1, <3>3, <3>4
  <2>3. Freezes(C, F, E, batch, d)
    <3>1. F \in DeviceState(d) /\ F.row = C.row /\ F.conf = C.conf
          /\ DOMAIN F.out = DOMAIN C.out /\ \A i \in Id : OpsOf(F, i) = OpsOf(C, i)
      BY <1>9, <1>12 DEF Fine
    <3>2. Thinned(F, E, d, DOMAIN C.out)
      BY <1>7, <1>13
    <3> QED  BY <2>1, <2>2, <3>1, <3>2 DEF Freezes
  <2> QED  BY <2>3
<1> QED  BY <1>3, <1>14, <1>16, <1>18, <1>19, <1>20, <1>21 DEF Selects, C

-----------------------------------------------------------------------------
(* The folds: what every step keeps, the whole fold keeps.                 *)

LEMMA Prefix ==
  ASSUME NEW n \in Nat, NEW k \in Nat, k + 1 <= n
  PROVE  /\ 1..(k + 1) \in SUBSET (1..n) /\ 1..(k + 1) # {}
         /\ (1..(k + 1)) \ {k + 1} = 1..k /\ k + 1 \in 1..n
         /\ Max(1..(k + 1)) = k + 1
<1>1. k + 1 \in 1..n /\ k + 1 \in 1..(k + 1)
  OBVIOUS
<1>2. \A x \in 1..(k + 1) : x \in 1..n
  OBVIOUS
<1>3. \A x : x \in (1..(k + 1)) \ {k + 1} <=> x \in 1..k
  OBVIOUS
<1>4. Max(1..(k + 1)) = k + 1
  BY MaxFacts
<1> QED  BY <1>1, <1>2, <1>3, <1>4

LEMMA PageKeeps ==
  ASSUME NEW page, NEW n \in Nat, DOMAIN page = 1..n, NEW X, NEW D \in X,
         \A E \in X : \A k \in 1..n : ChangeTakenIn(E, page[k]) \in X
  PROVE  PageTakenIn(D, page) \in X
<1> DEFINE step == [p \in X \X (1..n) |-> ChangeTakenIn(p[1], page[p[2]])]
           Iter(g) == g = [t \in SUBSET (1..n) |->
                             IF t = {} THEN D
                             ELSE ChangeTakenIn(g[t \ {Max(t)}], page[Max(t)])]
           iter == CHOOSE g : Iter(g)
<1>1. \E g : Iter(g)
  <2>1. step \in [X \X (1..n) -> X]
    OBVIOUS
  <2>a. PICK f \in [SUBSET (1..n) -> X] : Iterates(f, n, D, step)
    <3> HIDE DEF step
    <3> QED  BY <2>1, IterExists
  <2>2. \A t \in SUBSET (1..n) :
          f[t] = IF t = {} THEN D ELSE step[<<f[t \ {Max(t)}], Max(t)>>]
    BY <2>a DEF Iterates
  <2>3. ASSUME NEW t \in SUBSET (1..n), t # {}
        PROVE  step[<<f[t \ {Max(t)}], Max(t)>>] = ChangeTakenIn(f[t \ {Max(t)}], page[Max(t)])
    <3>1. Max(t) \in 1..n
      BY <2>3, MaxFacts
    <3>2. f[t \ {Max(t)}] \in X
      BY <2>2
    <3> QED  BY <3>1, <3>2
  <2>4. Iter(f)
    <3>1. f = [t \in SUBSET (1..n) |-> f[t]]
      BY <2>2
    <3>2. \A t \in SUBSET (1..n) :
            f[t] = IF t = {} THEN D ELSE ChangeTakenIn(f[t \ {Max(t)}], page[Max(t)])
      BY <2>2, <2>3
    <3> HIDE DEF step
    <3> QED  BY <3>1, <3>2
  <2> QED  BY <2>4
<1>2. PageTakenIn(D, page) = iter[1..n]
  BY DEF PageTakenIn, FoldLeft, MapThenFoldSet
<1>3. Iter(iter)
  <2> HIDE DEF Iter
  <2> QED  BY <1>1
<1> HIDE DEF iter
<1>4. \A t \in SUBSET (1..n) :
        iter[t] = IF t = {} THEN D ELSE ChangeTakenIn(iter[t \ {Max(t)}], page[Max(t)])
  BY <1>3
<1> DEFINE T == {k \in Nat : k <= n => iter[1..k] \in X}
<1>5. 0 \in T
  <2>1. 1..0 = {} /\ {} \in SUBSET (1..n)
    OBVIOUS
  <2> QED  BY <1>4, <2>1
<1>6. ASSUME NEW k \in T  PROVE k + 1 \in T
  <2> SUFFICES ASSUME k + 1 <= n  PROVE iter[1..(k + 1)] \in X
    OBVIOUS
  <2>1. k \in Nat /\ iter[1..k] \in X
    OBVIOUS
  <2>2. /\ 1..(k + 1) \in SUBSET (1..n) /\ 1..(k + 1) # {}
        /\ (1..(k + 1)) \ {k + 1} = 1..k /\ k + 1 \in 1..n
    BY <2>1, Prefix
  <2>3. Max(1..(k + 1)) = k + 1
    BY <2>1, MaxFacts
  <2>4. iter[1..(k + 1)] = ChangeTakenIn(iter[1..k], page[k + 1])
    BY <1>4, <2>2, <2>3
  <2> QED  BY <2>1, <2>2, <2>4
<1>7. T = Nat
  <2>1. T \subseteq Nat
    OBVIOUS
  <2> HIDE DEF T
  <2> QED  BY <1>5, <1>6, <2>1, Induction
<1>8. iter[1..n] \in X
  <2>1. n \in T
    BY <1>7
  <2> QED  BY <2>1
<1> QED  BY <1>2, <1>8

\* What holds of the first result of a fold and goes from one to the next holds
\* of the last.
LEMMA Climbs ==
  ASSUME NEW n \in Nat, NEW f, NEW Y, f[{}] \in Y[0],
         \A k \in Nat : k + 1 <= n /\ f[1..k] \in Y[k] => f[1..(k + 1)] \in Y[k + 1]
  PROVE  f[1..n] \in Y[n]
<1> DEFINE T == {k \in Nat : k <= n => f[1..k] \in Y[k]}
<1>1. 0 \in T
  <2>1. 1..0 = {}
    OBVIOUS
  <2> QED  BY <2>1
<1>2. ASSUME NEW k \in T  PROVE k + 1 \in T
  OBVIOUS
<1>3. T = Nat
  <2>1. T \subseteq Nat
    OBVIOUS
  <2> HIDE DEF T
  <2> QED  BY <1>1, <1>2, <2>1, Induction
<1> QED  BY <1>3

-----------------------------------------------------------------------------
(* The results of a push.                                                  *)

AllConflicted(D, batch, answers) ==
  FoldLeftDomain(LAMBDA E, k : IF answers[k].status = "conflict"
                               THEN Conflicted(E, batch[k], answers[k]) ELSE E,
                 D, batch)

AllConfirmed(D, batch, answers) ==
  FoldLeftDomain(LAMBDA E, k : IF answers[k].status = "applied"
                               THEN Confirmed(E, batch[k].opId, answers[k].ver) ELSE E,
                 D, batch)

LEMMA InTwoPasses ==
  ASSUME NEW D, NEW batch, NEW answers
  PROVE  PushTakenIn(D, batch, answers) =
           AllConfirmed(AllConflicted(D, batch, answers), batch, answers)
BY DEF PushTakenIn, AllConfirmed, AllConflicted, FoldLeftDomain

LEMMA ConflictsKeep ==
  ASSUME NEW batch, NEW answers, NEW n \in Nat, DOMAIN batch = 1..n, NEW X, NEW D \in X,
         \A E \in X : \A k \in 1..n :
           answers[k].status = "conflict" => Conflicted(E, batch[k], answers[k]) \in X
  PROVE  AllConflicted(D, batch, answers) \in X
<1> DEFINE idx == [i \in DOMAIN batch |-> i]
           op(E, k) == IF answers[k].status = "conflict" THEN Conflicted(E, batch[k], answers[k]) ELSE E
           step == [p \in X \X (1..n) |-> op(p[1], p[2])]
           Iter(g) == g = [t \in SUBSET (DOMAIN idx) |->
                             IF t = {} THEN D ELSE op(g[t \ {Max(t)}], idx[Max(t)])]
           iter == CHOOSE g : Iter(g)
<1>1. AllConflicted(D, batch, answers) = iter[DOMAIN idx]
  BY DEF AllConflicted, FoldLeftDomain, FoldLeft, MapThenFoldSet
<1>2. DOMAIN idx = 1..n /\ \A k \in 1..n : idx[k] = k
  OBVIOUS
<1>3. \A E \in X : \A k \in 1..n : op(E, k) \in X
  OBVIOUS
<1>4. step \in [X \X (1..n) -> X] /\ \A E \in X : \A k \in 1..n : step[<<E, k>>] = op(E, k)
  <2> HIDE DEF op
  <2> QED  BY <1>3
<1> HIDE DEF idx, op, step
<1>5. \E g : Iter(g)
  <2>1. PICK f \in [SUBSET (1..n) -> X] : Iterates(f, n, D, step)
    BY <1>4, IterExists
  <2>2. \A t \in SUBSET (1..n) :
          f[t] = IF t = {} THEN D ELSE step[<<f[t \ {Max(t)}], Max(t)>>]
    BY <2>1 DEF Iterates
  <2>3. ASSUME NEW t \in SUBSET (1..n), t # {}
        PROVE  step[<<f[t \ {Max(t)}], Max(t)>>] = op(f[t \ {Max(t)}], idx[Max(t)])
    <3>1. Max(t) \in 1..n
      BY <2>3, MaxFacts
    <3>2. f[t \ {Max(t)}] \in X
      BY <2>1
    <3>3. idx[Max(t)] = Max(t)
      BY <3>1, <1>2
    <3> QED  BY <3>1, <3>2, <3>3, <1>4
  <2>4. \A t \in SUBSET (1..n) :
          f[t] = IF t = {} THEN D ELSE op(f[t \ {Max(t)}], idx[Max(t)])
    BY <2>2, <2>3
  <2>5. f = [t \in SUBSET (1..n) |-> f[t]]
    BY <2>1
  <2>6. f = [t \in SUBSET (1..n) |->
               IF t = {} THEN D ELSE op(f[t \ {Max(t)}], idx[Max(t)])]
    BY <2>4, <2>5
  <2>7. Iter(f)
    BY <2>6, <1>2
  <2> QED
    <3> HIDE DEF Iter
    <3> QED  BY <2>7
<1>6. Iter(iter)
  <2> HIDE DEF Iter
  <2> QED  BY <1>5
<1> HIDE DEF iter
<1>7. \A t \in SUBSET (1..n) :
        iter[t] = IF t = {} THEN D ELSE op(iter[t \ {Max(t)}], idx[Max(t)])
  BY <1>6, <1>2
<1> DEFINE Y == [k \in 0..n |-> X]
<1>8. iter[{}] \in Y[0]
  <2>1. {} \in SUBSET (1..n) /\ 0 \in 0..n
    OBVIOUS
  <2>2. iter[{}] = D
    BY <1>7, <2>1
  <2> QED  BY <2>1, <2>2
<1>9. ASSUME NEW k \in Nat, k + 1 <= n, iter[1..k] \in Y[k]
      PROVE  iter[1..(k + 1)] \in Y[k + 1]
  <2>1. /\ 1..(k + 1) \in SUBSET (1..n) /\ 1..(k + 1) # {}
        /\ (1..(k + 1)) \ {k + 1} = 1..k /\ k + 1 \in 1..n
        /\ Max(1..(k + 1)) = k + 1
    BY <1>9, Prefix
  <2>2. iter[1..(k + 1)] = op(iter[1..k], k + 1)
    <3>1. iter[1..(k + 1)] = op(iter[1..k], idx[k + 1])
      <4> HIDE DEF op, idx
      <4> QED  BY <1>7, <2>1
    <3> QED  BY <1>2, <2>1, <3>1
  <2>3. k \in 0..n /\ k + 1 \in 0..n
    BY <1>9
  <2>4. iter[1..k] \in X
    BY <1>9, <2>3
  <2>5. op(iter[1..k], k + 1) \in X
    BY <2>4, <2>1, <1>3
  <2> QED  BY <2>2, <2>3, <2>5
<1>10. iter[1..n] \in Y[n]
  <2> HIDE DEF Y
  <2> QED  BY <1>8, <1>9, Climbs
<1> QED  BY <1>1, <1>2, <1>10

LEMMA ConfirmsKeep ==
  ASSUME NEW batch, NEW answers, NEW n \in Nat, DOMAIN batch = 1..n, NEW X, NEW D \in X,
         \A E \in X : \A k \in 1..n :
           answers[k].status = "applied" => Confirmed(E, batch[k].opId, answers[k].ver) \in X
  PROVE  AllConfirmed(D, batch, answers) \in X
<1> DEFINE idx == [i \in DOMAIN batch |-> i]
           op(E, k) == IF answers[k].status = "applied" THEN Confirmed(E, batch[k].opId, answers[k].ver) ELSE E
           step == [p \in X \X (1..n) |-> op(p[1], p[2])]
           Iter(g) == g = [t \in SUBSET (DOMAIN idx) |->
                             IF t = {} THEN D ELSE op(g[t \ {Max(t)}], idx[Max(t)])]
           iter == CHOOSE g : Iter(g)
<1>1. AllConfirmed(D, batch, answers) = iter[DOMAIN idx]
  BY DEF AllConfirmed, FoldLeftDomain, FoldLeft, MapThenFoldSet
<1>2. DOMAIN idx = 1..n /\ \A k \in 1..n : idx[k] = k
  OBVIOUS
<1>3. \A E \in X : \A k \in 1..n : op(E, k) \in X
  OBVIOUS
<1>4. step \in [X \X (1..n) -> X] /\ \A E \in X : \A k \in 1..n : step[<<E, k>>] = op(E, k)
  <2> HIDE DEF op
  <2> QED  BY <1>3
<1> HIDE DEF idx, op, step
<1>5. \E g : Iter(g)
  <2>1. PICK f \in [SUBSET (1..n) -> X] : Iterates(f, n, D, step)
    BY <1>4, IterExists
  <2>2. \A t \in SUBSET (1..n) :
          f[t] = IF t = {} THEN D ELSE step[<<f[t \ {Max(t)}], Max(t)>>]
    BY <2>1 DEF Iterates
  <2>3. ASSUME NEW t \in SUBSET (1..n), t # {}
        PROVE  step[<<f[t \ {Max(t)}], Max(t)>>] = op(f[t \ {Max(t)}], idx[Max(t)])
    <3>1. Max(t) \in 1..n
      BY <2>3, MaxFacts
    <3>2. f[t \ {Max(t)}] \in X
      BY <2>1
    <3>3. idx[Max(t)] = Max(t)
      BY <3>1, <1>2
    <3> QED  BY <3>1, <3>2, <3>3, <1>4
  <2>4. \A t \in SUBSET (1..n) :
          f[t] = IF t = {} THEN D ELSE op(f[t \ {Max(t)}], idx[Max(t)])
    BY <2>2, <2>3
  <2>5. f = [t \in SUBSET (1..n) |-> f[t]]
    BY <2>1
  <2>6. f = [t \in SUBSET (1..n) |->
               IF t = {} THEN D ELSE op(f[t \ {Max(t)}], idx[Max(t)])]
    BY <2>4, <2>5
  <2>7. Iter(f)
    BY <2>6, <1>2
  <2> QED
    <3> HIDE DEF Iter
    <3> QED  BY <2>7
<1>6. Iter(iter)
  <2> HIDE DEF Iter
  <2> QED  BY <1>5
<1> HIDE DEF iter
<1>7. \A t \in SUBSET (1..n) :
        iter[t] = IF t = {} THEN D ELSE op(iter[t \ {Max(t)}], idx[Max(t)])
  BY <1>6, <1>2
<1> DEFINE Y == [k \in 0..n |-> X]
<1>8. iter[{}] \in Y[0]
  <2>1. {} \in SUBSET (1..n) /\ 0 \in 0..n
    OBVIOUS
  <2>2. iter[{}] = D
    BY <1>7, <2>1
  <2> QED  BY <2>1, <2>2
<1>9. ASSUME NEW k \in Nat, k + 1 <= n, iter[1..k] \in Y[k]
      PROVE  iter[1..(k + 1)] \in Y[k + 1]
  <2>1. /\ 1..(k + 1) \in SUBSET (1..n) /\ 1..(k + 1) # {}
        /\ (1..(k + 1)) \ {k + 1} = 1..k /\ k + 1 \in 1..n
        /\ Max(1..(k + 1)) = k + 1
    BY <1>9, Prefix
  <2>2. iter[1..(k + 1)] = op(iter[1..k], k + 1)
    <3>1. iter[1..(k + 1)] = op(iter[1..k], idx[k + 1])
      <4> HIDE DEF op, idx
      <4> QED  BY <1>7, <2>1
    <3> QED  BY <1>2, <2>1, <3>1
  <2>3. k \in 0..n /\ k + 1 \in 0..n
    BY <1>9
  <2>4. iter[1..k] \in X
    BY <1>9, <2>3
  <2>5. op(iter[1..k], k + 1) \in X
    BY <2>4, <2>1, <1>3
  <2> QED  BY <2>2, <2>3, <2>5
<1>10. iter[1..n] \in Y[n]
  <2> HIDE DEF Y
  <2> QED  BY <1>8, <1>9, Climbs
<1> QED  BY <1>1, <1>2, <1>10

\* Taking in an answer makes no operation.
LEMMA AnswerMakesNone ==
  ASSUME NEW d, NEW D \in DeviceState(d), NEW w, NEW a, NEW opId, NEW v
  PROVE  Conflicted(D, w, a).made = D.made /\ Confirmed(D, opId, v).made = D.made
<1>1. "made" \in DOMAIN D /\ DOMAIN D = {"self", "made", "row", "out", "conf"}
  BY DEF DeviceState
<1>2. Confirmed(D, opId, v).made = D.made
  BY <1>1 DEF Confirmed, WithRow
<1>3. Conflicted(D, w, a).made = D.made
  BY <1>1 DEF Conflicted, DropOps, WithRow, DeleteWins, Recording
<1> QED  BY <1>2, <1>3

LEMMA PushTakenInFine ==
  ASSUME NEW d, NEW D, Fine(D, d), NEW batch, NEW answers, NEW n \in Nat,
         DOMAIN batch = 1..n,
         \A k \in 1..n :
           /\ batch[k].id \in Id /\ batch[k].opId[2] <= D.made
           /\ answers[k].ver \in Nat
           /\ answers[k].state \in Row /\ answers[k].state.data \in Data(batch[k].id)
           /\ answers[k].status = "applied" =>
                \A j \in DOMAIN D.out : D.out[j].opId = batch[k].opId =>
                  /\ D.out[j].sent
                  /\ D.out[j].action = "upsert" => answers[k].ver = D.out[j].base + 1
  PROVE  /\ Leads(D, PushTakenIn(D, batch, answers), d, {})
         /\ PushTakenIn(D, batch, answers).made = D.made
<1> DEFINE X == {E \in DeviceState(d) : Leads(D, E, d, {}) /\ E.made = D.made}
<1>1. D \in X /\ D \in DeviceState(d)
  BY LeadsSelf DEF Fine
<1>2. ASSUME NEW E \in X, NEW F, Leads(E, F, d, {}), F.made = E.made  PROVE F \in X
  <2>1. Leads(D, F, d, {})
    BY <1>2, LeadsOn
  <2> QED  BY <1>2, <2>1 DEF Leads, Fine
<1>3. ASSUME NEW E \in X  PROVE Fine(E, d) /\ Follows(D, E)
  BY DEF Leads
<1> HIDE DEF X
<1>4. AllConflicted(D, batch, answers) \in X
  <2>1. ASSUME NEW E \in X, NEW k \in 1..n
        PROVE  Conflicted(E, batch[k], answers[k]) \in X
    BY <1>2, <1>3, ConflictedFine, AnswerMakesNone DEF Fine
  <2> QED  BY <1>1, <2>1, ConflictsKeep
<1>5. \A E \in X : AllConfirmed(E, batch, answers) \in X
  <2>1. ASSUME NEW E \in X, NEW k \in 1..n, answers[k].status = "applied"
        PROVE  Confirmed(E, batch[k].opId, answers[k].ver) \in X
    <3>1. ASSUME NEW m \in DOMAIN E.out, E.out[m].opId = batch[k].opId
          PROVE  /\ E.out[m].sent
                 /\ E.out[m].action = "upsert" => answers[k].ver = E.out[m].base + 1
      <4>1. batch[k].opId[2] <= D.made /\ D.made \in Nat
        BY <1>1 DEF DeviceState
      <4>2. E \in DeviceState(d)
        BY <1>3 DEF Fine
      <4>3. E.out[m] \in PendingOp(d)
        BY <4>2, OutFacts
      <4>4. E.out[m].opId[2] \in Nat
        BY <4>3 DEF PendingOp
      <4>5. ~ (E.out[m].opId[2] > D.made)
        BY <3>1, <4>1, <4>4
      <4>6. PICK j \in DOMAIN D.out : SameOp(E.out[m], D.out[j])
        BY <1>3, <4>5 DEF Follows
      <4>7. D.out[j].opId = batch[k].opId
        BY <3>1, <4>6 DEF SameOp
      <4>8. /\ D.out[j].sent
            /\ D.out[j].action = "upsert" => answers[k].ver = D.out[j].base + 1
        BY <2>1, <4>7
      <4>9. D.out[j] \in PendingOp(d)
        BY <1>1, OutFacts
      <4>10. D.out[j].sent \in BOOLEAN /\ E.out[m].sent \in BOOLEAN
        BY <4>3, <4>9 DEF PendingOp
      <4> QED  BY <4>6, <4>8, <4>10 DEF SameOp
    <3>2. Leads(E, Confirmed(E, batch[k].opId, answers[k].ver), d, {})
      BY <1>3, <3>1, ConfirmedFine
    <3>4. Confirmed(E, batch[k].opId, answers[k].ver).made = E.made
      BY <1>3, AnswerMakesNone DEF Fine
    <3> QED  BY <3>2, <3>4, <1>2
  <2> QED  BY <2>1, ConfirmsKeep
<1>6. PushTakenIn(D, batch, answers) \in X
  BY <1>4, <1>5, InTwoPasses
<1> QED  BY <1>6 DEF X

LEMMA PageTakenInFine ==
  ASSUME NEW d, NEW D, Fine(D, d), NEW page, NEW n \in Nat, DOMAIN page = 1..n,
         \A k \in 1..n : page[k] \in PulledChange /\ page[k].data \in Data(page[k].id)
  PROVE  Leads(D, PageTakenIn(D, page), d, {page[k].id : k \in 1..n})
<1> DEFINE N == {page[k].id : k \in 1..n}
           X == {E \in DeviceState(d) : Leads(D, E, d, N)}
<1>1. D \in X
  <2>1. Leads(D, D, d, {}) /\ D \in DeviceState(d)
    BY LeadsSelf DEF Fine
  <2> QED  BY <2>1 DEF Leads
<1>2. ASSUME NEW E \in X, NEW k \in 1..n  PROVE ChangeTakenIn(E, page[k]) \in X
  <2>1. Leads(D, E, d, N) /\ D \in DeviceState(d)
    BY DEF Fine
  <2>2. Leads(E, ChangeTakenIn(E, page[k]), d, {page[k].id})
    BY <2>1, ChangeTakenInFine DEF Leads
  <2>3. page[k].id \in N
    OBVIOUS
  <2> HIDE DEF N
  <2>4. Leads(D, ChangeTakenIn(E, page[k]), d, N \cup {page[k].id})
    BY <2>1, <2>2, LeadsTrans
  <2>5. N \cup {page[k].id} = N
    BY <2>3
  <2>6. Leads(D, ChangeTakenIn(E, page[k]), d, N)
    BY <2>4, <2>5
  <2> QED  BY <2>6 DEF Leads, Fine
<1>3. PageTakenIn(D, page) \in X
  <2> HIDE DEF X
  <2> QED  BY <1>1, <1>2, PageKeeps
<1> QED  BY <1>3

-----------------------------------------------------------------------------
(* Where records come from.  F: the records the server has.                *)

\* What the device takes for confirmed the server has, and a version that is
\* shown is one.
Rooted(D, F) ==
  \A i \in Id :
    /\ D.row[i].sv >= 1 => i \in F
    /\ LiveRow(D, i) => D.row[i].ver >= 1
    /\ D.conf[i].kind = "version" => D.conf[i].state.ver >= 1 /\ i \in F

\* The operations that create record i: its first, an upsert, until the server
\* has confirmed the record.
Creators(D, i) == IF D.row[i].sv = 0 THEN FirstIds(D, i) ELSE {}

\* E comes from D: only the records N have other operations that create them.
Stems(D, E, F, N) ==
  /\ Rooted(E, F)
  /\ \A j \in Id \ N : Creators(E, j) \subseteq Creators(D, j)

LEMMA StemsSelf ==
  ASSUME NEW D, NEW F, Rooted(D, F)
  PROVE  Stems(D, D, F, {})
BY DEF Stems

LEMMA StemsOn ==
  ASSUME NEW D, NEW E, NEW G, NEW F, NEW N, Stems(D, E, F, N), Stems(E, G, F, {})
  PROVE  Stems(D, G, F, N)
BY DEF Stems

LEMMA TouchedStems ==
  ASSUME NEW d, NEW D, NEW E, NEW F, Rooted(D, F), NEW i \in Id, NEW r, NEW c, NEW A,
         Touched(D, E, d, i, r, c, A),
         r.sv >= 1 => i \in F,
         r.data # NoData /\ ~ r.deleted => r.ver >= 1,
         c.kind = "version" => c.state.ver >= 1 /\ i \in F
  PROVE  /\ Stems(D, E, F, {i})
         /\ \/ r.sv # 0
            \/ A = {}
            \/ r.sv = D.row[i].sv /\ A \subseteq FirstIds(D, i)
            => Stems(D, E, F, {})
<1>1. Rooted(E, F)
  BY DEF Rooted, Touched, LiveRow, HasRow
<1>2. \A j \in Id : j # i => Creators(E, j) \subseteq Creators(D, j)
  BY DEF Creators, Touched
<1>3. ASSUME \/ r.sv # 0
             \/ A = {}
             \/ r.sv = D.row[i].sv /\ A \subseteq FirstIds(D, i)
      PROVE  Creators(E, i) \subseteq Creators(D, i)
  BY <1>3 DEF Creators, Touched
<1> QED  BY <1>1, <1>2, <1>3 DEF Stems

\* The row is written and an operation queued.
LEMMA WrittenTouched ==
  ASSUME NEW d, NEW D \in DeviceState(d), NEW i \in Id, NEW r \in LocalRow,
         NEW action \in {"upsert", "delete"}, NEW data \in Payload \cup {NoData},
         NEW cascade \in BOOLEAN, NEW base \in Nat,
         NEW E, E = Enqueued(WithRow(D, i, r), i, action, data, cascade, base)
  PROVE  /\ Touched(D, E, d, i, r, D.conf[i], FirstIds(E, i))
         /\ OpsOf(D, i) # {} \/ action = "delete"
              => Touched(D, E, d, i, r, D.conf[i], FirstIds(D, i))
<1> DEFINE G == WithRow(D, i, r)
<1>1. /\ Touched(D, G, d, i, r, D.conf[i], FirstIds(D, i)) /\ RowWritten(D, G, d, i, r)
      /\ \A j \in Id : FirstIds(G, j) = FirstIds(D, j)
  BY WithRowTouched, WithRowFacts, WithRowFirsts
<1>2. E = Enqueued(G, i, action, data, cascade, base)
  OBVIOUS
<1> HIDE DEF G
<1>3. /\ G \in DeviceState(d) /\ G.row[i] = r /\ G.conf[i] = D.conf[i]
      /\ OpsOf(G, i) = OpsOf(D, i)
  BY <1>1 DEF Touched, RowWritten
<1>4. /\ Touched(G, E, d, i, r, D.conf[i], FirstIds(E, i))
      /\ OpsOf(D, i) # {} \/ action = "delete"
           => Touched(G, E, d, i, r, D.conf[i], FirstIds(G, i))
  <2> HIDE DEF Touched
  <2> QED  BY <1>2, <1>3, EnqueuedTouched
<1> QED  BY <1>1, <1>4, TouchedOn

LEMMA CreateStems ==
  ASSUME NEW d, NEW D, Fine(D, d), NEW F, Rooted(D, F), NEW i \in Id, NEW data \in PayloadOf(i)
  PROVE  Stems(D, LocalCreate(D, i, data), F, {i})
<1> DEFINE new == [data EXCEPT !.archived = FALSE]
           r == [ver |-> 1, sv |-> 0, deleted |-> FALSE, data |-> new]
           E == LocalCreate(D, i, data)
<1>1. new \in PayloadOf(i)
  BY NewPayload
<1>2. new \in Payload \cup {NoData} /\ "upsert" \in {"upsert", "delete"} /\ FALSE \in BOOLEAN
      /\ 0 \in Nat
  BY <1>1 DEF PayloadOf
<1>3. E = Enqueued(WithRow(D, i, r), i, "upsert", new, FALSE, 0)
  BY DEF LocalCreate
<1> HIDE DEF new, E
<1>4. r \in LocalRow /\ r.sv = 0 /\ r.ver = 1
  BY <1>2 DEF LocalRow
<1>5. D \in DeviceState(d)
  BY DEF Fine
<1> HIDE DEF r
<1>6. Touched(D, E, d, i, r, D.conf[i], FirstIds(E, i))
  BY <1>2, <1>3, <1>4, <1>5, WrittenTouched
<1>7. Stems(D, E, F, {i})
  <2>1. /\ r.sv >= 1 => i \in F
        /\ r.data # NoData /\ ~ r.deleted => r.ver >= 1
        /\ D.conf[i].kind = "version" => D.conf[i].state.ver >= 1 /\ i \in F
    BY <1>4 DEF Rooted
  <2> QED  BY <1>6, <2>1, TouchedStems
<1> QED  BY <1>7 DEF E

\* A live row that has not been confirmed has an operation.
LEMMA UnconfirmedWaits ==
  ASSUME NEW d, NEW D, Fine(D, d), NEW F, Rooted(D, F), NEW i \in Id, LiveRow(D, i),
         D.row[i].sv = 0
  PROVE  OpsOf(D, i) # {}
<1>1. D.row[i].ver >= 1
  BY DEF Rooted
<1>2. ~ Clean(D, i)
  BY <1>1 DEF Clean
<1> QED  BY <1>2, RowOf DEF Waiting

LEMMA UpdateStems ==
  ASSUME NEW d, NEW D, Fine(D, d), NEW F, Rooted(D, F), NEW i \in Id, LiveRow(D, i),
         NEW data \in PayloadOf(i)
  PROVE  Stems(D, LocalUpdate(D, i, data), F, {})
<1> DEFINE r == [D.row[i] EXCEPT !.ver = @ + 1, !.data = data]
           v == D.row[i].sv
           E == LocalUpdate(D, i, data)
<1>1. /\ D.row[i] \in LocalRow /\ D.row[i].ver \in Nat /\ v \in Nat
      /\ D \in DeviceState(d)
  BY RowOf
<1>2. data \in Payload \cup {NoData} /\ "upsert" \in {"upsert", "delete"} /\ FALSE \in BOOLEAN
  BY DEF PayloadOf
<1>3. r \in LocalRow /\ r.ver = D.row[i].ver + 1 /\ r.sv = v
  <2> DEFINE q == D.row[i]
             w == q.ver + 1
  <2>1. r = [q EXCEPT !.ver = w, !.data = data] /\ w \in Nat /\ q \in LocalRow
    BY <1>1
  <2> HIDE DEF r, q, w
  <2>2. r \in LocalRow /\ r.ver = w /\ r.sv = q.sv
    BY <1>2, <2>1 DEF LocalRow
  <2> QED  BY <2>2 DEF q, w
<1>4. E = Enqueued(WithRow(D, i, r), i, "upsert", data, FALSE, v)
  BY DEF LocalUpdate
<1> HIDE DEF r, E
<1>5. /\ r.sv >= 1 => i \in F
      /\ r.data # NoData /\ ~ r.deleted => r.ver >= 1
      /\ D.conf[i].kind = "version" => D.conf[i].state.ver >= 1 /\ i \in F
  BY <1>1, <1>3 DEF Rooted
<1>6. v # 0 \/ OpsOf(D, i) # {}
  BY UnconfirmedWaits
<1> HIDE DEF v
<1>7. /\ Touched(D, E, d, i, r, D.conf[i], FirstIds(E, i))
      /\ OpsOf(D, i) # {} => Touched(D, E, d, i, r, D.conf[i], FirstIds(D, i))
  BY <1>1, <1>2, <1>3, <1>4, WrittenTouched
<1>8. Stems(D, E, F, {})
  <2>1. CASE OpsOf(D, i) # {}
    <3>1. r.sv = D.row[i].sv /\ FirstIds(D, i) \subseteq FirstIds(D, i)
      BY <1>3 DEF v
    <3> QED  BY <1>5, <1>7, <2>1, <3>1, TouchedStems
  <2>2. CASE v # 0
    <3>1. r.sv # 0
      BY <1>3, <2>2
    <3> QED  BY <1>5, <1>7, <3>1, TouchedStems
  <2> QED  BY <1>6, <2>1, <2>2
<1> QED  BY <1>8 DEF E

LEMMA SweptStems ==
  ASSUME NEW d, NEW D \in DeviceState(d), NEW F, Rooted(D, F), NEW R \in SUBSET Id, NEW gone,
         NEW E, E = Swept(D, R, gone)
  PROVE  Stems(D, E, F, {})
<1> DEFINE rows == [j \in Id |-> IF j \notin R THEN D.row[j]
                                 ELSE IF j \in gone THEN NoRow ELSE Buried(D.row[j])]
           K == {k \in DOMAIN D.out : D.out[k].id \notin R}
           G == Without(D, K)
<1>0. D \in DeviceState(d) /\ K \in SUBSET (DOMAIN D.out)
  BY DEF Fine
<1>1. E = [G EXCEPT !.row = rows]
  <2> DEFINE q == Kept(D.out, K)
  <2>1. E = [D EXCEPT !.row = rows, !.out = q]
    BY <1>0 DEF Swept, DeviceState
  <2>2. G = [D EXCEPT !.out = q]
    BY DEF Without
  <2> HIDE DEF q, rows
  <2> QED  BY <1>0, <2>1, <2>2 DEF DeviceState
<1>2. /\ \A j \in R : OpsOf(D, j) \cap K = {}
      /\ \A j \in Id : j \notin R => OpsOf(D, j) \subseteq K
  BY DEF OpsOf
<1> HIDE DEF K
<1>3. Thinned(D, G, d, K)
  BY <1>0, WithoutFacts
<1> HIDE DEF G
<1>4. G \in DeviceState(d) /\ G.conf = D.conf /\ (\A j \in R : OpsOf(G, j) = {})
  BY <1>2, <1>3 DEF Thinned
<1>5. E.row = rows /\ E.out = G.out /\ E.conf = D.conf
  BY <1>1, <1>4 DEF DeviceState
<1>6. \A j \in Id : OpsOf(E, j) = OpsOf(G, j) /\ FirstIds(E, j) = FirstIds(G, j)
  <2>1. \A j \in Id : OpsOf(E, j) = OpsOf(G, j)
    BY <1>5 DEF OpsOf
  <2> QED  BY <1>5, <2>1 DEF FirstIds
<1>7. ASSUME NEW j \in Id, j \notin R
      PROVE  E.row[j] = D.row[j] /\ Creators(E, j) \subseteq Creators(D, j)
  <2>1. E.row[j] = D.row[j]
    BY <1>5, <1>7
  <2>2. FirstIds(E, j) \subseteq FirstIds(D, j)
    BY <1>0, <1>2, <1>3, <1>6, <1>7, ThinnedElsewhere
  <2> QED  BY <2>1, <2>2 DEF Creators
<1>8. \A j \in R : Creators(E, j) = {}
  BY <1>4, <1>6, NoFirsts DEF Creators
<1>9. ASSUME NEW j \in R
      PROVE  /\ E.row[j].sv >= 1 => j \in F
             /\ ~ LiveRow(E, j)
  <2>1. /\ Buried(D.row[j]).sv = D.row[j].sv /\ Buried(D.row[j]).deleted
        /\ Buried(D.row[j]).data = D.row[j].data
    BY BuriedRow DEF DeviceState
  <2>2. E.row[j] = IF j \in gone THEN NoRow ELSE Buried(D.row[j])
    BY <1>5, <1>9
  <2>3. CASE j \in gone
    BY <2>2, <2>3, NoRowFacts DEF LiveRow, HasRow
  <2>4. CASE j \notin gone
    BY <2>1, <2>2, <2>4 DEF Rooted, LiveRow, HasRow
  <2> QED  BY <2>3, <2>4
<1> HIDE DEF rows
<1>10. Rooted(E, F)
  <2> SUFFICES ASSUME NEW j \in Id
               PROVE  /\ E.row[j].sv >= 1 => j \in F
                      /\ LiveRow(E, j) => E.row[j].ver >= 1
                      /\ E.conf[j].kind = "version" => E.conf[j].state.ver >= 1 /\ j \in F
    BY DEF Rooted
  <2>1. CASE j \in R
    BY <2>1, <1>5, <1>9 DEF Rooted
  <2>2. CASE j \notin R
    BY <2>2, <1>5, <1>7 DEF Rooted, LiveRow, HasRow
  <2> QED  BY <2>1, <2>2
<1> QED  BY <1>7, <1>8, <1>10 DEF Stems

LEMMA RemoveStems ==
  ASSUME NEW d, NEW D, Fine(D, d), NEW F, Rooted(D, F), NEW i \in Id, LiveRow(D, i),
         NEW cascade \in BOOLEAN
  PROVE  Stems(D, LocalRemove(D, i, cascade), F, {})
<1> DEFINE R == IF i \in Category THEN Referencing(D, i) ELSE {}
           r == Buried(D.row[i])
           v == D.row[i].sv
           E == Enqueued(WithRow(D, i, r), i, "delete", NoData, cascade, v)
           G == {j \in R : Unborn(D, j)}
           H == LocalRemove(D, i, cascade)
<1>0. /\ D \in DeviceState(d) /\ D.row[i] \in LocalRow /\ v \in Nat
      /\ NoData \in Payload \cup {NoData} /\ "delete" \in {"upsert", "delete"}
  BY RowOf
<1>1. R \in SUBSET Id /\ {i} \cup R \in SUBSET Id
  BY DEF Referencing, Id
<1>2. H = IF Unborn(D, i) THEN Swept(D, {i} \cup R, {i} \cup R)
          ELSE IF cascade THEN Swept(E, R, G) ELSE E
  BY DEF LocalRemove
<1>3. /\ r \in LocalRow /\ r.sv = v /\ r.deleted
  BY <1>0, BuriedRow
<1> HIDE DEF H, R, r, G
<1>4. Touched(D, E, d, i, r, D.conf[i], FirstIds(D, i))
  <2> HIDE DEF E, v
  <2>1. E = Enqueued(WithRow(D, i, r), i, "delete", NoData, cascade, v)
    BY DEF E
  <2> HIDE DEF Touched
  <2> QED  BY <1>0, <1>3, <2>1, WrittenTouched
<1>5. Stems(D, E, F, {})
  <2> HIDE DEF E
  <2>1. r.sv = D.row[i].sv /\ FirstIds(D, i) \subseteq FirstIds(D, i)
    BY <1>3
  <2>2. /\ r.sv >= 1 => i \in F
        /\ r.data # NoData /\ ~ r.deleted => r.ver >= 1
        /\ D.conf[i].kind = "version" => D.conf[i].state.ver >= 1 /\ i \in F
    BY <1>3 DEF Rooted
  <2> QED  BY <1>4, <2>1, <2>2, TouchedStems
<1>6. Stems(D, Swept(D, {i} \cup R, {i} \cup R), F, {})
  BY <1>0, <1>1, SweptStems
<1>7. Stems(D, Swept(E, R, G), F, {})
  <2> HIDE DEF E
  <2>1. E \in DeviceState(d) /\ Rooted(E, F)
    BY <1>4, <1>5 DEF Touched, Stems
  <2>2. Stems(E, Swept(E, R, G), F, {})
    BY <1>1, <2>1, SweptStems
  <2> QED  BY <1>5, <2>2, StemsOn
<1> HIDE DEF E
<1> QED  BY <1>2, <1>5, <1>6, <1>7 DEF H

\* The row becomes r, its operations go.
LEMMA SettledTouched ==
  ASSUME NEW d, NEW D \in DeviceState(d), NEW i \in Id, NEW r \in LocalRow
  PROVE  Touched(D, DropOps(WithRow(D, i, r), i), d, i, r, D.conf[i], {})
<1> DEFINE G == WithRow(D, i, r)
           E == DropOps(G, i)
<1>1. Touched(D, G, d, i, r, D.conf[i], FirstIds(D, i))
  BY WithRowTouched
<1> HIDE DEF G
<1>2. G \in DeviceState(d) /\ G.row[i] = r /\ G.conf[i] = D.conf[i]
  BY <1>1 DEF Touched
<1>3. Touched(G, E, d, i, r, D.conf[i], {})
  BY <1>2, DropTouched
<1> HIDE DEF E
<1>4. Touched(D, E, d, i, r, D.conf[i], {})
  BY <1>1, <1>3, TouchedOn
<1> QED  BY <1>4 DEF E, G

\* The row becomes r, and is pushed again.
LEMMA AgainTouched ==
  ASSUME NEW d, NEW D \in DeviceState(d), NEW i \in Id, NEW r \in LocalRow,
         NEW action \in {"upsert", "delete"}, NEW data \in Payload \cup {NoData},
         NEW v \in Nat,
         NEW E, E = Enqueued(WithRow(DropOps(D, i), i, r), i, action, data, FALSE, v)
  PROVE  Touched(D, E, d, i, r, D.conf[i], FirstIds(E, i))
<1> DEFINE G == DropOps(D, i)
<1>1. Touched(D, G, d, i, D.row[i], D.conf[i], {})
  BY DropTouched
<1>2. E = Enqueued(WithRow(G, i, r), i, action, data, FALSE, v) /\ FALSE \in BOOLEAN
  OBVIOUS
<1> HIDE DEF G
<1>3. G \in DeviceState(d) /\ G.conf[i] = D.conf[i]
  BY <1>1 DEF Touched
<1>4. Touched(G, E, d, i, r, D.conf[i], FirstIds(E, i))
  <2> HIDE DEF Touched
  <2> QED  BY <1>2, <1>3, WrittenTouched
<1> QED  BY <1>1, <1>4 DEF Touched

\* The record's conflict is recorded after its row was touched.
LEMMA RecordedTouched ==
  ASSUME NEW d, NEW D, NEW E, NEW i \in Id, NEW r, NEW c, NEW A,
         Touched(D, E, d, i, r, c, A),
         NEW kind \in {"none", "version", "deleted"}, NEW state \in Row,
         NEW local \in Payload \cup {NoData}
  PROVE  Touched(D, Recording(E, i, kind, state, local), d, i, r,
                 [kind |-> kind, state |-> state, local |-> local], A)
<1> DEFINE q == [kind |-> kind, state |-> state, local |-> local]
           G == Recording(E, i, kind, state, local)
<1>1. E \in DeviceState(d) /\ E.row[i] = r /\ FirstIds(E, i) \subseteq A
  BY DEF Touched
<1>2. Touched(E, G, d, i, r, q, FirstIds(E, i))
  BY <1>1, RecordingTouched
<1> HIDE DEF q, G
<1>3. Touched(D, G, d, i, r, q, A)
  BY <1>1, <1>2 DEF Touched
<1> QED  BY <1>3 DEF q, G

LEMMA ResolvedIs ==
  ASSUME NEW D, NEW i
  PROVE  /\ Resolved(D, i) = Recording(D, i, "none", Absent, NoData)
         /\ "none" \in {"none", "version", "deleted"} /\ Absent \in Row
         /\ NoData \in Payload \cup {NoData}
BY NoRowFacts DEF Resolved, Recording, NoConflict

LEMMA DeleteWinsTouched ==
  ASSUME NEW d, NEW D, Fine(D, d), NEW i \in Id, NEW v \in Nat
  PROVE  \E r : /\ Touched(D, DeleteWins(D, i, v), d, i, r,
                           [kind |-> "deleted",
                            state |-> [ver |-> v, deleted |-> TRUE, data |-> NoData],
                            local |-> D.row[i].data], {})
                /\ HasRow(D, i) => r.sv = v /\ r.deleted /\ r.data = D.row[i].data
                /\ ~ HasRow(D, i) => r = D.row[i]
<1> DEFINE q == [ver |-> v, sv |-> v, deleted |-> TRUE, data |-> D.row[i].data]
           state == [ver |-> v, deleted |-> TRUE, data |-> NoData]
           r == IF HasRow(D, i) THEN q ELSE D.row[i]
           G == DropOps(IF HasRow(D, i) THEN WithRow(D, i, q) ELSE D, i)
<1>1. /\ D \in DeviceState(d) /\ D.row[i].data \in Payload \cup {NoData}
      /\ q \in LocalRow /\ state \in Row
      /\ "deleted" \in {"none", "version", "deleted"}
  BY RowOf, NoRowFacts DEF Row, LocalRow
<1>2. DeleteWins(D, i, v) = Recording(G, i, "deleted", state, D.row[i].data)
  BY DEF DeleteWins
<1>3. Touched(D, G, d, i, r, D.conf[i], {})
  <2>1. CASE HasRow(D, i)
    <3> HIDE DEF q
    <3> QED  BY <1>1, <2>1, SettledTouched
  <2>2. CASE ~ HasRow(D, i)
    <3>1. G = DropOps(D, i)
      BY <2>2
    <3> HIDE DEF G
    <3>2. Touched(D, G, d, i, D.row[i], D.conf[i], {})
      BY <1>1, <3>1, DropTouched
    <3> QED  BY <2>2, <3>2
  <2> QED  BY <2>1, <2>2
<1>4. /\ HasRow(D, i) => r.sv = v /\ r.deleted /\ r.data = D.row[i].data
      /\ ~ HasRow(D, i) => r = D.row[i]
  OBVIOUS
<1> HIDE DEF G, r
<1>5. Touched(D, Recording(G, i, "deleted", state, D.row[i].data), d, i, r,
              [kind |-> "deleted", state |-> state, local |-> D.row[i].data], {})
  <2> HIDE DEF state
  <2> QED  BY <1>1, <1>3, RecordedTouched
<1> QED  BY <1>2, <1>4, <1>5

LEMMA DeleteWinsStems ==
  ASSUME NEW d, NEW D, Fine(D, d), NEW F, Rooted(D, F), NEW i \in Id, NEW v \in Nat,
         v >= 1 => i \in F
  PROVE  Stems(D, DeleteWins(D, i, v), F, {})
<1> DEFINE c == [kind |-> "deleted", state |-> [ver |-> v, deleted |-> TRUE, data |-> NoData],
                 local |-> D.row[i].data]
<1>1. PICK r : /\ Touched(D, DeleteWins(D, i, v), d, i, r, c, {})
               /\ HasRow(D, i) => r.sv = v /\ r.deleted
               /\ ~ HasRow(D, i) => r = D.row[i]
  BY DeleteWinsTouched
<1>2. c.kind # "version"
  OBVIOUS
<1> HIDE DEF c
<1>3. /\ r.sv >= 1 => i \in F
      /\ r.data # NoData /\ ~ r.deleted => r.ver >= 1
  BY <1>1 DEF Rooted, HasRow
<1> QED  BY <1>1, <1>2, <1>3, TouchedStems

\* The row that is based on the server's version v and pushed again.
Based(q, v) == [q EXCEPT !.sv = v, !.ver = MaxOf(@, v + 1)]

LEMMA BasedRow ==
  ASSUME NEW q \in LocalRow, NEW v \in Nat, NEW r, r = Based(q, v)
  PROVE  /\ r \in LocalRow /\ r.sv = v /\ r.ver >= 1 /\ r.data = q.data
         /\ r.deleted = q.deleted
<1> DEFINE m == MaxOf(q.ver, v + 1)
<1>1. m \in Nat /\ m >= 1
  BY DEF MaxOf, LocalRow
<1>2. r = [q EXCEPT !.sv = v, !.ver = m]
  BY DEF Based
<1> HIDE DEF m
<1>3. r \in LocalRow /\ r.sv = v /\ r.ver = m /\ r.data = q.data /\ r.deleted = q.deleted
  BY <1>1, <1>2 DEF LocalRow
<1> QED  BY <1>1, <1>3

LEMMA BasedAhead ==
  ASSUME NEW q \in LocalRow, NEW v \in Nat, NEW r, r = Based(q, v)
  PROVE  r.ver # r.sv
<1>1. r = [q EXCEPT !.sv = v, !.ver = MaxOf(q.ver, v + 1)]
  BY DEF Based
<1>2. r.sv = v /\ r.ver = MaxOf(q.ver, v + 1)
  BY <1>1 DEF LocalRow
<1>3. q.ver \in Nat
  BY DEF LocalRow
<1> QED  BY <1>2, <1>3 DEF MaxOf

LEMMA KeepLocalStems ==
  ASSUME NEW d, NEW D, Fine(D, d), NEW F, Rooted(D, F), NEW i \in Id,
         D.conf[i].kind = "version"
  PROVE  Stems(D, KeepLocal(D, i), F, {})
<1> DEFINE v == D.conf[i].state.ver
           r == [D.row[i] EXCEPT !.sv = v, !.ver = MaxOf(@, v + 1)]
           E == DropOps(D, i)
           act == IF D.row[i].deleted THEN "delete" ELSE "upsert"
           data == IF D.row[i].deleted THEN NoData ELSE D.row[i].data
           A == Enqueued(WithRow(E, i, r), i, act, data, FALSE, v)
           G == IF HasRow(D, i) THEN A ELSE E
           c == [kind |-> "none", state |-> Absent, local |-> NoData]
<1>1. /\ D \in DeviceState(d) /\ D.row[i] \in LocalRow /\ v \in Nat /\ v >= 1 /\ i \in F
      /\ D.row[i].deleted \in BOOLEAN /\ act \in {"upsert", "delete"}
      /\ data \in Payload \cup {NoData}
  BY RowOf DEF Rooted, Fine, DeviceState, LocalRow, ConflictRow, Row
<1>2. KeepLocal(D, i) = Resolved(G, i)
  <2>1. E.row[i] = D.row[i]
    BY <1>1, DropTouched DEF Touched
  <2>2. KeepLocal(D, i) =
          Resolved(IF ~ HasRow(D, i) THEN E
                   ELSE IF D.row[i].deleted
                        THEN Enqueued(WithRow(E, i, r), i, "delete", NoData, FALSE, v)
                        ELSE Enqueued(WithRow(E, i, r), i, "upsert", D.row[i].data, FALSE, v), i)
    BY <2>1 DEF KeepLocal
  <2> QED  BY <1>1, <2>2
<1>3. r \in LocalRow /\ r.sv = v /\ r.ver >= 1
  <2>1. r = Based(D.row[i], v)
    BY DEF Based
  <2> HIDE DEF v, r
  <2> QED  BY <1>1, <2>1, BasedRow
<1>4. Resolved(G, i) = Recording(G, i, "none", Absent, NoData)
      /\ "none" \in {"none", "version", "deleted"} /\ Absent \in Row
      /\ NoData \in Payload \cup {NoData}
  BY ResolvedIs
<1>5. c.kind # "version"
  OBVIOUS
<1>6. Stems(D, Resolved(G, i), F, {})
  <2>1. CASE HasRow(D, i)
    <3> HIDE DEF r, v, act, data
    <3>1. Touched(D, A, d, i, r, D.conf[i], FirstIds(A, i))
      BY <1>1, <1>3, AgainTouched
    <3>2. Touched(D, Resolved(G, i), d, i, r, c, FirstIds(A, i))
      <4>1. G = A
        BY <2>1
      <4> HIDE DEF A, G
      <4> QED  BY <1>4, <3>1, <4>1, RecordedTouched
    <3> HIDE DEF A, G, c
    <3>3. r.sv # 0 /\ (r.sv >= 1 => i \in F) /\ (r.data # NoData /\ ~ r.deleted => r.ver >= 1)
      BY <1>1, <1>3
    <3> QED  BY <1>5, <3>2, <3>3, TouchedStems
  <2>2. CASE ~ HasRow(D, i)
    <3>1. Touched(D, E, d, i, D.row[i], D.conf[i], {})
      BY <1>1, DropTouched
    <3>2. Touched(D, Resolved(G, i), d, i, D.row[i], c, {})
      <4>1. G = E
        BY <2>2
      <4> HIDE DEF E, G
      <4> QED  BY <1>4, <3>1, <4>1, RecordedTouched
    <3> HIDE DEF G, c
    <3>3. (D.row[i].sv >= 1 => i \in F)
          /\ (D.row[i].data # NoData /\ ~ D.row[i].deleted => D.row[i].ver >= 1)
      BY DEF Rooted, LiveRow, HasRow
    <3> QED  BY <1>5, <3>2, <3>3, TouchedStems
  <2> QED  BY <2>1, <2>2
<1> QED  BY <1>2, <1>6

LEMMA TakeServerStems ==
  ASSUME NEW d, NEW D, Fine(D, d), NEW F, Rooted(D, F), NEW i \in Id,
         D.conf[i].kind = "version"
  PROVE  Stems(D, TakeServer(D, i), F, {})
<1> DEFINE s == D.conf[i].state
           q == IF s.ver = 0 THEN NoRow
                ELSE IF s.deleted \/ s.data = NoData
                THEN [ver |-> s.ver, sv |-> s.ver, deleted |-> TRUE, data |-> D.row[i].data]
                ELSE [ver |-> s.ver, sv |-> s.ver, deleted |-> FALSE, data |-> s.data]
           r == IF HasRow(D, i) THEN q ELSE D.row[i]
           G == DropOps(IF HasRow(D, i) THEN WithRow(D, i, q) ELSE D, i)
           c == [kind |-> "none", state |-> Absent, local |-> NoData]
<1>1. /\ D \in DeviceState(d) /\ D.row[i] \in LocalRow /\ s \in Row
      /\ D.row[i].data \in Payload \cup {NoData} /\ s.ver >= 1 /\ i \in F
  BY RowOf DEF Rooted, Fine, DeviceState, LocalRow, ConflictRow
<1>2. TakeServer(D, i) = Resolved(G, i)
  BY DEF TakeServer
<1> HIDE DEF s
<1>3. q \in LocalRow /\ q.sv = s.ver /\ q.ver = s.ver
  <2>1. s.ver \in Nat /\ s.ver # 0 /\ s.data \in Payload \cup {NoData}
    BY <1>1 DEF Row
  <2> QED  BY <1>1, <2>1 DEF LocalRow
<1>4. Touched(D, G, d, i, r, D.conf[i], {})
  <2>1. CASE HasRow(D, i)
    <3> HIDE DEF q
    <3> QED  BY <1>1, <1>3, <2>1, SettledTouched
  <2>2. CASE ~ HasRow(D, i)
    <3>1. G = DropOps(D, i)
      BY <2>2
    <3> HIDE DEF G
    <3>2. Touched(D, G, d, i, D.row[i], D.conf[i], {})
      BY <1>1, <3>1, DropTouched
    <3> QED  BY <2>2, <3>2
  <2> QED  BY <2>1, <2>2
<1>5. Touched(D, Resolved(G, i), d, i, r, c, {})
  <2> HIDE DEF G, r
  <2> QED  BY <1>4, ResolvedIs, RecordedTouched
<1>6. c.kind # "version" /\ i \in F
  BY <1>1
<1>7. r.data # NoData /\ ~ r.deleted => r.ver >= 1
  <2> HIDE DEF q
  <2> QED  BY <1>1, <1>3 DEF Rooted, LiveRow, HasRow
<1> HIDE DEF G, r, c
<1>8. /\ r.sv >= 1 => i \in F
      /\ c.kind = "version" => c.state.ver >= 1 /\ i \in F
  BY <1>6
<1>9. Stems(D, Resolved(G, i), F, {})
  BY <1>5, <1>7, <1>8, TouchedStems
<1> QED  BY <1>2, <1>9

LEMMA LocalDeleteWinsTouched ==
  ASSUME NEW d, NEW D, Fine(D, d), NEW i \in Id, D.row[i].deleted,
         NEW state \in Row
  PROVE  \E r : /\ Touched(D, LocalDeleteWins(D, i, state), d, i, r,
                           [kind |-> "deleted", state |-> state, local |-> state.data], {})
                /\ r.deleted /\ r.sv = state.ver /\ r.ver # r.sv
<1> DEFINE v == state.ver
           r == [D.row[i] EXCEPT !.sv = v, !.ver = MaxOf(@, v + 1)]
           G == DropOps(WithRow(D, i, r), i)
           E == Enqueued(G, i, "delete", NoData, FALSE, v)
<1>1. /\ D \in DeviceState(d) /\ D.row[i] \in LocalRow /\ v \in Nat
      /\ state.data \in Payload \cup {NoData} /\ NoData \in Payload \cup {NoData}
      /\ "deleted" \in {"none", "version", "deleted"} /\ "delete" \in {"upsert", "delete"}
      /\ FALSE \in BOOLEAN
  BY RowOf DEF Row
<1>2. LocalDeleteWins(D, i, state) = Recording(E, i, "deleted", state, state.data)
  BY DEF LocalDeleteWins
<1>3. r \in LocalRow /\ r.sv = v /\ r.deleted /\ r.ver # r.sv
  <2> DEFINE q == D.row[i]
  <2>1. q \in LocalRow /\ q.deleted /\ r = Based(q, v)
    BY <1>1 DEF Based
  <2> HIDE DEF v, q, r
  <2>2. r \in LocalRow /\ r.sv = v /\ r.deleted = q.deleted
    BY <1>1, <2>1, BasedRow
  <2>3. r.ver # r.sv
    BY <1>1, <2>1, BasedAhead
  <2> QED  BY <2>1, <2>2, <2>3
<1> HIDE DEF r
<1>4. Touched(D, G, d, i, r, D.conf[i], {})
  BY <1>1, <1>3, SettledTouched
<1> HIDE DEF G, v
<1>5. /\ G \in DeviceState(d) /\ G.row[i] = r /\ FirstIds(G, i) = {}
      /\ Touched(G, E, d, i, G.row[i], G.conf[i], FirstIds(G, i))
  <2>1. G \in DeviceState(d) /\ G.row[i] = r /\ FirstIds(G, i) = {}
    BY <1>4 DEF Touched
  <2> HIDE DEF E
  <2>2. E = Enqueued(G, i, "delete", NoData, FALSE, v)
    BY DEF E
  <2> HIDE DEF Touched
  <2> QED  BY <1>1, <2>1, <2>2, EnqueuedTouched
<1> HIDE DEF E
<1>6. Touched(D, E, d, i, r, G.conf[i], {})
  BY <1>4, <1>5, TouchedOn
<1>7. Touched(D, Recording(E, i, "deleted", state, state.data), d, i, r,
              [kind |-> "deleted", state |-> state, local |-> state.data], {})
  BY <1>1, <1>6, RecordedTouched
<1> QED  BY <1>2, <1>3, <1>7 DEF v

LEMMA LocalDeleteWinsStems ==
  ASSUME NEW d, NEW D, Fine(D, d), NEW F, Rooted(D, F), NEW i \in Id, D.row[i].deleted,
         NEW state \in Row, i \in F
  PROVE  Stems(D, LocalDeleteWins(D, i, state), F, {})
<1> DEFINE c == [kind |-> "deleted", state |-> state, local |-> state.data]
<1>1. PICK r : /\ Touched(D, LocalDeleteWins(D, i, state), d, i, r, c, {})
               /\ r.deleted
  BY LocalDeleteWinsTouched
<1>2. c.kind # "version"
  OBVIOUS
<1> HIDE DEF c
<1> QED  BY <1>1, <1>2, TouchedStems

\* A version conflict is recorded.
LEMMA RecordedStems ==
  ASSUME NEW d, NEW D, Fine(D, d), NEW F, Rooted(D, F), NEW i \in Id,
         NEW state \in Row, state.ver >= 1, i \in F
  PROVE  Stems(D, Recording(D, i, "version", state, D.row[i].data), F, {})
<1> DEFINE c == [kind |-> "version", state |-> state, local |-> D.row[i].data]
           E == Recording(D, i, "version", state, D.row[i].data)
<1>1. D \in DeviceState(d) /\ D.row[i].data \in Payload \cup {NoData}
      /\ "version" \in {"none", "version", "deleted"}
  BY RowOf, NoRowFacts
<1>2. Touched(D, E, d, i, D.row[i], c, FirstIds(D, i))
  BY <1>1, RecordingTouched
<1>3. c.state.ver >= 1
  OBVIOUS
<1> HIDE DEF c, E
<1>4. /\ D.row[i].data # NoData /\ ~ D.row[i].deleted => D.row[i].ver >= 1
      /\ FirstIds(D, i) \subseteq FirstIds(D, i)
  BY DEF Rooted, LiveRow, HasRow
<1>5. Stems(D, E, F, {})
  BY <1>2, <1>3, <1>4, TouchedStems
<1> QED  BY <1>5 DEF E

\* Only the row changes, to a confirmed state or the server's.
LEMMA OverwrittenStems ==
  ASSUME NEW d, NEW D, Fine(D, d), NEW F, Rooted(D, F), NEW i \in Id, i \in F,
         NEW r \in LocalRow, r.sv >= 1, r.ver >= 1
  PROVE  /\ Stems(D, WithRow(D, i, r), F, {})
         /\ Stems(D, DropOps(WithRow(D, i, r), i), F, {})
<1>1. D \in DeviceState(d)
  BY DEF Fine
<1>2. /\ Touched(D, WithRow(D, i, r), d, i, r, D.conf[i], FirstIds(D, i))
      /\ Touched(D, DropOps(WithRow(D, i, r), i), d, i, r, D.conf[i], {})
  BY <1>1, WithRowTouched, SettledTouched
<1>3. r.sv # 0 /\ (D.conf[i].kind = "version" => D.conf[i].state.ver >= 1 /\ i \in F)
  BY DEF Rooted
<1>4. Stems(D, WithRow(D, i, r), F, {})
  BY <1>2, <1>3, TouchedStems
<1>5. Stems(D, DropOps(WithRow(D, i, r), i), F, {})
  BY <1>2, <1>3, TouchedStems
<1> QED  BY <1>4, <1>5

LEMMA ChangeStems ==
  ASSUME NEW d, NEW D, Fine(D, d), NEW F, Rooted(D, F), NEW ch \in PulledChange,
         ch.ver >= 1, ch.id \in F
  PROVE  Stems(D, ChangeTakenIn(D, ch), F, {})
<1> DEFINE i == ch.id
           r == D.row[i]
           E == ChangeTakenIn(D, ch)
           up == [ver |-> ch.ver, sv |-> ch.ver, deleted |-> FALSE, data |-> ch.data]
           dead == [ver |-> ch.ver, sv |-> ch.ver, deleted |-> TRUE, data |-> r.data]
           bad == [r EXCEPT !.ver = ch.ver, !.sv = ch.ver]
           state == StateOf(ch)
<1>1. /\ i \in Id /\ ch.ver \in Nat /\ ch.data \in Payload \cup {NoData}
      /\ r \in LocalRow /\ r.data \in Payload \cup {NoData}
  BY RowOf, NoRowFacts DEF PulledChange
<1>2. up \in LocalRow /\ up.sv >= 1 /\ up.ver >= 1 /\ dead \in LocalRow /\ dead.sv >= 1
      /\ dead.ver >= 1
  BY <1>1 DEF LocalRow
<1>3. bad \in LocalRow /\ bad.sv >= 1 /\ bad.ver >= 1
  <2> HIDE DEF r
  <2> QED  BY <1>1 DEF LocalRow
<1>4. state \in Row /\ state.ver = ch.ver
  BY <1>1 DEF StateOf, Row
<1>5. \/ E = D \/ E = WithRow(D, i, up) \/ E = WithRow(D, i, dead)
      \/ E = Recording(D, i, "version", state, r.data)
      \/ E = DropOps(WithRow(D, i, bad), i)
      \/ E = DeleteWins(D, i, ch.ver)
      \/ r.deleted /\ E = LocalDeleteWins(D, i, state)
  BY DEF ChangeTakenIn
<1> HIDE DEF up, dead, bad, state, i, E
<1>6. Stems(D, D, F, {}) /\ Stems(D, DeleteWins(D, i, ch.ver), F, {})
  BY <1>1, StemsSelf, DeleteWinsStems DEF i
<1>7. /\ Stems(D, WithRow(D, i, up), F, {}) /\ Stems(D, WithRow(D, i, dead), F, {})
      /\ Stems(D, DropOps(WithRow(D, i, bad), i), F, {})
  BY <1>1, <1>2, <1>3, OverwrittenStems DEF i
<1>8. r.deleted => Stems(D, LocalDeleteWins(D, i, state), F, {})
  BY <1>1, <1>4, LocalDeleteWinsStems DEF i
<1>9. Stems(D, Recording(D, i, "version", state, r.data), F, {})
  BY <1>1, <1>4, RecordedStems DEF i
<1>10. Stems(D, E, F, {})
  BY <1>5, <1>6, <1>7, <1>8, <1>9
<1> QED  BY <1>10 DEF E

\* A conflict answer that is not adopted.
LEMMA ConflictedStems ==
  ASSUME NEW d, NEW D, Fine(D, d), NEW F, Rooted(D, F), NEW w, NEW a, w.id \in Id, w.id \in F,
         a.state \in Row, a.state.ver >= 1, ~ Adoptable(w, a)
  PROVE  Stems(D, Conflicted(D, w, a), F, {})
<1>1. Conflicted(D, w, a) \in {DeleteWins(D, w.id, a.state.ver),
                               Recording(D, w.id, "version", a.state, D.row[w.id].data)}
  BY DEF Conflicted
<1>2. a.state.ver \in Nat
  BY DEF Row
<1>3. Stems(D, DeleteWins(D, w.id, a.state.ver), F, {})
  BY <1>2, DeleteWinsStems
<1>4. Stems(D, Recording(D, w.id, "version", a.state, D.row[w.id].data), F, {})
  BY RecordedStems
<1> QED  BY <1>1, <1>3, <1>4

LEMMA ResolvedStems ==
  ASSUME NEW d, NEW D, Fine(D, d), NEW F, Rooted(D, F), NEW i \in Id
  PROVE  Stems(D, Resolved(D, i), F, {})
<1> DEFINE E == Resolved(D, i)
           c == [kind |-> "none", state |-> Absent, local |-> NoData]
<1>1. D \in DeviceState(d)
  BY DEF Fine
<1>2. Touched(D, E, d, i, D.row[i], c, FirstIds(D, i))
  BY <1>1, ResolvedIs, RecordingTouched
<1>3. c.kind # "version"
  OBVIOUS
<1> HIDE DEF c, E
<1>4. /\ D.row[i].sv >= 1 => i \in F
      /\ D.row[i].data # NoData /\ ~ D.row[i].deleted => D.row[i].ver >= 1
      /\ FirstIds(D, i) \subseteq FirstIds(D, i)
  BY DEF Rooted, LiveRow, HasRow
<1>5. Stems(D, E, F, {})
  BY <1>2, <1>3, <1>4, TouchedStems
<1> QED  BY <1>5 DEF E

\* Only operations change, and no record gets another first one.
LEMMA SameRowsStems ==
  ASSUME NEW D, NEW E, NEW F, Rooted(D, F), E.row = D.row, E.conf = D.conf,
         \A j \in Id : FirstIds(E, j) \subseteq FirstIds(D, j)
  PROVE  Stems(D, E, F, {})
BY DEF Stems, Rooted, Creators, LiveRow, HasRow

LEMMA RootedGrows ==
  ASSUME NEW D, NEW F, NEW G, F \subseteq G, Rooted(D, F)
  PROVE  Rooted(D, G)
BY DEF Rooted

\* The confirmation of an operation that was sent.
LEMMA ConfirmedStems ==
  ASSUME NEW d, NEW D, Fine(D, d), NEW F, Rooted(D, F), NEW opId, NEW v \in Nat,
         \A k \in DOMAIN D.out : D.out[k].opId = opId =>
           /\ D.out[k].sent
           /\ D.out[k].action = "upsert" => v = D.out[k].base + 1
           /\ v >= 1 => D.out[k].id \in F
  PROVE  Stems(D, Confirmed(D, opId, v), F, {})
<1>1. CASE ~ \E k \in DOMAIN D.out : D.out[k].opId = opId
  BY <1>1, StemsSelf DEF Confirmed
<1>2. CASE \E k \in DOMAIN D.out : D.out[k].opId = opId
  <2> DEFINE k == CHOOSE k \in DOMAIN D.out : D.out[k].opId = opId
             i == D.out[k].id
             K == {j \in DOMAIN D.out : D.out[j].opId # opId}
             E == Without(D, K)
             r == [D.row[i] EXCEPT !.sv = v, !.ver = IF OpsOf(E, i) = {} THEN v ELSE @]
             G == WithRow(E, i, r)
  <2>1. Confirmed(D, opId, v) = IF ~ HasRow(D, i) THEN E ELSE G
    BY <1>2 DEF Confirmed, Without
  <2>2. k \in DOMAIN D.out /\ D.out[k].opId = opId
    BY <1>2
  <2> HIDE DEF k
  <2>3. D \in DeviceState(d) /\ D.out[k] \in PendingOp(d) /\ i \in Id
    BY <2>2, OutFacts DEF Fine, PendingOp
  <2> HIDE DEF i
  <2>4. k \in OpsOf(D, i)
    BY <2>2 DEF OpsOf, i
  <2>5. \A j \in DOMAIN D.out : j # k => j \in K
    BY <2>2 DEF Fine, Numbered
  <2>6. OpsOf(D, i) \cap K = OpsOf(D, i) \ {k}
    BY <2>2, <2>4, <2>5 DEF OpsOf
  <2>7. \A j \in Id : j # i => OpsOf(D, j) \subseteq K
    BY <2>5 DEF OpsOf, i
  <2>8. /\ Sound(D, i) /\ HasRow(D, i) /\ D.row[i] \in LocalRow
        /\ D.row[i].ver \in Nat
    BY <2>3, <2>4, RowOf
  <2>9. D.out[k].sent /\ (v >= 1 => i \in F)
        /\ (D.out[k].action = "upsert" => v = D.out[k].base + 1)
    BY <2>2 DEF i
  <2>10. \/ v >= 1
         \/ OpsOf(D, i) = {k} /\ D.row[i].deleted
    <3>1. CASE D.out[k].action = "upsert"
      BY <2>3, <2>9, <3>1 DEF PendingOp
    <3>2. CASE D.out[k].action = "delete"
      <4>1. D.row[i].deleted /\ \A j \in OpsOf(D, i) : j <= k /\ k <= j
        BY <2>4, <2>8, <2>9, <3>2 DEF Sound
      <4>2. \A j \in OpsOf(D, i) : j \in Nat /\ k \in Nat
        BY <2>2, <2>3, OutFacts DEF OpsOf
      <4> QED  BY <2>4, <4>1, <4>2
    <3> QED  BY <2>3, <3>1, <3>2 DEF PendingOp
  <2>11. K \in SUBSET (DOMAIN D.out)
    OBVIOUS
  <2> HIDE DEF K
  <2>12. Thinned(D, E, d, K)
    BY <2>3, <2>11, WithoutFacts
  <2> HIDE DEF E
  <2>13. /\ E \in DeviceState(d) /\ E.row = D.row /\ E.conf = D.conf
         /\ \A j \in Id : j # i => FirstIds(E, j) \subseteq FirstIds(D, j)
    BY <2>3, <2>7, <2>11, <2>12, ThinnedElsewhere DEF Thinned
  <2>14. OpsOf(D, i) = {k} => OpsOf(E, i) = {}
    BY <2>3, <2>6, <2>12 DEF Thinned
  <2>15. /\ r \in LocalRow /\ r.sv = v /\ r.data = D.row[i].data
         /\ r.deleted = D.row[i].deleted
         /\ r.ver = IF OpsOf(E, i) = {} THEN v ELSE D.row[i].ver
    <3> DEFINE m == IF OpsOf(E, i) = {} THEN v ELSE D.row[i].ver
               q == D.row[i]
    <3>1. m \in Nat /\ q \in LocalRow
      BY <2>8
    <3>2. r = [q EXCEPT !.sv = v, !.ver = m]
      OBVIOUS
    <3> HIDE DEF m, q, r
    <3>3. r \in LocalRow /\ r.sv = v /\ r.ver = m /\ r.data = q.data /\ r.deleted = q.deleted
      BY <3>1, <3>2 DEF LocalRow
    <3> QED  BY <3>3 DEF m, q
  <2> HIDE DEF r
  <2>16. Touched(E, G, d, i, r, E.conf[i], FirstIds(E, i))
    BY <2>3, <2>13, <2>15, WithRowTouched
  <2> HIDE DEF G
  <2>17. Touched(D, G, d, i, r, D.conf[i], FirstIds(E, i))
    BY <2>13, <2>16 DEF Touched
  <2>18. r.sv # 0 \/ FirstIds(E, i) = {}
    BY <2>10, <2>14, <2>15, NoFirsts
  <2>19. /\ r.sv >= 1 => i \in F
         /\ r.data # NoData /\ ~ r.deleted => r.ver >= 1
         /\ D.conf[i].kind = "version" => D.conf[i].state.ver >= 1 /\ i \in F
    BY <2>3, <2>9, <2>10, <2>15 DEF Rooted, LiveRow, HasRow
  <2>20. Stems(D, G, F, {})
    BY <2>3, <2>17, <2>18, <2>19, TouchedStems
  <2> QED  BY <2>1, <2>8, <2>20
<1> QED  BY <1>1, <1>2

\* A selected create is the first operation of a record that the server has not
\* confirmed; another upsert is of a record that it has.
LEMMA SelectedTraces ==
  ASSUME NEW d, NEW D, NEW E, NEW batch, Selects(D, E, batch, d), NEW F, Rooted(E, F),
         NEW n \in DOMAIN batch, batch[n].action = "upsert"
  PROVE  /\ batch[n].base = 0 => batch[n].opId \in Creators(E, batch[n].id)
         /\ batch[n].base # 0 => batch[n].id \in F
<1> DEFINE w == batch[n]
           i == w.id
<1>1. PICK k \in DOMAIN E.out : LET o == E.out[k]
                                IN  /\ o.sent /\ o.opId = w.opId /\ o.id = w.id
                                    /\ o.action = w.action /\ o.base = w.base
  BY DEF Selects
<1>2. E \in DeviceState(d) /\ Fine(E, d)
  BY DEF Selects, Fine
<1>3. E.out[k] \in PendingOp(d)
  BY <1>2, OutFacts
<1>4. i \in Id /\ k \in OpsOf(E, i)
  BY <1>1, <1>3 DEF PendingOp, OpsOf
<1>5. Sound(E, i) /\ E.row[i].sv \in Nat
  BY <1>2, <1>4, RowOf
<1>6. (\A j \in OpsOf(E, i) : k <= j) /\ w.base = E.row[i].sv
  BY <1>1, <1>4, <1>5 DEF Sound
<1>7. w.opId \in FirstIds(E, i)
  BY <1>1, <1>4, <1>6 DEF FirstIds
<1> QED  BY <1>4, <1>5, <1>6, <1>7 DEF Creators, Rooted

\* An operation that the device sent is the same after other steps.
LEMMA SentStays ==
  ASSUME NEW d, NEW D \in DeviceState(d), NEW E \in DeviceState(d), Follows(D, E),
         NEW m \in DOMAIN E.out, E.out[m].opId[2] <= D.made
  PROVE  \E j \in DOMAIN D.out : SameOp(E.out[m], D.out[j])
<1>1. E.out[m] \in PendingOp(d) /\ D.made \in Nat
  BY OutFacts DEF DeviceState
<1>2. E.out[m].opId[2] \in Nat
  BY <1>1 DEF PendingOp
<1>3. ~ (E.out[m].opId[2] > D.made)
  BY <1>1, <1>2
<1> QED  BY <1>3 DEF Follows

\* What is known of the answers to a batch of the device: what the server has
\* applied it has, and what it refused was not a create.
Trusted(D, batch, answers, n, F) ==
  \A k \in 1..n :
    /\ batch[k].id \in Id /\ batch[k].opId[2] <= D.made
    /\ answers[k].ver \in Nat
    /\ answers[k].state \in Row /\ answers[k].state.data \in Data(batch[k].id)
    /\ answers[k].status = "applied" =>
         \A j \in DOMAIN D.out : D.out[j].opId = batch[k].opId =>
           /\ D.out[j].sent
           /\ D.out[j].action = "upsert" => answers[k].ver = D.out[j].base + 1
           /\ answers[k].ver >= 1 => D.out[j].id \in F
    /\ answers[k].status = "conflict" =>
         batch[k].id \in F /\ answers[k].state.ver >= 1 /\ ~ Adoptable(batch[k], answers[k])

\* What a push result makes of a database, while the results are taken in.
LEMMA RefusedOn ==
  ASSUME NEW d, NEW D, Fine(D, d), NEW batch, NEW answers, NEW n \in Nat, NEW F,
         Trusted(D, batch, answers, n, F),
         NEW E, Leads(D, E, d, {}), E.made = D.made, NEW k \in 1..n
  PROVE  /\ Leads(D, Conflicted(E, batch[k], answers[k]), d, {})
         /\ Conflicted(E, batch[k], answers[k]).made = D.made
<1>1. E \in DeviceState(d) /\ Fine(E, d)
  BY DEF Leads, Fine
<1>2. /\ batch[k].id \in Id
      /\ answers[k].state \in Row /\ answers[k].state.data \in Data(batch[k].id)
  BY DEF Trusted
<1>3. Leads(E, Conflicted(E, batch[k], answers[k]), d, {})
  BY <1>1, <1>2, ConflictedFine
<1>4. Leads(D, Conflicted(E, batch[k], answers[k]), d, {})
  BY <1>3, LeadsOn
<1>5. Conflicted(E, batch[k], answers[k]).made = D.made
  BY <1>1, AnswerMakesNone
<1> QED  BY <1>4, <1>5

LEMMA AcceptedOn ==
  ASSUME NEW d, NEW D, Fine(D, d), NEW batch, NEW answers, NEW n \in Nat, NEW F,
         Trusted(D, batch, answers, n, F),
         NEW E, Leads(D, E, d, {}), E.made = D.made, NEW k \in 1..n,
         answers[k].status = "applied"
  PROVE  /\ Leads(D, Confirmed(E, batch[k].opId, answers[k].ver), d, {})
         /\ Confirmed(E, batch[k].opId, answers[k].ver).made = D.made
         /\ \A m \in DOMAIN E.out : E.out[m].opId = batch[k].opId =>
              /\ E.out[m].sent
              /\ E.out[m].action = "upsert" => answers[k].ver = E.out[m].base + 1
              /\ answers[k].ver >= 1 => E.out[m].id \in F
<1>1. D \in DeviceState(d) /\ E \in DeviceState(d) /\ Fine(E, d) /\ Follows(D, E)
  BY DEF Leads, Fine
<1>2. batch[k].opId[2] <= D.made /\ answers[k].ver \in Nat
  BY DEF Trusted
<1>3. ASSUME NEW m \in DOMAIN E.out, E.out[m].opId = batch[k].opId
      PROVE  /\ E.out[m].sent
             /\ E.out[m].action = "upsert" => answers[k].ver = E.out[m].base + 1
             /\ answers[k].ver >= 1 => E.out[m].id \in F
  <2>1. PICK j \in DOMAIN D.out : SameOp(E.out[m], D.out[j])
    BY <1>1, <1>2, <1>3, SentStays
  <2>2. D.out[j].opId = batch[k].opId
    BY <1>3, <2>1 DEF SameOp
  <2>3. /\ D.out[j].sent
        /\ D.out[j].action = "upsert" => answers[k].ver = D.out[j].base + 1
        /\ answers[k].ver >= 1 => D.out[j].id \in F
    BY <2>2 DEF Trusted
  <2>4. D.out[j] \in PendingOp(d) /\ E.out[m] \in PendingOp(d)
    BY <1>1, OutFacts
  <2>5. D.out[j].sent \in BOOLEAN /\ E.out[m].sent \in BOOLEAN
    BY <2>4 DEF PendingOp
  <2> QED  BY <2>1, <2>3, <2>5 DEF SameOp
<1>4. Leads(E, Confirmed(E, batch[k].opId, answers[k].ver), d, {})
  BY <1>1, <1>2, <1>3, ConfirmedFine
<1>5. Leads(D, Confirmed(E, batch[k].opId, answers[k].ver), d, {})
  BY <1>4, LeadsOn
<1>6. Confirmed(E, batch[k].opId, answers[k].ver).made = D.made
  BY <1>1, AnswerMakesNone
<1> QED  BY <1>3, <1>5, <1>6

LEMMA PushTakenInStems ==
  ASSUME NEW d, NEW D, Fine(D, d), NEW batch, NEW answers, NEW n \in Nat,
         DOMAIN batch = 1..n, NEW F, Rooted(D, F), Trusted(D, batch, answers, n, F)
  PROVE  Stems(D, PushTakenIn(D, batch, answers), F, {})
<1> DEFINE X == {E \in DeviceState(d) : Leads(D, E, d, {}) /\ E.made = D.made
                                        /\ Stems(D, E, F, {})}
<1>1. D \in X
  <2>1. D \in DeviceState(d)
    BY DEF Fine
  <2> QED  BY <2>1, LeadsSelf, StemsSelf
<1>2. ASSUME NEW E, E \in X
      PROVE  /\ Leads(D, E, d, {}) /\ E.made = D.made /\ Stems(D, E, F, {})
             /\ Fine(E, d) /\ Rooted(E, F)
  BY <1>2 DEF Leads, Stems
<1>3. ASSUME NEW E, Leads(D, E, d, {}), E.made = D.made, Stems(D, E, F, {})
      PROVE  E \in X
  BY <1>3 DEF Leads, Fine
<1> HIDE DEF X
<1>4. AllConflicted(D, batch, answers) \in X
  <2>1. ASSUME NEW E \in X, NEW k \in 1..n, answers[k].status = "conflict"
        PROVE  Conflicted(E, batch[k], answers[k]) \in X
    <3>1. Leads(D, Conflicted(E, batch[k], answers[k]), d, {})
          /\ Conflicted(E, batch[k], answers[k]).made = D.made
      <4>1. Leads(D, E, d, {}) /\ E.made = D.made
        BY <1>2
      <4> QED  BY <4>1, RefusedOn
    <3>2. Stems(E, Conflicted(E, batch[k], answers[k]), F, {})
      <4>1. /\ batch[k].id \in Id /\ batch[k].id \in F /\ answers[k].state \in Row
            /\ answers[k].state.ver >= 1 /\ ~ Adoptable(batch[k], answers[k])
        BY <2>1 DEF Trusted
      <4> QED  BY <1>2, <4>1, ConflictedStems
    <3> QED  BY <1>2, <1>3, <3>1, <3>2, StemsOn
  <2> QED  BY <1>1, <2>1, ConflictsKeep
<1>5. \A E \in X : AllConfirmed(E, batch, answers) \in X
  <2>1. ASSUME NEW E \in X, NEW k \in 1..n, answers[k].status = "applied"
        PROVE  Confirmed(E, batch[k].opId, answers[k].ver) \in X
    <3>1. /\ Leads(D, Confirmed(E, batch[k].opId, answers[k].ver), d, {})
          /\ Confirmed(E, batch[k].opId, answers[k].ver).made = D.made
          /\ \A m \in DOMAIN E.out : E.out[m].opId = batch[k].opId =>
               /\ E.out[m].sent
               /\ E.out[m].action = "upsert" => answers[k].ver = E.out[m].base + 1
               /\ answers[k].ver >= 1 => E.out[m].id \in F
      <4>1. Leads(D, E, d, {}) /\ E.made = D.made
        BY <1>2
      <4> QED  BY <2>1, <4>1, AcceptedOn
    <3>2. Stems(E, Confirmed(E, batch[k].opId, answers[k].ver), F, {})
      <4>1. answers[k].ver \in Nat
        BY DEF Trusted
      <4> QED  BY <1>2, <3>1, <4>1, ConfirmedStems
    <3> QED  BY <1>2, <1>3, <3>1, <3>2, StemsOn
  <2> QED  BY <2>1, ConfirmsKeep
<1>6. PushTakenIn(D, batch, answers) \in X
  BY <1>4, <1>5, InTwoPasses
<1> QED  BY <1>2, <1>6

LEMMA PageTakenInStems ==
  ASSUME NEW d, NEW D, Fine(D, d), NEW page, NEW n \in Nat, DOMAIN page = 1..n,
         NEW F, Rooted(D, F),
         \A k \in 1..n : /\ page[k] \in PulledChange /\ page[k].data \in Data(page[k].id)
                         /\ page[k].ver >= 1 /\ page[k].id \in F
  PROVE  Stems(D, PageTakenIn(D, page), F, {})
<1> DEFINE X == {E \in DeviceState(d) : Fine(E, d) /\ Stems(D, E, F, {})}
<1>1. D \in X
  <2>1. D \in DeviceState(d)
    BY DEF Fine
  <2> QED  BY <2>1, StemsSelf
<1>2. ASSUME NEW E \in X, NEW k \in 1..n  PROVE ChangeTakenIn(E, page[k]) \in X
  <2>1. Fine(E, d) /\ Stems(D, E, F, {}) /\ Rooted(E, F)
    BY DEF Stems
  <2>2. Leads(E, ChangeTakenIn(E, page[k]), d, {page[k].id})
    BY <2>1, ChangeTakenInFine
  <2>3. Stems(E, ChangeTakenIn(E, page[k]), F, {})
    BY <2>1, ChangeStems
  <2>4. Stems(D, ChangeTakenIn(E, page[k]), F, {})
    BY <2>1, <2>3, StemsOn
  <2> QED  BY <2>2, <2>4 DEF Leads, Fine
<1>3. PageTakenIn(D, page) \in X
  <2> HIDE DEF X
  <2> QED  BY <1>1, <1>2, PageKeeps
<1> QED  BY <1>3

-----------------------------------------------------------------------------
(* What becomes of an edit: the local data x of record i.                  *)

\* The row still has the edit, or the conflict of the record does.
Retained(D, i, x) == D.row[i].data = x /\ (~ D.row[i].deleted \/ D.conf[i].local = x)

\* While a page is taken in: the edit waits, or a conflict about it is open.
Held(D, i, x) ==
  /\ D.row[i].data = x
  /\ \/ ~ D.row[i].deleted /\ ~ Clean(D, i)
     \/ D.conf[i].kind # "none" /\ D.conf[i].local = x

LEMMA RetainedElsewhere ==
  ASSUME NEW d, NEW D, NEW E, NEW i \in Id, NEW j \in Id, j # i, NEW r, NEW c, NEW A, NEW x,
         Touched(D, E, d, j, r, c, A)
  PROVE  /\ Retained(D, i, x) => Retained(E, i, x)
         /\ Held(D, i, x) => Held(E, i, x)
BY DEF Touched, Retained, Held, Clean

\* An answer that is not adopted leaves the data in the row or in the conflict.
LEMMA ConflictedRetains ==
  ASSUME NEW d, NEW D, Fine(D, d), NEW w, NEW a, w.id \in Id, a.state \in Row,
         ~ Adoptable(w, a), NEW i \in Id, NEW x, x # NoData, Retained(D, i, x)
  PROVE  Retained(Conflicted(D, w, a), i, x)
<1> DEFINE j == w.id
           E == DeleteWins(D, j, a.state.ver)
           G == Recording(D, j, "version", a.state, D.row[j].data)
           c == [kind |-> "version", state |-> a.state, local |-> D.row[j].data]
           e == [kind |-> "deleted",
                 state |-> [ver |-> a.state.ver, deleted |-> TRUE, data |-> NoData],
                 local |-> D.row[j].data]
<1>1. Conflicted(D, w, a) \in {E, G}
  BY DEF Conflicted
<1>2. /\ D \in DeviceState(d) /\ D.row[j].data \in Payload \cup {NoData}
      /\ "version" \in {"none", "version", "deleted"} /\ a.state.ver \in Nat
  BY RowOf, NoRowFacts DEF Row
<1>3. PICK r : /\ Touched(D, E, d, j, r, e, {})
               /\ HasRow(D, j) => r.sv = a.state.ver /\ r.deleted /\ r.data = D.row[j].data
  BY <1>2, DeleteWinsTouched
<1>4. Touched(D, G, d, j, D.row[j], c, FirstIds(D, j))
  BY <1>2, RecordingTouched
<1>5. e.local = D.row[j].data /\ c.local = D.row[j].data
  OBVIOUS
<1> HIDE DEF E, G, c, e
<1>6. CASE i = j
  <2>1. HasRow(D, j) /\ D.row[j].data = x
    BY <1>6 DEF Retained, HasRow
  <2>2. Retained(E, i, x)
    BY <1>3, <1>5, <1>6, <2>1 DEF Touched, Retained
  <2>3. Retained(G, i, x)
    BY <1>4, <1>5, <1>6, <2>1 DEF Touched, Retained
  <2> QED  BY <1>1, <2>2, <2>3
<1>7. CASE i # j
  <2>1. Retained(E, i, x)
    BY <1>3, <1>7, RetainedElsewhere
  <2>2. Retained(G, i, x)
    BY <1>4, <1>7, RetainedElsewhere
  <2> QED  BY <1>1, <2>1, <2>2
<1> QED  BY <1>6, <1>7

\* A confirmation touches versions only.
LEMMA ConfirmedRetains ==
  ASSUME NEW d, NEW D, Fine(D, d), NEW opId, NEW v \in Nat, NEW i \in Id, NEW x,
         Retained(D, i, x)
  PROVE  Retained(Confirmed(D, opId, v), i, x)
<1>1. CASE ~ \E k \in DOMAIN D.out : D.out[k].opId = opId
  BY <1>1 DEF Confirmed
<1>2. CASE \E k \in DOMAIN D.out : D.out[k].opId = opId
  <2> DEFINE k == CHOOSE k \in DOMAIN D.out : D.out[k].opId = opId
             j == D.out[k].id
             K == {l \in DOMAIN D.out : D.out[l].opId # opId}
             E == Without(D, K)
             q == D.row[j]
             m == IF OpsOf(E, j) = {} THEN v ELSE q.ver
             r == [q EXCEPT !.sv = v, !.ver = m]
             G == WithRow(E, j, r)
  <2>1. Confirmed(D, opId, v) \in {E, G}
    BY <1>2 DEF Confirmed, Without
  <2>2. k \in DOMAIN D.out
    BY <1>2
  <2> HIDE DEF k
  <2>3. D \in DeviceState(d) /\ j \in Id
    BY <2>2, OutFacts DEF Fine, PendingOp
  <2> HIDE DEF j
  <2>4. q \in LocalRow /\ q.ver \in Nat
    BY <2>3, RowOf
  <2>5. K \in SUBSET (DOMAIN D.out)
    OBVIOUS
  <2> HIDE DEF K
  <2>6. Thinned(D, E, d, K)
    BY <2>3, <2>5, WithoutFacts
  <2> HIDE DEF E
  <2>7. E \in DeviceState(d) /\ E.row = D.row /\ E.conf = D.conf
    BY <2>6 DEF Thinned
  <2>8. r \in LocalRow /\ r.data = q.data /\ r.deleted = q.deleted
    <3>1. m \in Nat
      BY <2>4
    <3> HIDE DEF q, m
    <3> QED  BY <2>4, <3>1 DEF LocalRow
  <2> HIDE DEF r
  <2>9. /\ G.row[j] = r /\ G.conf = D.conf
        /\ \A l \in Id : l # j => G.row[l] = D.row[l]
    <3>1. RowWritten(E, G, d, j, r)
      BY <2>3, <2>7, <2>8, WithRowFacts
    <3> HIDE DEF G
    <3> QED  BY <2>7, <3>1 DEF RowWritten
  <2> HIDE DEF G
  <2>10. Retained(E, i, x)
    BY <2>7 DEF Retained
  <2>11. Retained(G, i, x)
    <3>1. CASE i = j
      BY <2>8, <2>9, <3>1 DEF Retained
    <3>2. CASE i # j
      BY <2>9, <3>2 DEF Retained
    <3> QED  BY <3>1, <3>2
  <2> QED  BY <2>1, <2>10, <2>11
<1> QED  BY <1>1, <1>2

\* The results of a push leave an edit in its row or in its conflict.
LEMMA PushTakenInRetains ==
  ASSUME NEW d, NEW D, Fine(D, d), NEW batch, NEW answers, NEW n \in Nat,
         DOMAIN batch = 1..n, NEW F, Trusted(D, batch, answers, n, F),
         NEW i \in Id, NEW x, x # NoData, Retained(D, i, x)
  PROVE  Retained(PushTakenIn(D, batch, answers), i, x)
<1> DEFINE X == {E \in DeviceState(d) : Leads(D, E, d, {}) /\ E.made = D.made
                                        /\ Retained(E, i, x)}
<1>1. D \in X
  <2>1. D \in DeviceState(d)
    BY DEF Fine
  <2> QED  BY <2>1, LeadsSelf
<1>2. ASSUME NEW E, E \in X
      PROVE  /\ Leads(D, E, d, {}) /\ E.made = D.made /\ Retained(E, i, x)
             /\ Fine(E, d)
  BY <1>2 DEF Leads
<1>3. ASSUME NEW E, Leads(D, E, d, {}), E.made = D.made, Retained(E, i, x)
      PROVE  E \in X
  BY <1>3 DEF Leads, Fine
<1> HIDE DEF X
<1>4. AllConflicted(D, batch, answers) \in X
  <2>1. ASSUME NEW E \in X, NEW k \in 1..n, answers[k].status = "conflict"
        PROVE  Conflicted(E, batch[k], answers[k]) \in X
    <3>0. Leads(D, E, d, {}) /\ E.made = D.made
      BY <1>2
    <3>1. Leads(D, Conflicted(E, batch[k], answers[k]), d, {})
          /\ Conflicted(E, batch[k], answers[k]).made = D.made
      BY <3>0, RefusedOn
    <3>2. Retained(Conflicted(E, batch[k], answers[k]), i, x)
      <4>1. batch[k].id \in Id /\ answers[k].state \in Row /\ ~ Adoptable(batch[k], answers[k])
        BY <2>1 DEF Trusted
      <4>2. Fine(E, d) /\ Retained(E, i, x)
        BY <1>2
      <4> QED  BY <4>1, <4>2, ConflictedRetains
    <3> QED  BY <1>3, <3>1, <3>2
  <2> QED  BY <1>1, <2>1, ConflictsKeep
<1>5. \A E \in X : AllConfirmed(E, batch, answers) \in X
  <2>1. ASSUME NEW E \in X, NEW k \in 1..n, answers[k].status = "applied"
        PROVE  Confirmed(E, batch[k].opId, answers[k].ver) \in X
    <3>0. Leads(D, E, d, {}) /\ E.made = D.made
      BY <1>2
    <3>1. /\ Leads(D, Confirmed(E, batch[k].opId, answers[k].ver), d, {})
          /\ Confirmed(E, batch[k].opId, answers[k].ver).made = D.made
      BY <2>1, <3>0, AcceptedOn
    <3>2. Retained(Confirmed(E, batch[k].opId, answers[k].ver), i, x)
      <4>1. answers[k].ver \in Nat
        BY DEF Trusted
      <4>2. Fine(E, d) /\ Retained(E, i, x)
        BY <1>2
      <4> QED  BY <4>1, <4>2, ConfirmedRetains
    <3> QED  BY <1>3, <3>1, <3>2
  <2> QED  BY <2>1, ConfirmsKeep
<1>6. PushTakenIn(D, batch, answers) \in X
  BY <1>4, <1>5, InTwoPasses
<1> QED  BY <1>2, <1>6

\* A pulled change does not overwrite an edit: it is recorded beside it.
LEMMA ChangeHolds ==
  ASSUME NEW d, NEW D, Fine(D, d), NEW ch \in PulledChange, ch.data \in Data(ch.id),
         NEW i \in Id, NEW x, x # NoData, Held(D, i, x)
  PROVE  Held(ChangeTakenIn(D, ch), i, x)
<1> DEFINE j == ch.id
           r == D.row[j]
           E == ChangeTakenIn(D, ch)
           up == [ver |-> ch.ver, sv |-> ch.ver, deleted |-> FALSE, data |-> ch.data]
           dead == [ver |-> ch.ver, sv |-> ch.ver, deleted |-> TRUE, data |-> r.data]
           bad == [r EXCEPT !.ver = ch.ver, !.sv = ch.ver]
           state == StateOf(ch)
<1>1. /\ D \in DeviceState(d) /\ j \in Id /\ ch.ver \in Nat
      /\ ch.data \in Payload \cup {NoData}
      /\ r \in LocalRow /\ r.data \in Payload \cup {NoData}
  BY RowOf, NoRowFacts DEF PulledChange
<1>2. up \in LocalRow /\ dead \in LocalRow /\ bad \in LocalRow /\ state \in Row
  <2>1. up \in LocalRow /\ dead \in LocalRow /\ state \in Row
    BY <1>1 DEF LocalRow, StateOf, Row
  <2>2. bad \in LocalRow
    <3> HIDE DEF r
    <3> QED  BY <1>1 DEF LocalRow
  <2> QED  BY <2>1, <2>2
<1> HIDE DEF up, dead, bad, state
<1>3. CASE i # j
  <2>1. PICK q : Touched(D, DeleteWins(D, j, ch.ver), d, j, q,
                         [kind |-> "deleted",
                          state |-> [ver |-> ch.ver, deleted |-> TRUE, data |-> NoData],
                          local |-> D.row[j].data], {})
    BY <1>1, DeleteWinsTouched
  <2>2. Held(DeleteWins(D, j, ch.ver), i, x)
    BY <1>1, <1>3, <2>1, RetainedElsewhere
  <2>3. r.deleted => Held(LocalDeleteWins(D, j, state), i, x)
    <3>1. r.deleted => \E b : Touched(D, LocalDeleteWins(D, j, state), d, j, b,
                                      [kind |-> "deleted", state |-> state,
                                       local |-> state.data], {})
      BY <1>1, <1>2, LocalDeleteWinsTouched
    <3>2. ASSUME r.deleted  PROVE Held(LocalDeleteWins(D, j, state), i, x)
      <4>1. PICK b : Touched(D, LocalDeleteWins(D, j, state), d, j, b,
                             [kind |-> "deleted", state |-> state,
                              local |-> state.data], {})
        BY <3>1, <3>2
      <4> QED  BY <1>1, <1>3, <4>1, RetainedElsewhere
    <3> QED  BY <3>2
  <2>4. ASSUME NEW s \in LocalRow
        PROVE  /\ Held(WithRow(D, j, s), i, x)
               /\ Held(DropOps(WithRow(D, j, s), j), i, x)
    <3>1. /\ Touched(D, WithRow(D, j, s), d, j, s, D.conf[j], FirstIds(D, j))
          /\ Touched(D, DropOps(WithRow(D, j, s), j), d, j, s, D.conf[j], {})
      BY <1>1, WithRowTouched, SettledTouched
    <3>2. Held(WithRow(D, j, s), i, x)
      BY <1>1, <1>3, <3>1, RetainedElsewhere
    <3>3. Held(DropOps(WithRow(D, j, s), j), i, x)
      BY <1>1, <1>3, <3>1, RetainedElsewhere
    <3> QED  BY <3>2, <3>3
  <2>5. Held(Recording(D, j, "version", state, r.data), i, x)
    <3>1. Touched(D, Recording(D, j, "version", state, r.data), d, j, D.row[j],
                  [kind |-> "version", state |-> state, local |-> r.data], FirstIds(D, j))
      BY <1>1, <1>2, RecordingTouched
    <3> QED  BY <1>1, <1>3, <3>1, RetainedElsewhere
  <2>6. \/ E = D \/ E = WithRow(D, j, up) \/ E = WithRow(D, j, dead)
        \/ E = Recording(D, j, "version", state, r.data)
        \/ E = DropOps(WithRow(D, j, bad), j)
        \/ E = DeleteWins(D, j, ch.ver)
        \/ r.deleted /\ E = LocalDeleteWins(D, j, state)
    BY DEF ChangeTakenIn, up, dead, bad, state
  <2> HIDE DEF E
  <2>7. Held(E, i, x)
    BY <1>2, <2>2, <2>3, <2>4, <2>5, <2>6
  <2> QED  BY <2>7 DEF E
<1>4. CASE i = j
  <2>1. HasRow(D, j) /\ r.data = x
    BY <1>4 DEF Held, HasRow
  <2>2. \/ ~ r.deleted /\ ~ Clean(D, j)
        \/ D.conf[j].kind # "none" /\ D.conf[j].local = x
    BY <1>4 DEF Held
  <2>3. \/ E = D
        \/ E = Recording(D, j, "version", state, r.data)
        \/ E = DeleteWins(D, j, ch.ver)
    BY <2>1, <2>2 DEF ChangeTakenIn, OverClean, state
  <2>4. Held(Recording(D, j, "version", state, r.data), i, x)
    <3> DEFINE c == [kind |-> "version", state |-> state, local |-> r.data]
    <3>1. Touched(D, Recording(D, j, "version", state, r.data), d, j, r, c, FirstIds(D, j))
      BY <1>1, <1>2, RecordingTouched
    <3>2. c.kind # "none" /\ c.local = r.data
      OBVIOUS
    <3> HIDE DEF c
    <3> QED  BY <1>4, <2>1, <3>1, <3>2 DEF Touched, Held
  <2>5. Held(DeleteWins(D, j, ch.ver), i, x)
    <3> DEFINE c == [kind |-> "deleted",
                     state |-> [ver |-> ch.ver, deleted |-> TRUE, data |-> NoData],
                     local |-> D.row[j].data]
    <3>1. PICK q : /\ Touched(D, DeleteWins(D, j, ch.ver), d, j, q, c, {})
                   /\ HasRow(D, j) => q.sv = ch.ver /\ q.deleted /\ q.data = D.row[j].data
      BY <1>1, DeleteWinsTouched
    <3>2. c.kind # "none" /\ c.local = r.data
      OBVIOUS
    <3> HIDE DEF c
    <3> QED  BY <1>4, <2>1, <3>1, <3>2 DEF Touched, Held
  <2> HIDE DEF E
  <2>6. Held(E, i, x)
    BY <2>3, <2>4, <2>5
  <2> QED  BY <2>6 DEF E
<1> QED  BY <1>3, <1>4

LEMMA PageTakenInHolds ==
  ASSUME NEW d, NEW D, Fine(D, d), NEW page, NEW n \in Nat, DOMAIN page = 1..n,
         \A k \in 1..n : page[k] \in PulledChange /\ page[k].data \in Data(page[k].id),
         NEW i \in Id, NEW x, x # NoData, Held(D, i, x)
  PROVE  Held(PageTakenIn(D, page), i, x)
<1> DEFINE X == {E \in DeviceState(d) : Fine(E, d) /\ Held(E, i, x)}
<1>1. D \in X
  BY DEF Fine
<1>2. ASSUME NEW E \in X, NEW k \in 1..n  PROVE ChangeTakenIn(E, page[k]) \in X
  <2>1. Fine(E, d) /\ Held(E, i, x)
    OBVIOUS
  <2>2. Leads(E, ChangeTakenIn(E, page[k]), d, {page[k].id})
    BY <2>1, ChangeTakenInFine
  <2>3. Held(ChangeTakenIn(E, page[k]), i, x)
    BY <2>1, ChangeHolds
  <2> QED  BY <2>2, <2>3 DEF Leads, Fine
<1>3. PageTakenIn(D, page) \in X
  <2> HIDE DEF X
  <2> QED  BY <1>1, <1>2, PageKeeps
<1> QED  BY <1>3

-----------------------------------------------------------------------------
(* The operations of a record: all of them, the last and the first.        *)

Queue(D, i) == {D.out[k] : k \in OpsOf(D, i)}
Lasts(D, i) == {D.out[k] : k \in {m \in OpsOf(D, i) : \A j \in OpsOf(D, i) : j <= m}}
Heads(D, i) == {D.out[k] : k \in {m \in OpsOf(D, i) : \A j \in OpsOf(D, i) : m <= j}}

\* Record j has no operation in E that it did not have in D, and the same last
\* and first ones if it has any.
Fewer(D, E, j) ==
  /\ Queue(E, j) \subseteq Queue(D, j)
  /\ Lasts(E, j) \subseteq Lasts(D, j)
  /\ Heads(E, j) \subseteq Heads(D, j)

\* E is D with the operations of record i replaced: they are of Q, the last of
\* L and the first of H.
Requeued(D, E, i, Q, L, H) ==
  /\ Queue(E, i) \subseteq Q /\ Lasts(E, i) \subseteq L /\ Heads(E, i) \subseteq H
  /\ \A j \in Id : j # i => Fewer(D, E, j)

LEMMA SameQueues ==
  ASSUME NEW D, NEW E, E.out = D.out, NEW i
  PROVE  /\ Queue(E, i) = Queue(D, i) /\ Lasts(E, i) = Lasts(D, i) /\ Heads(E, i) = Heads(D, i)
         /\ Fewer(D, E, i)
<1>1. OpsOf(E, i) = OpsOf(D, i)
  BY DEF OpsOf
<1> QED  BY <1>1 DEF Queue, Lasts, Heads, Fewer

LEMMA NoQueue ==
  ASSUME NEW E, NEW j, OpsOf(E, j) = {}
  PROVE  Queue(E, j) = {} /\ Lasts(E, j) = {} /\ Heads(E, j) = {}
BY DEF Queue, Lasts, Heads

\* The last and the first operations stay where they were when others go.
LEMMA ThinnedQueue ==
  ASSUME NEW d, NEW D \in DeviceState(d), NEW K \in SUBSET (DOMAIN D.out),
         NEW E, Thinned(D, E, d, K), NEW j \in Id
  PROVE  /\ Queue(E, j) \subseteq Queue(D, j)
         /\ (\A l \in OpsOf(D, j) : \E h \in OpsOf(D, j) \cap K : h >= l)
              => Lasts(E, j) \subseteq Lasts(D, j)
         /\ (\A l \in OpsOf(D, j) : \E h \in OpsOf(D, j) \cap K : h <= l)
              => Heads(E, j) \subseteq Heads(D, j)
<1>1. /\ \A n \in DOMAIN E.out : Nth(K, n) \in K /\ E.out[n] = D.out[Nth(K, n)]
      /\ \A m, n \in DOMAIN E.out : Nth(K, m) <= Nth(K, n) => m <= n
      /\ \A k \in K : \E n \in DOMAIN E.out : Nth(K, n) = k
      /\ E \in DeviceState(d)
  BY DEF Thinned
<1>2. \A x : x \in DOMAIN E.out \/ x \in DOMAIN D.out => x \in Nat
  <2>1. /\ DOMAIN E.out = 1..Len(E.out) /\ Len(E.out) \in Nat
        /\ DOMAIN D.out = 1..Len(D.out) /\ Len(D.out) \in Nat
    BY <1>1, OutFacts
  <2> QED  BY <2>1
<1>3. \A n \in OpsOf(E, j) : /\ n \in DOMAIN E.out /\ E.out[n] = D.out[Nth(K, n)]
                             /\ Nth(K, n) \in OpsOf(D, j) /\ n \in Nat /\ Nth(K, n) \in Nat
  BY <1>1, <1>2 DEF OpsOf
<1>4. \A h \in OpsOf(D, j) \cap K : \E m \in OpsOf(E, j) : Nth(K, m) = h /\ h \in Nat
  BY <1>1, <1>2 DEF OpsOf
<1>5. Queue(E, j) \subseteq Queue(D, j)
  BY <1>3 DEF Queue
<1>6. ASSUME NEW n \in OpsOf(E, j), NEW l \in OpsOf(D, j), NEW h \in OpsOf(D, j) \cap K
      PROVE  /\ (\A m \in OpsOf(E, j) : m <= n) /\ h >= l => l <= Nth(K, n)
             /\ (\A m \in OpsOf(E, j) : n <= m) /\ h <= l => Nth(K, n) <= l
  <2> DEFINE k == Nth(K, n)
  <2>1. PICK m \in OpsOf(E, j) : Nth(K, m) = h /\ h \in Nat
    BY <1>4
  <2>2. m \in Nat /\ n \in Nat /\ k \in Nat /\ l \in Nat /\ m \in DOMAIN E.out /\ n \in DOMAIN E.out
    BY <1>2, <1>3 DEF OpsOf
  <2>3. /\ h <= k => m <= n
        /\ k <= h => n <= m
    BY <1>1, <2>1, <2>2
  <2>4. m = n => h = k
    BY <2>1
  <2> HIDE DEF k
  <2>5. (\A o \in OpsOf(E, j) : o <= n) => m <= n
    BY <2>1
  <2>6. (\A o \in OpsOf(E, j) : n <= o) => n <= m
    BY <2>1
  <2> QED  BY <2>1, <2>2, <2>3, <2>4, <2>5, <2>6 DEF k
<1>7. ASSUME \A l \in OpsOf(D, j) : \E h \in OpsOf(D, j) \cap K : h >= l,
             NEW n \in OpsOf(E, j), \A m \in OpsOf(E, j) : m <= n
      PROVE  E.out[n] \in Lasts(D, j)
  <2>1. \A l \in OpsOf(D, j) : l <= Nth(K, n)
    BY <1>6, <1>7
  <2> QED  BY <1>3, <2>1 DEF Lasts
<1>8. ASSUME \A l \in OpsOf(D, j) : \E h \in OpsOf(D, j) \cap K : h <= l,
             NEW n \in OpsOf(E, j), \A m \in OpsOf(E, j) : n <= m
      PROVE  E.out[n] \in Heads(D, j)
  <2>1. \A l \in OpsOf(D, j) : Nth(K, n) <= l
    BY <1>6, <1>8
  <2> QED  BY <1>3, <2>1 DEF Heads
<1>9. (\A l \in OpsOf(D, j) : \E h \in OpsOf(D, j) \cap K : h >= l)
        => Lasts(E, j) \subseteq Lasts(D, j)
  BY <1>7 DEF Lasts
<1>10. (\A l \in OpsOf(D, j) : \E h \in OpsOf(D, j) \cap K : h <= l)
        => Heads(E, j) \subseteq Heads(D, j)
  BY <1>8 DEF Heads
<1> QED  BY <1>5, <1>9, <1>10

LEMMA ThinnedLasts ==
  ASSUME NEW d, NEW D \in DeviceState(d), NEW K \in SUBSET (DOMAIN D.out),
         NEW E, Thinned(D, E, d, K), NEW j \in Id,
         \A l \in OpsOf(D, j) : \E h \in OpsOf(D, j) \cap K : h >= l
  PROVE  Lasts(E, j) \subseteq Lasts(D, j)
BY ThinnedQueue

LEMMA ThinnedHeads ==
  ASSUME NEW d, NEW D \in DeviceState(d), NEW K \in SUBSET (DOMAIN D.out),
         NEW E, Thinned(D, E, d, K), NEW j \in Id,
         \A l \in OpsOf(D, j) : \E h \in OpsOf(D, j) \cap K : h <= l
  PROVE  Heads(E, j) \subseteq Heads(D, j)
BY ThinnedQueue

LEMMA ThinnedFewer ==
  ASSUME NEW d, NEW D \in DeviceState(d), NEW K \in SUBSET (DOMAIN D.out),
         NEW E, Thinned(D, E, d, K), NEW j \in Id, OpsOf(D, j) \subseteq K
  PROVE  Fewer(D, E, j)
<1>1. \A l \in OpsOf(D, j) : l \in OpsOf(D, j) \cap K /\ l <= l /\ l >= l
  BY OutFacts DEF OpsOf
<1>2. /\ \A l \in OpsOf(D, j) : \E h \in OpsOf(D, j) \cap K : h >= l
      /\ \A l \in OpsOf(D, j) : \E h \in OpsOf(D, j) \cap K : h <= l
  BY <1>1
<1>3. Queue(E, j) \subseteq Queue(D, j)
  BY ThinnedQueue
<1>4. Lasts(E, j) \subseteq Lasts(D, j)
  BY <1>2, ThinnedLasts
<1>5. Heads(E, j) \subseteq Heads(D, j)
  BY <1>2, ThinnedHeads
<1> QED  BY <1>3, <1>4, <1>5 DEF Fewer

LEMMA DropRequeued ==
  ASSUME NEW d, NEW D \in DeviceState(d), NEW i \in Id, NEW E, E.out = DropOps(D, i).out
  PROVE  Requeued(D, E, i, {}, {}, {}) /\ OpsOf(E, i) = {}
<1> DEFINE K == DOMAIN D.out \ OpsOf(D, i)
           F == DropOps(D, i)
<1>1. K \in SUBSET (DOMAIN D.out) /\ OpsOf(D, i) \cap K = {} /\ F = Without(D, K)
      /\ \A j \in Id : j # i => OpsOf(D, j) \subseteq K
  BY DEF OpsOf, DropOps, Without
<1>0. E.out = F.out
  OBVIOUS
<1> HIDE DEF K, F
<1>2. Thinned(D, F, d, K)
  BY <1>1, WithoutFacts
<1>3. OpsOf(F, i) = {}
  BY <1>1, <1>2 DEF Thinned
<1>4. \A j \in Id : j # i => Fewer(D, F, j)
  BY <1>1, <1>2, ThinnedFewer
<1>5. OpsOf(E, i) = {}
  BY <1>0, <1>3 DEF OpsOf
<1>6. \A j \in Id : j # i => Fewer(D, E, j)
  BY <1>0, <1>4, SameQueues DEF Fewer
<1> QED  BY <1>5, <1>6, NoQueue DEF Requeued

\* E is D with operation o queued for record i.
Appends(D, E, i, o) ==
  Requeued(D, E, i, Queue(D, i) \cup {o}, {o}, IF OpsOf(D, i) = {} THEN {o} ELSE Heads(D, i))

LEMMA EnqueuedRequeued ==
  ASSUME NEW d, NEW D \in DeviceState(d), NEW i \in Id,
         NEW action \in {"upsert", "delete"}, NEW data \in Payload \cup {NoData},
         NEW cascade \in BOOLEAN, NEW base \in Nat,
         NEW E, E = Enqueued(D, i, action, data, cascade, base)
  PROVE  \E o : /\ Appends(D, E, i, o)
                /\ o.action = action /\ o.data = data /\ ~ o.sent
<1> DEFINE n == Len(D.out) + 1
           o == [opId |-> <<D.self, D.made + 1>>, action |-> action, id |-> i,
                 base |-> base, data |-> data, cascade |-> cascade,
                 sent |-> FALSE, tries |-> 0]
<1>0. /\ D.out \in Seq(PendingOp(d)) /\ Len(D.out) \in Nat /\ DOMAIN D.out = 1..Len(D.out)
      /\ D.self = d /\ D.made \in Nat
  BY OutFacts DEF DeviceState
<1>1. Queued(D, E, d, i, n, action, data)
  BY EnqueuedFacts
<1>2. E.out = Append(D.out, o)
  BY DEF Enqueued, DeviceState
<1>3. o \in PendingOp(d)
  BY <1>0 DEF PendingOp
<1>12. o.action = action /\ o.data = data /\ ~ o.sent
  OBVIOUS
<1> HIDE DEF o
<1>4. (\A k \in 1..Len(D.out) : E.out[k] = D.out[k]) /\ E.out[n] = o
  BY <1>0, <1>2, <1>3, AppendProperties
<1>5. \A j \in Id : \A k \in OpsOf(D, j) : E.out[k] = D.out[k] /\ k < n
  BY <1>0, <1>4 DEF OpsOf
<1>6. /\ OpsOf(E, i) = OpsOf(D, i) \cup {n}
      /\ \A j \in Id : j # i => OpsOf(E, j) = OpsOf(D, j)
  BY <1>1 DEF Queued
<1>7. n \in Nat /\ \A k \in OpsOf(D, i) : k \in Nat
  BY <1>0 DEF OpsOf
<1> HIDE DEF n
<1>8. \A j \in Id : j # i => Fewer(D, E, j)
  BY <1>5, <1>6 DEF Fewer, Queue, Lasts, Heads
<1>9. Queue(E, i) \subseteq Queue(D, i) \cup {o}
  BY <1>4, <1>5, <1>6 DEF Queue
<1>10. Lasts(E, i) \subseteq {o}
  <2>1. ASSUME NEW m \in OpsOf(E, i), \A j \in OpsOf(E, i) : j <= m  PROVE m = n
    BY <1>5, <1>6, <1>7, <2>1
  <2> QED  BY <1>4, <2>1 DEF Lasts
<1>11. Heads(E, i) \subseteq IF OpsOf(D, i) = {} THEN {o} ELSE Heads(D, i)
  <2>1. CASE OpsOf(D, i) = {}
    BY <1>4, <1>6, <2>1 DEF Heads
  <2>2. CASE OpsOf(D, i) # {}
    <3>1. ASSUME NEW m \in OpsOf(E, i), \A j \in OpsOf(E, i) : m <= j
          PROVE  E.out[m] \in Heads(D, i)
      <4>1. m # n
        BY <1>5, <1>6, <1>7, <2>2, <3>1
      <4>2. m \in OpsOf(D, i) /\ \A j \in OpsOf(D, i) : m <= j
        BY <1>6, <3>1, <4>1
      <4> QED  BY <1>5, <4>2 DEF Heads
    <3> QED  BY <2>2, <3>1 DEF Heads
  <2> QED  BY <2>1, <2>2
<1> QED  BY <1>8, <1>9, <1>10, <1>11, <1>12 DEF Requeued, Appends

LEMMA RequeuedOn ==
  ASSUME NEW D, NEW E, NEW G, NEW i \in Id, NEW Q, NEW L, NEW H, NEW R, NEW M, NEW I,
         Requeued(D, E, i, Q, L, H), Requeued(E, G, i, R, M, I)
  PROVE  Requeued(D, G, i, R, M, I)
BY DEF Requeued, Fewer

-----------------------------------------------------------------------------
(* Why a CLEAN record is what the server has at its version.               *)

\* What is said of record i - its version, whether it is deleted, its data -
\* is so if server state s has that version of it; it has no later one yet.
Says(s, i, v, deleted, data) ==
  /\ v <= s.rec[i].ver
  /\ v = s.rec[i].ver => /\ deleted = s.rec[i].deleted
                         /\ ~ deleted => data # NoData /\ data = s.rec[i].data

\* The same of a device's row.  Unless `plain', the record may have been
\* created from it: a create drops the archived mark.
Matches(s, i, v, deleted, data, plain) ==
  /\ v <= s.rec[i].ver
  /\ v = s.rec[i].ver =>
       /\ deleted = s.rec[i].deleted
       /\ ~ deleted => \/ data = s.rec[i].data
                       \/ ~ plain /\ v = 1 /\ CreatedData(i, data) = s.rec[i].data

\* What an upsert writes.
Written(o) == IF o.base = 0 THEN CreatedData(o.id, o.data) ELSE o.data

\* If s has applied operation o, at the version answered the record is what the
\* operation says.
DoneAs(s, o) ==
  s.applied[o.opId] # NotApplied =>
    /\ s.applied[o.opId] >= 1
    /\ Says(s, o.id, s.applied[o.opId], o.action = "delete", Written(o))

\* A row r and conflict c of record i, with operations Q, the last of L and the
\* first of H.  If `plain', nothing is archived before the server knows it.
Just(s, plain, i, r, c, Q, L, H) ==
  /\ r.data # NoData /\ r.ver = r.sv => Matches(s, i, r.sv, r.deleted, r.data, plain)
  /\ c.kind = "version" => Says(s, i, c.state.ver, c.state.deleted, c.state.data)
  /\ \A o \in L : IF r.deleted THEN o.action = "delete"
                  ELSE o.action = "upsert" /\ o.data = r.data
  /\ r.deleted /\ r.sv = 0 => \A o \in H : o.sent /\ o.action = "upsert"
  /\ plain /\ r.sv = 0 => \A o \in Q : o.action = "upsert" => ~ o.data.archived
  /\ \A o \in Q : o.sent => DoneAs(s, o)

JustAt(D, s, plain, i) ==
  Just(s, plain, i, D.row[i], D.conf[i], Queue(D, i), Lasts(D, i), Heads(D, i))

Candid(D, s, plain) == \A i \in Id : JustAt(D, s, plain, i)

LEMMA JustFewer ==
  ASSUME NEW s, NEW plain, NEW i, NEW r, NEW c, NEW Q, NEW L, NEW H, NEW R, NEW M, NEW I,
         Just(s, plain, i, r, c, Q, L, H), R \subseteq Q, M \subseteq L, I \subseteq H
  PROVE  Just(s, plain, i, r, c, R, M, I)
BY DEF Just

LEMMA QuietJust ==
  ASSUME NEW s, NEW plain, NEW i, NEW r, NEW c,
         r.data # NoData /\ r.ver = r.sv => Matches(s, i, r.sv, r.deleted, r.data, plain),
         c.kind = "version" => Says(s, i, c.state.ver, c.state.deleted, c.state.data)
  PROVE  Just(s, plain, i, r, c, {}, {}, {})
BY DEF Just

LEMMA SaysMatches ==
  ASSUME NEW s, NEW i, NEW v, NEW deleted, NEW data, NEW plain, Says(s, i, v, deleted, data)
  PROVE  Matches(s, i, v, deleted, data, plain)
BY DEF Says, Matches

\* Only record i is touched, and its new state is just.
LEMMA RequeuedCandid ==
  ASSUME NEW d, NEW D, NEW E, NEW s, NEW plain, Candid(D, s, plain), NEW i \in Id,
         NEW r, NEW c, NEW A, Touched(D, E, d, i, r, c, A),
         NEW Q, NEW L, NEW H, Requeued(D, E, i, Q, L, H),
         Just(s, plain, i, r, c, Q, L, H)
  PROVE  Candid(E, s, plain)
<1>1. JustAt(E, s, plain, i)
  BY JustFewer DEF JustAt, Touched, Requeued
<1>2. ASSUME NEW j \in Id, j # i  PROVE JustAt(E, s, plain, j)
  <2>1. JustAt(D, s, plain, j) /\ Fewer(D, E, j) /\ E.row[j] = D.row[j] /\ E.conf[j] = D.conf[j]
    BY <1>2 DEF Candid, Touched, Requeued
  <2> QED  BY <2>1, JustFewer DEF JustAt, Fewer
<1> QED  BY <1>1, <1>2 DEF Candid

\* Only the row and the conflict change.
LEMMA UnqueuedCandid ==
  ASSUME NEW d, NEW D, NEW E, NEW s, NEW plain, Candid(D, s, plain), NEW i \in Id,
         NEW r, NEW c, NEW A, Touched(D, E, d, i, r, c, A), E.out = D.out,
         Just(s, plain, i, r, c, Queue(D, i), Lasts(D, i), Heads(D, i))
  PROVE  Candid(E, s, plain)
<1>1. Requeued(D, E, i, Queue(D, i), Lasts(D, i), Heads(D, i))
  BY SameQueues DEF Requeued
<1> QED  BY <1>1, RequeuedCandid

\* The operations of the record go.
LEMMA DroppedCandid ==
  ASSUME NEW d, NEW D \in DeviceState(d), NEW E, NEW s, NEW plain, Candid(D, s, plain), NEW i \in Id,
         NEW r, NEW c, NEW A, Touched(D, E, d, i, r, c, A), E.out = DropOps(D, i).out,
         r.data # NoData /\ r.ver = r.sv => Matches(s, i, r.sv, r.deleted, r.data, plain),
         c.kind = "version" => Says(s, i, c.state.ver, c.state.deleted, c.state.data)
  PROVE  Candid(E, s, plain)
<1>1. Requeued(D, E, i, {}, {}, {})
  BY DropRequeued
<1>2. Just(s, plain, i, r, c, {}, {}, {})
  BY QuietJust
<1> QED  BY <1>1, <1>2, RequeuedCandid

LEMMA CreateCandid ==
  ASSUME NEW d, NEW D, Fine(D, d), NEW s, NEW plain, Candid(D, s, plain), NEW i \in Id,
         ~ HasRow(D, i), NEW data \in PayloadOf(i)
  PROVE  Candid(LocalCreate(D, i, data), s, plain)
<1> DEFINE new == [data EXCEPT !.archived = FALSE]
           r == [ver |-> 1, sv |-> 0, deleted |-> FALSE, data |-> new]
           G == WithRow(D, i, r)
           E == LocalCreate(D, i, data)
<1>1. new \in PayloadOf(i) /\ ~ new.archived
  BY NewPayload DEF PayloadOf, Payload
<1>2. new \in Payload \cup {NoData} /\ "upsert" \in {"upsert", "delete"} /\ FALSE \in BOOLEAN
      /\ 0 \in Nat
  BY <1>1 DEF PayloadOf
<1>3. E = Enqueued(G, i, "upsert", new, FALSE, 0)
  BY DEF LocalCreate
<1> HIDE DEF new, E
<1>4. r \in LocalRow /\ r.sv = 0 /\ r.ver = 1 /\ ~ r.deleted /\ r.data = new
  BY <1>2 DEF LocalRow
<1>5. D \in DeviceState(d) /\ OpsOf(D, i) = {}
  BY RowOf DEF Fine
<1> HIDE DEF r
<1>6. Touched(D, E, d, i, r, D.conf[i], FirstIds(E, i))
  BY <1>2, <1>3, <1>4, <1>5, WrittenTouched
<1>7. G \in DeviceState(d) /\ G.out = D.out /\ OpsOf(G, i) = {}
  BY <1>4, <1>5, WithRowFacts DEF RowWritten
<1> HIDE DEF G
<1>8. PICK o : Appends(G, E, i, o) /\ o.action = "upsert" /\ o.data = new /\ ~ o.sent
  <2> DEFINE act == "upsert"
             no == FALSE
  <2>1. /\ E = Enqueued(G, i, act, new, no, 0) /\ act \in {"upsert", "delete"}
        /\ no \in BOOLEAN /\ 0 \in Nat
    BY <1>3
  <2> HIDE DEF act, no
  <2>2. PICK o : Appends(G, E, i, o) /\ o.action = act /\ o.data = new /\ ~ o.sent
    BY <1>2, <1>7, <2>1, EnqueuedRequeued
  <2> QED  BY <2>2 DEF act
<1>9. Requeued(D, E, i, {o}, {o}, {o})
  <2>1. Queue(G, i) = {}
    BY <1>7, NoQueue
  <2>2. Requeued(G, E, i, {o}, {o}, {o})
    BY <1>7, <1>8, <2>1 DEF Appends
  <2>3. \A j \in Id : Fewer(D, G, j)
    BY <1>7, SameQueues
  <2> QED  BY <2>2, <2>3 DEF Requeued, Fewer
<1>10. Just(s, plain, i, r, D.conf[i], {o}, {o}, {o})
  <2>1. JustAt(D, s, plain, i)
    BY DEF Candid
  <2> QED  BY <1>1, <1>4, <1>8, <2>1 DEF Just, JustAt
<1>11. Candid(E, s, plain)
  BY <1>6, <1>9, <1>10, RequeuedCandid
<1> QED  BY <1>11 DEF E

\* The operation that carries row r, into which record i of D is rewritten.
Carries(D, i, r, action, data, plain) ==
  /\ r.deleted => action = "delete" /\ ~ Unborn(D, i)
  /\ ~ r.deleted => action = "upsert" /\ data = r.data /\ (plain => ~ data.archived)

\* A live row is rewritten and an operation queued (update, remove).
LEMMA RewriteCandid ==
  ASSUME NEW d, NEW D, Fine(D, d), NEW s, NEW plain, Candid(D, s, plain), NEW i \in Id,
         LiveRow(D, i), NEW r \in LocalRow,
         r.ver = D.row[i].ver + 1, r.sv = D.row[i].sv,
         NEW action \in {"upsert", "delete"}, NEW data \in Payload \cup {NoData},
         NEW cascade \in BOOLEAN, NEW base \in Nat,
         Carries(D, i, r, action, data, plain),
         NEW E, E = Enqueued(WithRow(D, i, r), i, action, data, cascade, base)
  PROVE  Candid(E, s, plain) /\ E \in DeviceState(d)
<1> DEFINE G == WithRow(D, i, r)
<1>1. D \in DeviceState(d) /\ Sound(D, i) /\ D.row[i].ver \in Nat /\ D.row[i].sv \in Nat
      /\ D.row[i].ver >= D.row[i].sv + Cardinality(OpsOf(D, i)) /\ Cardinality(OpsOf(D, i)) \in Nat
  BY RowOf DEF Fine
<1>2. Touched(D, E, d, i, r, D.conf[i], FirstIds(E, i))
  BY <1>1, WrittenTouched
<1>3. G \in DeviceState(d) /\ G.out = D.out /\ OpsOf(G, i) = OpsOf(D, i)
  BY <1>1, WithRowFacts DEF RowWritten
<1>4. E = Enqueued(G, i, action, data, cascade, base)
  OBVIOUS
<1> HIDE DEF G
<1>6. PICK o : /\ Appends(G, E, i, o)
               /\ o.action = action /\ o.data = data /\ ~ o.sent
  BY <1>3, <1>4, EnqueuedRequeued
<1>7. Requeued(D, E, i, Queue(D, i) \cup {o}, {o}, IF OpsOf(D, i) = {} THEN {o} ELSE Heads(D, i))
  <2>1. \A j \in Id : Fewer(D, G, j)
    BY <1>3, SameQueues
  <2>2. Queue(G, i) = Queue(D, i) /\ Heads(G, i) = Heads(D, i)
    BY <1>3, SameQueues
  <2> QED  BY <1>3, <1>6, <2>1, <2>2 DEF Appends, Requeued, Fewer
<1>8. r.ver # r.sv
  BY <1>1
<1>9. ASSUME r.deleted, r.sv = 0
      PROVE  \A p \in IF OpsOf(D, i) = {} THEN {o} ELSE Heads(D, i) : p.sent /\ p.action = "upsert"
  <2>1. PICK k \in OpsOf(D, i) : D.out[k].sent
    BY <1>9 DEF Unborn, Carries
  <2>2. \A j \in OpsOf(D, i) : k <= j
    BY <1>1, <2>1 DEF Sound
  <2>3. \A j \in OpsOf(D, i) : j \in Nat
    BY <1>1, OutFacts DEF OpsOf
  <2>4. \A j \in OpsOf(D, i) : (\A l \in OpsOf(D, i) : j <= l) => j = k
    BY <2>1, <2>2, <2>3
  <2>5. D.out[k].action = "upsert"
    <3>1. D.out[k].action \in {"upsert", "delete"} /\ ~ D.row[i].deleted
      BY <1>1, OutFacts DEF OpsOf, PendingOp, LiveRow
    <3> QED  BY <1>1, <3>1 DEF Sound
  <2> QED  BY <2>1, <2>4, <2>5 DEF Heads
<1>10. JustAt(D, s, plain, i)
  BY DEF Candid
<1>11. Just(s, plain, i, r, D.conf[i], Queue(D, i) \cup {o}, {o},
            IF OpsOf(D, i) = {} THEN {o} ELSE Heads(D, i))
  BY <1>6, <1>8, <1>9, <1>10 DEF Just, JustAt, Carries
<1>12. Candid(E, s, plain)
  BY <1>2, <1>7, <1>11, RequeuedCandid
<1> QED  BY <1>2, <1>12 DEF Touched

LEMMA UpdateCandid ==
  ASSUME NEW d, NEW D, Fine(D, d), NEW s, NEW plain, Candid(D, s, plain), NEW i \in Id,
         LiveRow(D, i), NEW data \in PayloadOf(i), plain => ~ data.archived
  PROVE  Candid(LocalUpdate(D, i, data), s, plain)
<1> DEFINE r == [D.row[i] EXCEPT !.ver = @ + 1, !.data = data]
           v == D.row[i].sv
           E == LocalUpdate(D, i, data)
<1>1. D.row[i] \in LocalRow /\ D.row[i].ver \in Nat /\ v \in Nat /\ ~ D.row[i].deleted
  BY RowOf DEF LiveRow
<1>2. data \in Payload \cup {NoData} /\ "upsert" \in {"upsert", "delete"} /\ FALSE \in BOOLEAN
  BY DEF PayloadOf
<1>3. r \in LocalRow /\ r.ver = D.row[i].ver + 1 /\ r.sv = v /\ ~ r.deleted /\ r.data = data
  <2> DEFINE q == D.row[i]
             w == q.ver + 1
  <2>1. r = [q EXCEPT !.ver = w, !.data = data] /\ w \in Nat /\ q \in LocalRow /\ ~ q.deleted
    BY <1>1
  <2> HIDE DEF r, q, w
  <2>2. r \in LocalRow /\ r.ver = w /\ r.sv = q.sv /\ r.deleted = q.deleted /\ r.data = data
    BY <1>2, <2>1 DEF LocalRow
  <2> QED  BY <2>1, <2>2 DEF q, w
<1>4. E = Enqueued(WithRow(D, i, r), i, "upsert", data, FALSE, v)
  BY DEF LocalUpdate
<1> HIDE DEF r, E, v
<1>5. r.sv = D.row[i].sv
  BY <1>3 DEF v
<1> DEFINE act == "upsert"
           no == FALSE
<1>6. Carries(D, i, r, act, data, plain)
  BY <1>3 DEF Carries
<1>7. /\ E = Enqueued(WithRow(D, i, r), i, act, data, no, v)
      /\ act \in {"upsert", "delete"} /\ no \in BOOLEAN
  BY <1>4
<1> HIDE DEF act, no
<1>8. Candid(E, s, plain)
  BY <1>1, <1>2, <1>3, <1>5, <1>6, <1>7, RewriteCandid
<1> QED  BY <1>8 DEF E

\* The swept rows are DIRTY or gone, without operations.
LEMMA SweptCandid ==
  ASSUME NEW d, NEW D \in DeviceState(d), NEW s, NEW plain, Candid(D, s, plain),
         NEW R \in SUBSET Id, NEW gone, \A j \in R : D.row[j].ver >= D.row[j].sv,
         NEW E, E = Swept(D, R, gone)
  PROVE  Candid(E, s, plain)
<1> DEFINE rows == [j \in Id |-> IF j \notin R THEN D.row[j]
                                 ELSE IF j \in gone THEN NoRow ELSE Buried(D.row[j])]
           K == {k \in DOMAIN D.out : D.out[k].id \notin R}
           G == Without(D, K)
<1>0. K \in SUBSET (DOMAIN D.out)
  OBVIOUS
<1>1. E.row = rows /\ E.out = G.out /\ E.conf = D.conf
  <2> DEFINE q == Kept(D.out, K)
  <2>1. E = [D EXCEPT !.row = rows, !.out = q]
    BY DEF Swept, DeviceState
  <2>2. G = [D EXCEPT !.out = q]
    BY DEF Without
  <2> HIDE DEF q, rows
  <2> QED  BY <2>1, <2>2 DEF DeviceState
<1>2. /\ \A j \in R : OpsOf(D, j) \cap K = {}
      /\ \A j \in Id : j \notin R => OpsOf(D, j) \subseteq K
  BY DEF OpsOf
<1> HIDE DEF K
<1>3. Thinned(D, G, d, K)
  BY <1>0, WithoutFacts
<1> HIDE DEF G
<1>4. \A j \in R : OpsOf(G, j) = {}
  BY <1>2, <1>3 DEF Thinned
<1>5. ASSUME NEW j \in Id, j \notin R  PROVE JustAt(E, s, plain, j)
  <2>1. Fewer(D, G, j)
    BY <1>0, <1>2, <1>3, <1>5, ThinnedFewer
  <2>2. Fewer(D, E, j)
    BY <1>1, <2>1, SameQueues DEF Fewer
  <2>3. E.row[j] = D.row[j] /\ E.conf[j] = D.conf[j] /\ JustAt(D, s, plain, j)
    BY <1>1, <1>5 DEF Candid
  <2> QED  BY <2>2, <2>3, JustFewer DEF JustAt, Fewer
<1>6. ASSUME NEW j \in R  PROVE JustAt(E, s, plain, j)
  <2>1. OpsOf(E, j) = {}
    BY <1>1, <1>4 DEF OpsOf
  <2>2. E.row[j] = IF j \in gone THEN NoRow ELSE Buried(D.row[j])
    BY <1>1
  <2>3. D.row[j] \in LocalRow /\ D.row[j].ver \in Nat /\ D.row[j].sv \in Nat
    BY DEF DeviceState, LocalRow
  <2>4. Buried(D.row[j]).ver # Buried(D.row[j]).sv
    BY <2>3, BuriedRow
  <2>5. E.row[j].data # NoData => E.row[j].ver # E.row[j].sv
    BY <2>2, <2>4, NoRowFacts
  <2>6. E.conf[j] = D.conf[j] /\ JustAt(D, s, plain, j)
    BY <1>1 DEF Candid
  <2>7. D.conf[j].kind = "version" =>
          Says(s, j, D.conf[j].state.ver, D.conf[j].state.deleted, D.conf[j].state.data)
    BY <2>6 DEF JustAt, Just
  <2>8. Just(s, plain, j, E.row[j], E.conf[j], {}, {}, {})
    BY <2>5, <2>6, <2>7, QuietJust
  <2> QED  BY <2>1, <2>8, NoQueue DEF JustAt
<1> QED  BY <1>5, <1>6 DEF Candid

LEMMA RemoveCandid ==
  ASSUME NEW d, NEW D, Fine(D, d), NEW s, NEW plain, Candid(D, s, plain), NEW i \in Id,
         LiveRow(D, i), NEW cascade \in BOOLEAN
  PROVE  Candid(LocalRemove(D, i, cascade), s, plain)
<1> DEFINE R == IF i \in Category THEN Referencing(D, i) ELSE {}
           r == Buried(D.row[i])
           v == D.row[i].sv
           E == Enqueued(WithRow(D, i, r), i, "delete", NoData, cascade, v)
           G == {j \in R : Unborn(D, j)}
           H == LocalRemove(D, i, cascade)
<1>0. /\ D \in DeviceState(d) /\ D.row[i] \in LocalRow /\ v \in Nat
      /\ NoData \in Payload \cup {NoData} /\ "delete" \in {"upsert", "delete"}
      /\ \A j \in Id : D.row[j].ver >= D.row[j].sv /\ D.row[j].ver \in Nat /\ D.row[j].sv \in Nat
  <2>1. \A j \in Id : D.row[j].ver >= D.row[j].sv + Cardinality(OpsOf(D, j)) /\ D.row[j].ver \in Nat
           /\ D.row[j].sv \in Nat /\ Cardinality(OpsOf(D, j)) \in Nat
    BY RowOf
  <2> QED  BY <2>1, RowOf
<1>1. R \in SUBSET Id /\ {i} \cup R \in SUBSET Id
  BY DEF Referencing, Id
<1>2. H = IF Unborn(D, i) THEN Swept(D, {i} \cup R, {i} \cup R)
          ELSE IF cascade THEN Swept(E, R, G) ELSE E
  BY DEF LocalRemove
<1>3. /\ r \in LocalRow /\ r.sv = v /\ r.deleted /\ r.ver = D.row[i].ver + 1
  BY <1>0, BuriedRow
<1> HIDE DEF H, R, r, G, v
<1>4. Candid(Swept(D, {i} \cup R, {i} \cup R), s, plain)
  BY <1>0, <1>1, SweptCandid
<1>5. ASSUME ~ Unborn(D, i)  PROVE Candid(E, s, plain) /\ E \in DeviceState(d)
  <2>1. r.sv = D.row[i].sv
    BY <1>3 DEF v
  <2> DEFINE act == "delete"
             none == NoData
  <2>2. Carries(D, i, r, act, none, plain)
    BY <1>3, <1>5 DEF Carries
  <2>3. /\ E = Enqueued(WithRow(D, i, r), i, act, none, cascade, v)
        /\ act \in {"upsert", "delete"} /\ none \in Payload \cup {NoData}
    OBVIOUS
  <2> HIDE DEF E, act, none
  <2>4. r \in LocalRow /\ r.ver = D.row[i].ver + 1 /\ v \in Nat
    BY <1>0, <1>3
  <2>5. Candid(E, s, plain)
    BY <2>1, <2>2, <2>3, <2>4, RewriteCandid
  <2>6. E \in DeviceState(d)
    BY <2>1, <2>2, <2>3, <2>4, RewriteCandid
  <2> QED  BY <2>5, <2>6
<1>6. Touched(D, E, d, i, r, D.conf[i], FirstIds(D, i))
  <2> HIDE DEF E
  <2>1. E = Enqueued(WithRow(D, i, r), i, "delete", NoData, cascade, v)
    BY DEF E
  <2> HIDE DEF Touched
  <2> QED  BY <1>0, <1>3, <2>1, WrittenTouched
<1> HIDE DEF E
<1>7. \A j \in R : E.row[j].ver >= E.row[j].sv
  <2>1. \A j \in Id : j # i => E.row[j] = D.row[j]
    BY <1>6 DEF Touched
  <2>2. E.row[i].ver >= E.row[i].sv
    <3>1. E.row[i] = r
      BY <1>6 DEF Touched
    <3> QED  BY <1>0, <1>3, <3>1 DEF v
  <2> QED  BY <1>0, <1>1, <2>1, <2>2
<1>8. ASSUME ~ Unborn(D, i)  PROVE Candid(Swept(E, R, G), s, plain)
  BY <1>1, <1>5, <1>7, <1>8, SweptCandid
<1> QED  BY <1>2, <1>4, <1>5, <1>8 DEF H

\* The record's operations are replaced by one.
Replaces(D, E, i, o) == Requeued(D, E, i, {o}, {o}, {o})

LEMMA AgainRequeued ==
  ASSUME NEW d, NEW D \in DeviceState(d), NEW i \in Id, NEW G \in DeviceState(d),
         G.out = DropOps(D, i).out,
         NEW action \in {"upsert", "delete"}, NEW data \in Payload \cup {NoData},
         NEW cascade \in BOOLEAN, NEW base \in Nat,
         NEW F, F = Enqueued(G, i, action, data, cascade, base), NEW E, E.out = F.out
  PROVE  \E o : /\ Replaces(D, E, i, o)
                /\ o.action = action /\ o.data = data /\ ~ o.sent
<1>1. Requeued(D, G, i, {}, {}, {}) /\ OpsOf(G, i) = {}
  BY DropRequeued
<1>2. PICK o : Appends(G, F, i, o) /\ o.action = action /\ o.data = data /\ ~ o.sent
  BY EnqueuedRequeued
<1>3. Requeued(G, F, i, {o}, {o}, {o})
  <2>1. Queue(G, i) = {}
    BY <1>1, NoQueue
  <2> QED  BY <1>1, <1>2, <2>1 DEF Appends
<1>5. Requeued(D, F, i, {o}, {o}, {o})
  BY <1>1, <1>3, RequeuedOn
<1>6. Requeued(D, E, i, {o}, {o}, {o})
  BY <1>5, SameQueues DEF Requeued, Fewer
<1> QED  BY <1>2, <1>6 DEF Replaces

\* A row that is pushed again on the server's version.
LEMMA AgainJust ==
  ASSUME NEW s, NEW plain, NEW i, NEW r, NEW c, c.kind # "version", NEW o,
         r.sv >= 1, r.sv \in Nat, r.ver # r.sv, ~ o.sent,
         r.deleted => o.action = "delete",
         ~ r.deleted => o.action = "upsert" /\ o.data = r.data
  PROVE  Just(s, plain, i, r, c, {o}, {o}, {o})
<1>1. r.sv # 0
  OBVIOUS
<1> QED  BY <1>1 DEF Just

\* Recording a conflict leaves the outbox.
LEMMA RecordingOut ==
  ASSUME NEW d, NEW D \in DeviceState(d), NEW i, NEW kind, NEW state, NEW local
  PROVE  /\ Recording(D, i, kind, state, local).out = D.out
         /\ Resolved(D, i).out = D.out
         /\ \A r : WithRow(D, i, r).out = D.out
         /\ \A r : DropOps(WithRow(D, i, r), i).out = DropOps(D, i).out
<1>1. /\ Recording(D, i, kind, state, local).out = D.out
      /\ Resolved(D, i).out = D.out
      /\ \A r : WithRow(D, i, r).out = D.out
  BY DEF Recording, Resolved, WithRow, DeviceState
<1>2. ASSUME NEW r  PROVE DropOps(WithRow(D, i, r), i).out = DropOps(D, i).out
  <2> DEFINE G == WithRow(D, i, r)
             K == DOMAIN D.out \ OpsOf(D, i)
             q == Kept(D.out, K)
  <2>1. G.out = D.out /\ OpsOf(G, i) = OpsOf(D, i)
    BY <1>1 DEF OpsOf
  <2>2. DropOps(D, i) = [D EXCEPT !.out = q]
    BY DEF DropOps
  <2>3. DropOps(G, i) = [G EXCEPT !.out = q]
    BY <2>1 DEF DropOps
  <2> HIDE DEF q
  <2>4. DropOps(D, i).out = q
    BY <2>2 DEF DeviceState
  <2>5. DropOps(G, i).out = q
    BY <2>3 DEF DeviceState, WithRow
  <2> QED  BY <2>4, <2>5
<1> QED  BY <1>1, <1>2

LEMMA ResolvedCandid ==
  ASSUME NEW d, NEW D, Fine(D, d), NEW s, NEW plain, Candid(D, s, plain), NEW i \in Id
  PROVE  Candid(Resolved(D, i), s, plain)
<1> DEFINE c == [kind |-> "none", state |-> Absent, local |-> NoData]
           E == Resolved(D, i)
<1>1. D \in DeviceState(d)
  BY DEF Fine
<1>2. Touched(D, E, d, i, D.row[i], c, FirstIds(D, i)) /\ E.out = D.out
  <2>1. E.out = D.out
    BY <1>1, RecordingOut
  <2> QED  BY <1>1, <2>1, ResolvedIs, RecordingTouched
<1>3. c.kind # "version"
  OBVIOUS
<1> HIDE DEF c, E
<1>4. JustAt(D, s, plain, i)
  BY DEF Candid
<1>5. Just(s, plain, i, D.row[i], c, Queue(D, i), Lasts(D, i), Heads(D, i))
  BY <1>3, <1>4 DEF JustAt, Just
<1>6. Candid(E, s, plain)
  BY <1>2, <1>5, UnqueuedCandid
<1> QED  BY <1>6 DEF E

\* A version conflict is recorded with what the server says.
LEMMA RecordedCandid ==
  ASSUME NEW d, NEW D, Fine(D, d), NEW s, NEW plain, Candid(D, s, plain), NEW i \in Id,
         NEW state \in Row, Says(s, i, state.ver, state.deleted, state.data)
  PROVE  Candid(Recording(D, i, "version", state, D.row[i].data), s, plain)
<1> DEFINE c == [kind |-> "version", state |-> state, local |-> D.row[i].data]
           E == Recording(D, i, "version", state, D.row[i].data)
<1>1. D \in DeviceState(d) /\ D.row[i].data \in Payload \cup {NoData}
      /\ "version" \in {"none", "version", "deleted"}
  BY RowOf, NoRowFacts
<1>2. Touched(D, E, d, i, D.row[i], c, FirstIds(D, i))
  BY <1>1, RecordingTouched
<1>3. E.out = D.out
  BY <1>1, RecordingOut
<1>4. c.state = state
  OBVIOUS
<1> HIDE DEF c, E
<1>5. JustAt(D, s, plain, i)
  BY DEF Candid
<1>6. Just(s, plain, i, D.row[i], c, Queue(D, i), Lasts(D, i), Heads(D, i))
  BY <1>4, <1>5 DEF JustAt, Just
<1>7. Candid(E, s, plain)
  BY <1>2, <1>3, <1>6, UnqueuedCandid
<1> QED  BY <1>7 DEF E

\* The row becomes what the server says, the operations stay (there are none)
\* or go.
LEMMA OverwrittenCandid ==
  ASSUME NEW d, NEW D, Fine(D, d), NEW s, NEW plain, Candid(D, s, plain), NEW i \in Id,
         NEW r \in LocalRow, Matches(s, i, r.sv, r.deleted, r.data, plain)
  PROVE  /\ OpsOf(D, i) = {} => Candid(WithRow(D, i, r), s, plain)
         /\ Candid(DropOps(WithRow(D, i, r), i), s, plain)
<1>1. D \in DeviceState(d) /\ JustAt(D, s, plain, i)
  BY DEF Fine, Candid
<1>2. /\ Touched(D, WithRow(D, i, r), d, i, r, D.conf[i], FirstIds(D, i))
      /\ Touched(D, DropOps(WithRow(D, i, r), i), d, i, r, D.conf[i], {})
  BY <1>1, WithRowTouched, SettledTouched
<1>3. /\ WithRow(D, i, r).out = D.out
      /\ DropOps(WithRow(D, i, r), i).out = DropOps(D, i).out
  BY <1>1, RecordingOut
<1>4. D.conf[i].kind = "version" =>
        Says(s, i, D.conf[i].state.ver, D.conf[i].state.deleted, D.conf[i].state.data)
  BY <1>1 DEF JustAt, Just
<1>5. Candid(DropOps(WithRow(D, i, r), i), s, plain)
  BY <1>1, <1>2, <1>3, <1>4, DroppedCandid
<1>6. ASSUME OpsOf(D, i) = {}  PROVE Candid(WithRow(D, i, r), s, plain)
  <2>1. Queue(D, i) = {} /\ Lasts(D, i) = {} /\ Heads(D, i) = {}
    BY <1>6, NoQueue
  <2>2. Just(s, plain, i, r, D.conf[i], {}, {}, {})
    BY <1>4, QuietJust
  <2>3. Just(s, plain, i, r, D.conf[i], Queue(D, i), Lasts(D, i), Heads(D, i))
    BY <2>1, <2>2
  <2> QED  BY <1>2, <1>3, <2>3, UnqueuedCandid
<1> QED  BY <1>5, <1>6

LEMMA DeleteWinsCandid ==
  ASSUME NEW d, NEW D, Fine(D, d), NEW s, NEW plain, Candid(D, s, plain), NEW i \in Id,
         NEW v \in Nat, NEW data, Says(s, i, v, TRUE, data)
  PROVE  Candid(DeleteWins(D, i, v), s, plain)
<1> DEFINE c == [kind |-> "deleted", state |-> [ver |-> v, deleted |-> TRUE, data |-> NoData],
                 local |-> D.row[i].data]
           q == [ver |-> v, sv |-> v, deleted |-> TRUE, data |-> D.row[i].data]
           E == DeleteWins(D, i, v)
           F == IF HasRow(D, i) THEN WithRow(D, i, q) ELSE D
<1>1. PICK r : /\ Touched(D, E, d, i, r, c, {})
               /\ HasRow(D, i) => r.sv = v /\ r.deleted /\ r.data = D.row[i].data
               /\ ~ HasRow(D, i) => r = D.row[i]
  BY DeleteWinsTouched
<1>2. D \in DeviceState(d) /\ D.row[i] \in LocalRow /\ E \in DeviceState(d)
  BY <1>1, RowOf DEF Fine, Touched
<1>3. E.out = DropOps(D, i).out
  <2>1. F \in DeviceState(d)
    <3>1. q \in LocalRow
      BY <1>2 DEF LocalRow
    <3> HIDE DEF q
    <3>2. RowWritten(D, WithRow(D, i, q), d, i, q)
      BY <1>2, <3>1, WithRowFacts
    <3> QED  BY <1>2, <3>2 DEF RowWritten
  <2>2. DropOps(F, i) \in DeviceState(d)
    <3> HIDE DEF F
    <3> QED  BY <2>1, DropFacts DEF Dropped
  <2>3. E.out = DropOps(F, i).out
    <3>1. E = Recording(DropOps(F, i), i, "deleted", [ver |-> v, deleted |-> TRUE, data |-> NoData],
                        D.row[i].data)
      BY DEF DeleteWins
    <3> HIDE DEF F, E
    <3> QED  BY <2>2, <3>1, RecordingOut
  <2>4. DropOps(F, i).out = DropOps(D, i).out
    BY <1>2, RecordingOut
  <2> QED  BY <2>3, <2>4
<1>4. c.kind # "version"
  OBVIOUS
<1>5. r.data # NoData => Matches(s, i, r.sv, r.deleted, r.data, plain)
  <2>1. Matches(s, i, v, TRUE, r.data, plain)
    BY DEF Says, Matches
  <2> HIDE DEF Matches
  <2>2. r.deleted \in BOOLEAN
    BY <1>1 DEF Touched, DeviceState, LocalRow
  <2>3. r.data # NoData => r.sv = v /\ r.deleted = TRUE
    BY <1>1, <2>2 DEF HasRow
  <2> QED  BY <2>1, <2>3
<1> HIDE DEF c, E
<1>6. Candid(E, s, plain)
  BY <1>1, <1>2, <1>3, <1>4, <1>5, DroppedCandid
<1> QED  BY <1>6 DEF E

LEMMA LocalDeleteWinsCandid ==
  ASSUME NEW d, NEW D, Fine(D, d), NEW s, NEW plain, Candid(D, s, plain), NEW i \in Id,
         D.row[i].deleted, NEW state \in Row, state.ver >= 1
  PROVE  Candid(LocalDeleteWins(D, i, state), s, plain)
<1> DEFINE c == [kind |-> "deleted", state |-> state, local |-> state.data]
           v == state.ver
           G == DropOps(WithRow(D, i, [D.row[i] EXCEPT !.sv = v, !.ver = MaxOf(@, v + 1)]), i)
           E == LocalDeleteWins(D, i, state)
           act == "delete"
           no == FALSE
           none == NoData
           F == Enqueued(G, i, act, none, no, v)
<1>1. PICK r : /\ Touched(D, E, d, i, r, c, {})
               /\ r.deleted /\ r.sv = state.ver /\ r.ver # r.sv
  BY LocalDeleteWinsTouched
<1>2. /\ D \in DeviceState(d) /\ v \in Nat /\ v >= 1 /\ act \in {"upsert", "delete"}
      /\ none \in Payload \cup {NoData} /\ no \in BOOLEAN /\ state.data \in Payload \cup {NoData}
      /\ D.row[i] \in LocalRow
  BY RowOf DEF Row
<1>3. G \in DeviceState(d) /\ G.out = DropOps(D, i).out
  <2> DEFINE q == [D.row[i] EXCEPT !.sv = v, !.ver = MaxOf(@, v + 1)]
  <2>1. q = Based(D.row[i], v)
    BY DEF Based
  <2> HIDE DEF v, q
  <2>2. q \in LocalRow
    BY <1>2, <2>1, BasedRow
  <2>3. Touched(D, DropOps(WithRow(D, i, q), i), d, i, q, D.conf[i], {})
    BY <1>2, <2>2, SettledTouched
  <2>4. DropOps(WithRow(D, i, q), i).out = DropOps(D, i).out
    BY <1>2, RecordingOut
  <2>5. G = DropOps(WithRow(D, i, q), i)
    BY DEF q
  <2> HIDE DEF G
  <2> QED  BY <2>3, <2>4, <2>5 DEF Touched
<1>4. E = Recording(F, i, "deleted", state, state.data)
  BY DEF LocalDeleteWins
<1>5. c.kind # "version"
  OBVIOUS
<1> HIDE DEF G, E, act, no, none, v
<1>6. F \in DeviceState(d)
  <2>1. Touched(G, F, d, i, G.row[i], G.conf[i], FirstIds(F, i))
    <3> HIDE DEF F, Touched
    <3>1. F = Enqueued(G, i, act, none, no, v)
      BY DEF F
    <3> QED  BY <1>2, <1>3, <3>1, EnqueuedTouched
  <2> QED  BY <2>1 DEF Touched
<1>7. E.out = F.out
  <2> HIDE DEF F
  <2> QED  BY <1>4, <1>6, RecordingOut
<1>8. PICK o : Replaces(D, E, i, o) /\ o.action = act /\ o.data = none /\ ~ o.sent
  <2>1. F = Enqueued(G, i, act, none, no, v)
    OBVIOUS
  <2>2. /\ D \in DeviceState(d) /\ v \in Nat /\ act \in {"upsert", "delete"}
        /\ none \in Payload \cup {NoData} /\ no \in BOOLEAN
    BY <1>2
  <2> HIDE DEF F
  <2> QED  BY <1>3, <1>7, <2>1, <2>2, AgainRequeued
<1> HIDE DEF c
<1>9. Just(s, plain, i, r, c, {o}, {o}, {o})
  <2>1. r.sv \in Nat /\ r.sv >= 1 /\ o.action = "delete"
    BY <1>1, <1>2, <1>8 DEF act, v
  <2> QED  BY <1>1, <1>5, <1>8, <2>1, AgainJust
<1>10. Candid(E, s, plain)
  BY <1>1, <1>8, <1>9, RequeuedCandid DEF Replaces
<1> QED  BY <1>10 DEF E

LEMMA KeepLocalCandid ==
  ASSUME NEW d, NEW D, Fine(D, d), NEW F, Rooted(D, F), NEW s, NEW plain,
         Candid(D, s, plain), NEW i \in Id, D.conf[i].kind = "version"
  PROVE  Candid(KeepLocal(D, i), s, plain)
<1> DEFINE v == D.conf[i].state.ver
           q == D.row[i]
           r == [D.row[i] EXCEPT !.sv = v, !.ver = MaxOf(@, v + 1)]
           E == DropOps(D, i)
           act == IF D.row[i].deleted THEN "delete" ELSE "upsert"
           data == IF D.row[i].deleted THEN NoData ELSE D.row[i].data
           no == FALSE
           W == WithRow(E, i, r)
           A == Enqueued(W, i, act, data, no, v)
           G == IF HasRow(D, i) THEN A ELSE E
           c == [kind |-> "none", state |-> Absent, local |-> NoData]
<1>1. /\ D \in DeviceState(d) /\ D.row[i] \in LocalRow /\ v \in Nat /\ v >= 1
      /\ D.row[i].deleted \in BOOLEAN /\ act \in {"upsert", "delete"}
      /\ data \in Payload \cup {NoData} /\ no \in BOOLEAN
      /\ JustAt(D, s, plain, i)
  BY RowOf DEF Rooted, Fine, DeviceState, LocalRow, ConflictRow, Row, Candid
<1>2. KeepLocal(D, i) = Resolved(G, i)
  <2>1. E.row[i] = D.row[i]
    BY <1>1, DropTouched DEF Touched
  <2>2. KeepLocal(D, i) =
          Resolved(IF ~ HasRow(D, i) THEN E
                   ELSE IF D.row[i].deleted
                        THEN Enqueued(WithRow(E, i, r), i, "delete", NoData, FALSE, v)
                        ELSE Enqueued(WithRow(E, i, r), i, "upsert", D.row[i].data, FALSE, v), i)
    BY <2>1 DEF KeepLocal
  <2> QED  BY <1>1, <2>2
<1>3. r \in LocalRow /\ r.sv = v /\ r.data = q.data /\ r.deleted = q.deleted /\ r.ver # r.sv
  <2>1. r = Based(D.row[i], v)
    BY DEF Based
  <2> HIDE DEF v, r
  <2> QED  BY <1>1, <2>1, BasedRow, BasedAhead
<1>4. Resolved(G, i) = Recording(G, i, "none", Absent, NoData)
      /\ "none" \in {"none", "version", "deleted"} /\ Absent \in Row
      /\ NoData \in Payload \cup {NoData}
  BY ResolvedIs
<1>5. c.kind # "version"
  OBVIOUS
<1>6. /\ r.deleted => act = "delete"
      /\ ~ r.deleted => act = "upsert" /\ data = r.data
  BY <1>3
<1>7. Touched(D, E, d, i, D.row[i], D.conf[i], {})
  BY <1>1, DropTouched
<1>8. ASSUME HasRow(D, i)  PROVE Candid(Resolved(G, i), s, plain)
  <2> HIDE DEF r, v, act, data, no, E
  <2>1. Touched(D, A, d, i, r, D.conf[i], FirstIds(A, i))
    <3>1. A = Enqueued(WithRow(DropOps(D, i), i, r), i, act, data, FALSE, v)
      BY DEF E, no
    <3> QED  BY <1>1, <1>3, <3>1, AgainTouched
  <2>2. G = A
    BY <1>8
  <2>3. Touched(D, Resolved(G, i), d, i, r, c, FirstIds(A, i))
    <3> HIDE DEF A, G
    <3> QED  BY <1>4, <2>1, <2>2, RecordedTouched
  <2>4. E \in DeviceState(d)
    BY <1>7 DEF Touched
  <2>5. W \in DeviceState(d) /\ W.out = DropOps(D, i).out
    <3>1. Touched(E, W, d, i, r, E.conf[i], FirstIds(E, i))
      BY <1>3, <2>4, WithRowTouched
    <3>2. W.out = E.out
      BY <2>4, RecordingOut
    <3> QED  BY <3>1, <3>2 DEF Touched, E
  <2>6. Resolved(G, i).out = A.out
    <3> HIDE DEF A, G
    <3>1. A \in DeviceState(d)
      BY <2>1 DEF Touched
    <3> QED  BY <2>2, <3>1, RecordingOut
  <2> DEFINE X == Resolved(G, i)
  <2> HIDE DEF W
  <2>7. X.out = A.out /\ A = Enqueued(W, i, act, data, no, v)
    BY <2>6
  <2> HIDE DEF X, A, G
  <2>8. PICK o : Replaces(D, X, i, o) /\ o.action = act /\ o.data = data /\ ~ o.sent
    BY <1>1, <2>5, <2>7, AgainRequeued
  <2> HIDE DEF c
  <2>9. Just(s, plain, i, r, c, {o}, {o}, {o})
    <3>1. r.sv \in Nat /\ r.sv >= 1
      BY <1>1, <1>3
    <3>2. /\ r.deleted => o.action = "delete"
          /\ ~ r.deleted => o.action = "upsert" /\ o.data = r.data
      BY <1>6, <2>8
    <3> QED  BY <1>3, <1>5, <2>8, <3>1, <3>2, AgainJust
  <2>10. Touched(D, X, d, i, r, c, FirstIds(A, i))
    BY <2>3 DEF X
  <2>11. Candid(X, s, plain)
    BY <2>8, <2>9, <2>10, RequeuedCandid DEF Replaces
  <2> QED  BY <2>11 DEF X
<1>9. ASSUME ~ HasRow(D, i)  PROVE Candid(Resolved(G, i), s, plain)
  <2>1. G = E
    BY <1>9
  <2> HIDE DEF G, E
  <2>2. Touched(D, Resolved(G, i), d, i, D.row[i], c, {})
    BY <1>4, <1>7, <2>1, RecordedTouched
  <2>3. Resolved(G, i).out = DropOps(D, i).out
    <3>1. E \in DeviceState(d)
      BY <1>7 DEF Touched
    <3> QED  BY <2>1, <3>1, RecordingOut DEF E
  <2> DEFINE X == Resolved(G, i)
  <2> HIDE DEF X, c
  <2>4. Touched(D, X, d, i, D.row[i], c, {}) /\ X.out = DropOps(D, i).out
    BY <2>2, <2>3 DEF X
  <2>5. D.row[i].data = NoData
    BY <1>9 DEF HasRow
  <2>6. Candid(X, s, plain)
    BY <1>1, <1>5, <2>4, <2>5, DroppedCandid
  <2> QED  BY <2>6 DEF X
<1> QED  BY <1>2, <1>8, <1>9

LEMMA TakeServerCandid ==
  ASSUME NEW d, NEW D, Fine(D, d), NEW F, Rooted(D, F), NEW s, NEW plain,
         Candid(D, s, plain), NEW i \in Id, D.conf[i].kind = "version"
  PROVE  Candid(TakeServer(D, i), s, plain)
<1> DEFINE t == D.conf[i].state
           q == IF t.ver = 0 THEN NoRow
                ELSE IF t.deleted \/ t.data = NoData
                THEN [ver |-> t.ver, sv |-> t.ver, deleted |-> TRUE, data |-> D.row[i].data]
                ELSE [ver |-> t.ver, sv |-> t.ver, deleted |-> FALSE, data |-> t.data]
           r == IF HasRow(D, i) THEN q ELSE D.row[i]
           G == DropOps(IF HasRow(D, i) THEN WithRow(D, i, q) ELSE D, i)
           c == [kind |-> "none", state |-> Absent, local |-> NoData]
<1>1. /\ D \in DeviceState(d) /\ D.row[i] \in LocalRow /\ t \in Row
      /\ D.row[i].data \in Payload \cup {NoData} /\ t.ver >= 1
      /\ JustAt(D, s, plain, i)
  BY RowOf DEF Rooted, Fine, DeviceState, LocalRow, ConflictRow, Candid
<1>2. TakeServer(D, i) = Resolved(G, i)
  BY DEF TakeServer
<1>0. Says(s, i, t.ver, t.deleted, t.data)
  BY <1>1 DEF JustAt, Just
<1> HIDE DEF t
<1>3. q \in LocalRow /\ q.sv = t.ver /\ q.ver = t.ver
      /\ (q.deleted <=> t.deleted \/ t.data = NoData) /\ (~ q.deleted => q.data = t.data)
  <2>1. t.ver \in Nat /\ t.ver # 0 /\ t.data \in Payload \cup {NoData}
    BY <1>1 DEF Row
  <2> QED  BY <1>1, <2>1 DEF LocalRow
<1>4. Touched(D, G, d, i, r, D.conf[i], {}) /\ G.out = DropOps(D, i).out
  <2>1. CASE HasRow(D, i)
    <3> HIDE DEF q
    <3>1. G = DropOps(WithRow(D, i, q), i) /\ r = q
      BY <2>1
    <3> HIDE DEF G
    <3> QED  BY <1>1, <1>3, <3>1, SettledTouched, RecordingOut
  <2>2. CASE ~ HasRow(D, i)
    <3>1. G = DropOps(D, i)
      BY <2>2
    <3> HIDE DEF G
    <3>2. Touched(D, G, d, i, D.row[i], D.conf[i], {})
      BY <1>1, <3>1, DropTouched
    <3> QED  BY <2>2, <3>1, <3>2
  <2> QED  BY <2>1, <2>2
<1>5. Touched(D, Resolved(G, i), d, i, r, c, {})
  <2> HIDE DEF G, r
  <2> QED  BY <1>4, ResolvedIs, RecordedTouched
<1>6. c.kind # "version"
  OBVIOUS
<1>7. r.data # NoData => Matches(s, i, r.sv, r.deleted, r.data, plain)
  <2>1. Matches(s, i, q.sv, q.deleted, q.data, plain)
    <3> HIDE DEF q
    <3>1. t.deleted \in BOOLEAN /\ q.deleted \in BOOLEAN
      BY <1>1, <1>3 DEF Row, LocalRow
    <3>2. t.deleted => q.deleted
      BY <1>3
    <3>3. ~ t.deleted /\ t.ver = s.rec[i].ver => t.data # NoData /\ t.data = s.rec[i].data
      BY <1>0, <3>1 DEF Says
    <3>4. t.ver = s.rec[i].ver => q.deleted = t.deleted
      BY <1>3, <3>1, <3>3
    <3>5. t.ver <= s.rec[i].ver /\ (t.ver = s.rec[i].ver => t.deleted = s.rec[i].deleted)
      BY <1>0 DEF Says
    <3> QED  BY <1>3, <3>1, <3>2, <3>3, <3>4, <3>5 DEF Matches
  <2> HIDE DEF q
  <2> QED  BY <2>1 DEF HasRow
<1> HIDE DEF r
<1> DEFINE X == Resolved(G, i)
<1>8. Touched(D, X, d, i, r, c, {}) /\ X.out = DropOps(D, i).out
  <2>1. G \in DeviceState(d)
    BY <1>4 DEF Touched
  <2> HIDE DEF G
  <2> QED  BY <1>4, <1>5, <2>1, RecordingOut
<1> HIDE DEF X, G, c
<1>9. Candid(X, s, plain)
  BY <1>1, <1>6, <1>7, <1>8, DroppedCandid
<1> QED  BY <1>2, <1>9 DEF X

LEMMA ChangeCandid ==
  ASSUME NEW d, NEW D, Fine(D, d), NEW s, NEW plain, Candid(D, s, plain),
         NEW ch \in PulledChange, ch.ver >= 1,
         Says(s, ch.id, ch.ver, ch.action = "tombstone", ch.data)
  PROVE  Candid(ChangeTakenIn(D, ch), s, plain)
<1> DEFINE i == ch.id
           r == D.row[i]
           dead == ch.action = "tombstone"
           E == ChangeTakenIn(D, ch)
           up == [ver |-> ch.ver, sv |-> ch.ver, deleted |-> FALSE, data |-> ch.data]
           tomb == [ver |-> ch.ver, sv |-> ch.ver, deleted |-> TRUE, data |-> r.data]
           bad == [r EXCEPT !.ver = ch.ver, !.sv = ch.ver]
           state == StateOf(ch)
<1>1. /\ i \in Id /\ ch.ver \in Nat /\ ch.data \in Payload \cup {NoData}
      /\ r \in LocalRow /\ r.data \in Payload \cup {NoData}
      /\ (~ HasRow(D, i) \/ Clean(D, i) => OpsOf(D, i) = {})
  BY RowOf, NoRowFacts DEF PulledChange
<1>2. up \in LocalRow /\ tomb \in LocalRow
  BY <1>1 DEF LocalRow
<1>3. bad \in LocalRow /\ bad.sv = ch.ver /\ bad.deleted = r.deleted /\ bad.data = r.data
  <2> HIDE DEF r
  <2> QED  BY <1>1 DEF LocalRow
<1>4. state \in Row /\ state.ver = ch.ver /\ state.deleted = dead /\ state.data = ch.data
  BY <1>1 DEF StateOf, Row
<1>5. \/ E = D
      \/ ~ dead /\ OpsOf(D, i) = {} /\ E = WithRow(D, i, up)
      \/ dead /\ OpsOf(D, i) = {} /\ E = WithRow(D, i, tomb)
      \/ E = Recording(D, i, "version", state, r.data)
      \/ dead /\ r.deleted /\ E = DropOps(WithRow(D, i, bad), i)
      \/ dead /\ E = DeleteWins(D, i, ch.ver)
      \/ r.deleted /\ E = LocalDeleteWins(D, i, state)
  BY <1>1 DEF ChangeTakenIn, OverClean
<1>6. Says(s, i, ch.ver, dead, ch.data)
  OBVIOUS
<1>7. ~ dead => Matches(s, i, up.sv, up.deleted, up.data, plain)
  BY <1>6 DEF Says, Matches
<1>8. dead => Matches(s, i, tomb.sv, tomb.deleted, tomb.data, plain)
  BY <1>6 DEF Says, Matches
<1>9. dead /\ r.deleted => Matches(s, i, bad.sv, bad.deleted, bad.data, plain)
  <2>1. r.deleted \in BOOLEAN
    BY <1>1 DEF LocalRow
  <2> HIDE DEF bad, r
  <2> QED  BY <1>3, <1>6, <2>1 DEF Says, Matches
<1>10. dead => Says(s, i, ch.ver, TRUE, ch.data)
  BY <1>6 DEF Says
<1>11. Says(s, i, state.ver, state.deleted, state.data)
  BY <1>4, <1>6
<1> HIDE DEF up, tomb, bad, state, dead, E, r, i
<1>12. ~ dead /\ OpsOf(D, i) = {} => Candid(WithRow(D, i, up), s, plain)
  BY <1>1, <1>2, <1>7, OverwrittenCandid
<1>13. dead /\ OpsOf(D, i) = {} => Candid(WithRow(D, i, tomb), s, plain)
  BY <1>1, <1>2, <1>8, OverwrittenCandid
<1>14. dead /\ r.deleted => Candid(DropOps(WithRow(D, i, bad), i), s, plain)
  BY <1>1, <1>3, <1>9, OverwrittenCandid
<1>15. dead => Candid(DeleteWins(D, i, ch.ver), s, plain)
  BY <1>1, <1>10, DeleteWinsCandid
<1>16. r.deleted => Candid(LocalDeleteWins(D, i, state), s, plain)
  BY <1>1, <1>4, LocalDeleteWinsCandid DEF r
<1>17. Candid(Recording(D, i, "version", state, r.data), s, plain)
  BY <1>1, <1>4, <1>11, RecordedCandid DEF r
<1>18. Candid(E, s, plain)
  BY <1>5, <1>12, <1>13, <1>14, <1>15, <1>16, <1>17
<1> QED  BY <1>18 DEF E

LEMMA ConflictedCandid ==
  ASSUME NEW d, NEW D, Fine(D, d), NEW s, NEW plain, Candid(D, s, plain),
         NEW w, NEW a, w.id \in Id,
         a.state \in Row, ~ Adoptable(w, a),
         a.code = "SYNC_DELETED_CONFLICT" => a.state.deleted,
         Says(s, w.id, a.state.ver, a.state.deleted, a.state.data)
  PROVE  Candid(Conflicted(D, w, a), s, plain)
<1>1. \/ a.state.deleted /\ Conflicted(D, w, a) = DeleteWins(D, w.id, a.state.ver)
      \/ Conflicted(D, w, a) = Recording(D, w.id, "version", a.state, D.row[w.id].data)
  BY DEF Conflicted
<1>2. a.state.ver \in Nat /\ a.state.deleted \in BOOLEAN
  BY DEF Row
<1>3. a.state.deleted => Says(s, w.id, a.state.ver, TRUE, a.state.data)
  BY <1>2 DEF Says
<1>4. a.state.deleted => Candid(DeleteWins(D, w.id, a.state.ver), s, plain)
  BY <1>2, <1>3, DeleteWinsCandid
<1>5. Candid(Recording(D, w.id, "version", a.state, D.row[w.id].data), s, plain)
  BY RecordedCandid
<1> QED  BY <1>1, <1>4, <1>5

\* What a create keeps of a payload that is not archived.
LEMMA CreatedPlain ==
  ASSUME NEW i, NEW data \in Payload, ~ data.archived
  PROVE  CreatedData(i, data) = data
BY DEF CreatedData, Payload

\* The last operation of a record is confirmed at version v.
LEMMA ConfirmedMatches ==
  ASSUME NEW s, NEW plain, NEW i \in Id, NEW r \in LocalRow, NEW v \in Nat, NEW o, o.id = i,
         o.action \in {"upsert", "delete"}, o.base \in Nat,
         o.action = "upsert" => o.data \in Payload /\ v = o.base + 1,
         r.deleted => o.action = "delete",
         ~ r.deleted => o.action = "upsert" /\ o.data = r.data,
         plain /\ o.base = 0 /\ o.action = "upsert" => ~ o.data.archived,
         Says(s, i, v, o.action = "delete", Written(o))
  PROVE  Matches(s, i, v, r.deleted, r.data, plain)
<1>1. (o.action = "delete") = r.deleted
  <2>1. r.deleted \in BOOLEAN
    BY DEF LocalRow
  <2> QED  BY <2>1
<1>2. Says(s, i, v, r.deleted, Written(o))
  BY <1>1
<1>3. ASSUME ~ r.deleted
      PROVE  Written(o) = r.data \/ (~ plain /\ v = 1 /\ Written(o) = CreatedData(i, r.data))
  <2>1. CASE o.base # 0
    BY <1>3, <2>1 DEF Written
  <2>2. CASE o.base = 0
    <3>1. Written(o) = CreatedData(i, r.data) /\ v = 1
      BY <1>3, <2>2 DEF Written
    <3>2. plain => CreatedData(i, r.data) = r.data
      BY <1>3, <2>2, CreatedPlain
    <3> QED  BY <3>1, <3>2
  <2> QED  BY <2>1, <2>2
<1> QED  BY <1>2, <1>3 DEF Says, Matches

\* The confirmation of an operation that was sent.
LEMMA ConfirmedCandid ==
  ASSUME NEW d, NEW D, Fine(D, d), NEW s, NEW plain, Candid(D, s, plain),
         NEW opId, NEW v \in Nat, v >= 1,
         \A k \in DOMAIN D.out : D.out[k].opId = opId =>
           /\ D.out[k].sent
           /\ D.out[k].action = "upsert" => v = D.out[k].base + 1
           /\ Says(s, D.out[k].id, v, D.out[k].action = "delete", Written(D.out[k]))
  PROVE  Candid(Confirmed(D, opId, v), s, plain)
<1>1. CASE ~ \E k \in DOMAIN D.out : D.out[k].opId = opId
  BY <1>1 DEF Confirmed
<1>2. CASE \E k \in DOMAIN D.out : D.out[k].opId = opId
  <2> DEFINE k == CHOOSE k \in DOMAIN D.out : D.out[k].opId = opId
             i == D.out[k].id
             K == {j \in DOMAIN D.out : D.out[j].opId # opId}
             E == Without(D, K)
             r == [D.row[i] EXCEPT !.sv = v, !.ver = IF OpsOf(E, i) = {} THEN v ELSE @]
             G == WithRow(E, i, r)
             o == D.out[k]
  <2>1. Confirmed(D, opId, v) = IF ~ HasRow(D, i) THEN E ELSE G
    BY <1>2 DEF Confirmed, Without
  <2>2. k \in DOMAIN D.out /\ D.out[k].opId = opId
    BY <1>2
  <2> HIDE DEF k
  <2>3. D \in DeviceState(d) /\ D.out[k] \in PendingOp(d) /\ i \in Id
    BY <2>2, OutFacts DEF Fine, PendingOp
  <2> HIDE DEF i
  <2>4. k \in OpsOf(D, i)
    BY <2>2 DEF OpsOf, i
  <2>5. \A j \in DOMAIN D.out : j # k => j \in K
    BY <2>2 DEF Fine, Numbered
  <2>6. OpsOf(D, i) \cap K = OpsOf(D, i) \ {k}
    BY <2>2, <2>4, <2>5 DEF OpsOf
  <2>7. \A j \in Id : j # i => OpsOf(D, j) \subseteq K
    BY <2>5 DEF OpsOf, i
  <2>8. /\ Sound(D, i) /\ HasRow(D, i) /\ D.row[i] \in LocalRow
        /\ D.row[i].ver \in Nat /\ D.row[i].sv \in Nat /\ D.row[i].deleted \in BOOLEAN
        /\ D.row[i].ver >= D.row[i].sv + Cardinality(OpsOf(D, i))
    BY <2>3, <2>4, RowOf
  <2>9. /\ o.sent /\ (o.action = "upsert" => v = o.base + 1)
        /\ Says(s, i, v, o.action = "delete", Written(o))
    BY <2>2 DEF i
  <2>10. /\ \A j \in OpsOf(D, i) : k <= j
         /\ o.action = "upsert" => o.base = D.row[i].sv /\ o.data \in PayloadOf(i)
         /\ o.action = "delete" => \A j \in OpsOf(D, i) : j <= k
    BY <2>4, <2>8, <2>9 DEF Sound
  <2>11. K \in SUBSET (DOMAIN D.out)
    OBVIOUS
  <2> HIDE DEF K
  <2>12. Thinned(D, E, d, K)
    BY <2>3, <2>11, WithoutFacts
  <2> HIDE DEF E
  <2>13. E \in DeviceState(d) /\ E.row = D.row /\ E.conf = D.conf
    BY <2>12 DEF Thinned
  <2>14. /\ r \in LocalRow /\ r.sv = v /\ r.data = D.row[i].data
         /\ r.deleted = D.row[i].deleted
         /\ r.ver = IF OpsOf(E, i) = {} THEN v ELSE D.row[i].ver
    <3> DEFINE m == IF OpsOf(E, i) = {} THEN v ELSE D.row[i].ver
               q == D.row[i]
    <3>1. m \in Nat /\ q \in LocalRow
      BY <2>8
    <3>2. r = [q EXCEPT !.sv = v, !.ver = m]
      OBVIOUS
    <3> HIDE DEF m, q, r
    <3>3. r \in LocalRow /\ r.sv = v /\ r.ver = m /\ r.data = q.data /\ r.deleted = q.deleted
      BY <3>1, <3>2 DEF LocalRow
    <3> QED  BY <3>3 DEF m, q
  <2> HIDE DEF r
  <2>15. Touched(E, G, d, i, r, E.conf[i], FirstIds(E, i)) /\ G.out = E.out
    <3>1. Touched(E, G, d, i, r, E.conf[i], FirstIds(E, i))
      BY <2>3, <2>13, <2>14, WithRowTouched
    <3>2. \A q : WithRow(E, i, q).out = E.out
      BY <2>13, RecordingOut
    <3> QED  BY <3>1, <3>2
  <2> HIDE DEF G
  <2>16. Touched(D, G, d, i, r, D.conf[i], FirstIds(E, i))
    <3>1. \A j \in Id : j # i => FirstIds(E, j) \subseteq FirstIds(D, j)
      BY <2>3, <2>7, <2>11, <2>12, ThinnedElsewhere
    <3> QED  BY <2>13, <2>15, <3>1 DEF Touched
  <2>17. \A j \in Id : j # i => Fewer(D, G, j)
    <3>1. \A j \in Id : j # i => Fewer(D, E, j)
      BY <2>3, <2>7, <2>11, <2>12, ThinnedFewer
    <3>2. \A j \in Id : Queue(G, j) = Queue(E, j) /\ Lasts(G, j) = Lasts(E, j)
                        /\ Heads(G, j) = Heads(E, j)
      BY <2>15, SameQueues
    <3> QED  BY <3>1, <3>2 DEF Fewer
  <2>18. JustAt(D, s, plain, i)
    BY <2>3 DEF Candid
  <2>19. o \in Queue(D, i)
    BY <2>4 DEF Queue
  <2>20. CASE OpsOf(D, i) = {k}
    <3>1. OpsOf(D, i) \cap K = {}
      BY <2>6, <2>20
    <3>2. OpsOf(E, i) = {}
      BY <2>3, <2>12, <3>1 DEF Thinned
    <3>3. OpsOf(G, i) = {}
      BY <2>15, <3>2 DEF OpsOf
    <3>4. Requeued(D, G, i, {}, {}, {})
      BY <2>17, <3>3, NoQueue DEF Requeued
    <3>5. o \in Lasts(D, i)
      <4>1. k <= k
        BY <2>3, <2>4, OutFacts DEF OpsOf
      <4> QED  BY <2>20, <4>1 DEF Lasts
    <3>6. /\ r.deleted => o.action = "delete"
          /\ ~ r.deleted => o.action = "upsert" /\ o.data = r.data
          /\ plain /\ D.row[i].sv = 0 /\ o.action = "upsert" => ~ o.data.archived
      BY <2>14, <2>18, <2>19, <3>5 DEF JustAt, Just
    <3>7. /\ o.action \in {"upsert", "delete"} /\ o.base \in Nat /\ o.id = i
          /\ o.action = "upsert" => o.data \in Payload /\ o.base = D.row[i].sv
      BY <2>3, <2>10 DEF PendingOp, PayloadOf, i
    <3>8. Matches(s, i, v, r.deleted, r.data, plain)
      <4> HIDE DEF o
      <4>1. plain /\ o.base = 0 /\ o.action = "upsert" => ~ o.data.archived
        BY <3>6, <3>7
      <4> QED  BY <2>3, <2>9, <2>14, <3>6, <3>7, <4>1, ConfirmedMatches
    <3>9. D.conf[i].kind = "version" =>
            Says(s, i, D.conf[i].state.ver, D.conf[i].state.deleted, D.conf[i].state.data)
      BY <2>18 DEF JustAt, Just
    <3>10. Just(s, plain, i, r, D.conf[i], {}, {}, {})
      BY <2>14, <3>8, <3>9, QuietJust
    <3>11. Candid(G, s, plain)
      BY <2>3, <2>16, <3>4, <3>10, RequeuedCandid
    <3> QED  BY <2>1, <2>8, <3>11
  <2>21. CASE OpsOf(D, i) # {k}
    <3>1. PICK m \in OpsOf(D, i) : m # k
      BY <2>4, <2>21
    <3>2. \A j \in OpsOf(D, i) : j \in Nat
      BY <2>3, OutFacts DEF OpsOf
    <3>3. k < m /\ m \in K /\ k \in Nat
      BY <2>4, <2>6, <2>10, <3>1, <3>2
    <3>4. o.action = "upsert"
      BY <2>3, <2>10, <3>1, <3>2, <3>3 DEF PendingOp
    <3>5. OpsOf(E, i) # {}
      <4>1. OpsOf(D, i) \cap K # {}
        BY <3>1, <3>3
      <4> QED  BY <2>3, <2>12, <4>1 DEF Thinned
    <3>6. \A l \in OpsOf(D, i) : \E h \in OpsOf(D, i) \cap K : h >= l
      <4> SUFFICES ASSUME NEW l \in OpsOf(D, i)
                   PROVE  \E h \in OpsOf(D, i) \cap K : h >= l
        OBVIOUS
      <4>1. CASE l = k
        <5>1. m \in OpsOf(D, i) \cap K
          BY <3>1, <3>3
        <5>2. m \in Nat
          BY <3>1, <3>2
        <5>3. m >= k
          BY <3>3, <5>2
        <5>4. m >= l
          BY <4>1, <5>3
        <5> QED  BY <5>1, <5>4
      <4>2. CASE l # k
        <5>1. l \in OpsOf(D, i) \cap K /\ l >= l
          BY <2>6, <3>2, <4>2
        <5> QED  BY <5>1
      <4> QED  BY <4>1, <4>2
    <3>7. Lasts(E, i) \subseteq Lasts(D, i) /\ Queue(E, i) \subseteq Queue(D, i)
      <4>1. Lasts(E, i) \subseteq Lasts(D, i)
        BY <2>3, <2>11, <2>12, <3>6, ThinnedLasts
      <4>2. Queue(E, i) \subseteq Queue(D, i)
        BY <2>3, <2>11, <2>12, ThinnedQueue
      <4> QED  BY <4>1, <4>2
    <3>8. Requeued(D, G, i, Queue(D, i), Lasts(D, i), Heads(G, i))
      <4>1. Queue(G, i) = Queue(E, i) /\ Lasts(G, i) = Lasts(E, i)
        BY <2>15, SameQueues
      <4> QED  BY <2>17, <3>7, <4>1 DEF Requeued
    <3>9. r.ver # r.sv
      <4>1. Cardinality(OpsOf(D, i)) >= 2
        <5>1. IsFiniteSet(OpsOf(D, i))
          BY <2>3, OutFacts
        <5> DEFINE S == OpsOf(D, i)
                   R == S \ {k}
        <5>2. IsFiniteSet(R) /\ Cardinality(R) = Cardinality(S) - 1
          BY <2>4, <5>1, FS_RemoveElement
        <5>3. m \in R
          BY <3>1
        <5> HIDE DEF R
        <5>4. IsFiniteSet(R \ {m}) /\ Cardinality(R \ {m}) = Cardinality(R) - 1
          BY <5>2, <5>3, FS_RemoveElement
        <5>5. Cardinality(R \ {m}) \in Nat /\ Cardinality(S) \in Nat
          BY <5>1, <5>4, FS_CardinalityType
        <5> QED  BY <5>2, <5>4, <5>5
      <4>2. Cardinality(OpsOf(D, i)) \in Nat
        BY <2>3, RowOf
      <4>3. v = D.row[i].sv + 1
        BY <2>9, <2>10, <3>4
      <4> QED  BY <2>8, <2>14, <3>5, <4>1, <4>2, <4>3
    <3>10. Just(s, plain, i, r, D.conf[i], Queue(D, i), Lasts(D, i), Heads(G, i))
      <4>1. r.sv # 0
        BY <2>14
      <4> QED  BY <2>14, <2>18, <3>9, <4>1 DEF Just, JustAt
    <3>11. Candid(G, s, plain)
      BY <2>3, <2>16, <3>8, <3>10, RequeuedCandid
    <3> QED  BY <2>1, <2>8, <3>11
  <2> QED  BY <2>20, <2>21
<1> QED  BY <1>1, <1>2

\* Coalescing leaves the record's last operation the record as it is.
LEMMA CoalescedCandid ==
  ASSUME NEW d, NEW D, Fine(D, d), NEW s, NEW plain, Candid(D, s, plain)
  PROVE  Candid(Coalesced(D), s, plain)
<1> DEFINE E == Coalesced(D)
<1>0. PICK K \in SUBSET (DOMAIN D.out) : \E F : Coalesces(D, F, E, d, K)
  BY CoalescedFine
<1>1. PICK F : Coalesces(D, F, E, d, K)
  BY <1>0
<1>2. D \in DeviceState(d) /\ E \in DeviceState(d) /\ Fine(E, d)
  BY CoalescedFine DEF Fine, Leads
<1> HIDE DEF E
<1>3. /\ Thinned(D, F, d, K) /\ F \in DeviceState(d) /\ E.row = D.row /\ E.conf = D.conf
      /\ \A i \in Id : \A l \in OpsOf(D, i) : \E h \in OpsOf(D, i) \cap K : h <= l
  BY <1>1 DEF Coalesces, Thinned
<1>4. ASSUME NEW i \in Id, NEW n \in OpsOf(E, i)
      PROVE  /\ n \in OpsOf(F, i) /\ n \in Nat
             /\ E.out[n].sent = F.out[n].sent
             /\ E.out[n] = F.out[n] \/ Whole(E.out[n], D.row[i])
  <2>1. n \in DOMAIN E.out /\ E.out[n].id = i /\ n \in OpsOf(F, i)
    BY <1>1 DEF OpsOf, Coalesces
  <2>2. n \in Nat
    BY <1>2, <2>1, OutFacts
  <2> QED  BY <1>1, <2>1, <2>2 DEF Coalesces
<1>5. ASSUME NEW i \in Id  PROVE JustAt(E, s, plain, i)
  <2> DEFINE r == D.row[i]
  <2>1. JustAt(D, s, plain, i) /\ E.row[i] = r /\ E.conf[i] = D.conf[i]
    BY <1>3 DEF Candid
  <2>2. OpsOf(E, i) = OpsOf(F, i)
    BY <1>1 DEF Coalesces
  <2>3. Queue(F, i) \subseteq Queue(D, i) /\ Heads(F, i) \subseteq Heads(D, i)
    BY <1>2, <1>3, ThinnedQueue
  <2>4. r.deleted \in BOOLEAN
    BY <1>2 DEF DeviceState, LocalRow
  <2> HIDE DEF r
  <2>5. ASSUME NEW o \in Lasts(E, i)
        PROVE  IF r.deleted THEN o.action = "delete" ELSE o.action = "upsert" /\ o.data = r.data
    <3>1. PICK n \in OpsOf(E, i) : o = E.out[n] /\ \A j \in OpsOf(E, i) : j <= n
      BY DEF Lasts
    <3>2. CASE Whole(E.out[n], r)
      BY <2>4, <3>1, <3>2 DEF Whole
    <3>3. CASE ~ Whole(E.out[n], r)
      <4>1. E.out[n] = F.out[n] /\ n \in OpsOf(F, i)
        BY <1>4, <3>3 DEF r
      <4>2. OpsOf(D, i) \subseteq K
        <5>1. ASSUME NEW m \in OpsOf(E, i), Whole(E.out[m], r)  PROVE FALSE
          <6>1. m # n /\ m <= n /\ m \in Nat /\ n \in Nat
            BY <1>4, <3>1, <3>3, <5>1
          <6>2. ~ E.out[m].sent
            BY <5>1 DEF Whole
          <6>3. E.out[n].sent
            BY <1>1, <6>1, <6>2 DEF Coalesces
          <6>4. Sound(E, i)
            BY <1>2 DEF Fine
          <6>5. n <= m
            BY <6>3, <6>4, <5>1 DEF Sound
          <6> QED  BY <6>1, <6>5
        <5> QED  BY <1>1, <5>1 DEF Coalesces, r
      <4>3. Lasts(F, i) \subseteq Lasts(D, i)
        BY <1>2, <1>3, <4>2, ThinnedFewer DEF Fewer
      <4>4. o \in Lasts(F, i)
        BY <2>2, <3>1, <4>1 DEF Lasts
      <4>5. o \in Lasts(D, i)
        BY <4>3, <4>4
      <4> QED  BY <2>1, <4>5 DEF JustAt, Just, r
    <3> QED  BY <3>2, <3>3
  <2>6. ASSUME r.deleted, r.sv = 0, NEW o \in Heads(E, i)
        PROVE  o.sent /\ o.action = "upsert"
    <3>1. PICK n \in OpsOf(E, i) : o = E.out[n] /\ \A j \in OpsOf(E, i) : n <= j
      BY DEF Heads
    <3>2. n \in OpsOf(F, i) /\ \A j \in OpsOf(F, i) : n <= j
      BY <2>2, <3>1
    <3>3. F.out[n] \in Heads(F, i)
      BY <3>2 DEF Heads
    <3>4. F.out[n].sent /\ F.out[n].action = "upsert"
      BY <2>1, <2>3, <2>6, <3>3 DEF JustAt, Just, r
    <3>5. E.out[n] = F.out[n]
      BY <1>4, <3>4 DEF Whole
    <3> QED  BY <3>1, <3>4, <3>5
  <2>7. ASSUME NEW o \in Queue(E, i)
        PROVE  /\ o.sent => o \in Queue(D, i)
               /\ o \in Queue(D, i) \/ Whole(o, r)
    <3>1. PICK n \in OpsOf(E, i) : o = E.out[n]
      BY DEF Queue
    <3>2. F.out[n] \in Queue(F, i)
      BY <1>4 DEF Queue
    <3> QED  BY <1>4, <2>3, <3>1, <3>2 DEF Whole, r
  <2>8. ASSUME plain, r.sv = 0, NEW o \in Queue(E, i), o.action = "upsert"
        PROVE  ~ o.data.archived
    <3>1. CASE o \in Queue(D, i)
      BY <2>1, <2>8, <3>1 DEF JustAt, Just, r
    <3>2. CASE Whole(o, r) /\ r.deleted
      BY <2>8, <3>2 DEF Whole
    <3>3. CASE Whole(o, r) /\ ~ r.deleted
      <4>1. OpsOf(D, i) # {} /\ OpsOf(D, i) \in SUBSET (1..Len(D.out)) /\ Len(D.out) \in Nat
        <5>1. OpsOf(E, i) # {}
          BY <2>8 DEF Queue
        <5>2. OpsOf(D, i) # {}
          BY <1>3, <2>2, <5>1 DEF Thinned
        <5> QED  BY <1>2, <5>2, OutFacts DEF OpsOf
      <4>2. PICK k \in OpsOf(D, i) : \A j \in OpsOf(D, i) : j <= k
        BY <4>1, MaxFacts
      <4>3. D.out[k] \in Lasts(D, i) /\ D.out[k] \in Queue(D, i)
        BY <4>2 DEF Lasts, Queue
      <4>4. D.out[k].action = "upsert" /\ D.out[k].data = r.data
        BY <2>1, <3>3, <4>3 DEF JustAt, Just, r
      <4>5. ~ D.out[k].data.archived
        BY <2>1, <2>8, <4>3, <4>4 DEF JustAt, Just, r
      <4> QED  BY <3>3, <4>4, <4>5 DEF Whole
    <3> QED  BY <2>7, <3>1, <3>2, <3>3
  <2>9. \A o \in Queue(E, i) : o.sent => DoneAs(s, o)
    BY <2>1, <2>7 DEF JustAt, Just
  <2> QED  BY <2>1, <2>5, <2>6, <2>8, <2>9 DEF JustAt, Just, r
<1> QED  BY <1>5 DEF Candid, E

\* The operations stay, sent perhaps for the first time: the server has not
\* seen them then.
LEMMA ResentCandid ==
  ASSUME NEW D, NEW E, NEW s, NEW plain, Candid(D, s, plain),
         E.row = D.row, E.conf = D.conf, \A i \in Id : OpsOf(E, i) = OpsOf(D, i),
         \A i \in Id : \A k \in OpsOf(D, i) :
           /\ Resent(E.out[k], D.out[k])
           /\ ~ D.out[k].sent => s.applied[D.out[k].opId] = NotApplied
  PROVE  Candid(E, s, plain)
<1> SUFFICES ASSUME NEW i \in Id  PROVE JustAt(E, s, plain, i)
  BY DEF Candid
<1>1. JustAt(D, s, plain, i) /\ E.row[i] = D.row[i] /\ E.conf[i] = D.conf[i]
      /\ OpsOf(E, i) = OpsOf(D, i)
  BY DEF Candid
<1>2. ASSUME NEW o \in Queue(E, i)
      PROVE  \E p \in Queue(D, i) :
               Resent(o, p) /\ (~ p.sent => s.applied[p.opId] = NotApplied)
  BY <1>1 DEF Queue
<1>3. ASSUME NEW o \in Lasts(E, i)  PROVE \E p \in Lasts(D, i) : Resent(o, p)
  BY <1>1 DEF Lasts
<1>4. ASSUME NEW o \in Heads(E, i)  PROVE \E p \in Heads(D, i) : Resent(o, p)
  BY <1>1 DEF Heads
<1>5. ASSUME NEW o \in Queue(E, i), o.sent  PROVE DoneAs(s, o)
  <2>1. PICK p \in Queue(D, i) :
          Resent(o, p) /\ (~ p.sent => s.applied[p.opId] = NotApplied)
    BY <1>2
  <2>2. CASE p.sent
    <3>1. DoneAs(s, p)
      BY <1>1, <2>2 DEF JustAt, Just
    <3> QED  BY <2>1, <2>2, <3>1 DEF Resent, DoneAs, Written
  <2>3. CASE ~ p.sent
    BY <2>1, <2>3 DEF Resent, DoneAs
  <2> QED  BY <2>2, <2>3
<1>6. ASSUME plain, E.row[i].sv = 0, NEW o \in Queue(E, i), o.action = "upsert"
      PROVE  ~ o.data.archived
  <2>1. PICK p \in Queue(D, i) : Resent(o, p)
    BY <1>2
  <2> QED  BY <1>1, <1>6, <2>1 DEF Resent, JustAt, Just
<1>7. ASSUME NEW o \in Lasts(E, i)
      PROVE  IF E.row[i].deleted THEN o.action = "delete"
             ELSE o.action = "upsert" /\ o.data = E.row[i].data
  <2>1. PICK p \in Lasts(D, i) : Resent(o, p)
    BY <1>3
  <2> QED  BY <1>1, <2>1 DEF Resent, JustAt, Just
<1>8. ASSUME E.row[i].deleted, E.row[i].sv = 0, NEW o \in Heads(E, i)
      PROVE  o.sent /\ o.action = "upsert"
  <2>1. PICK p \in Heads(D, i) : Resent(o, p)
    BY <1>4
  <2> QED  BY <1>1, <1>8, <2>1 DEF Resent, JustAt, Just
<1> QED  BY <1>1, <1>5, <1>6, <1>7, <1>8 DEF JustAt, Just

\* What is sent is what the device holds, and says to the server what the
\* operation did if it was done; no delete is of a record never confirmed.
Quotes(D, w) ==
  w.action = "upsert" =>
    \A k \in DOMAIN D.out : D.out[k].opId = w.opId => D.out[k].data = w.data

LEMMA SelectedCandid ==
  ASSUME NEW d, NEW D, Fine(D, d), NEW s, NEW plain, Candid(D, s, plain), NEW due,
         \A k \in DOMAIN D.out : ~ D.out[k].sent => s.applied[D.out[k].opId] = NotApplied,
         NEW E, NEW batch, E = Selected(D, due).dev, batch = Selected(D, due).batch
  PROVE  /\ Candid(E, s, plain)
         /\ \A n \in DOMAIN batch :
              /\ DoneAs(s, batch[n]) /\ Quotes(E, batch[n])
              /\ batch[n].action = "delete" => D.row[batch[n].id].sv # 0
<1> DEFINE C == Coalesced(D)
<1>1. Leads(D, C, d, {}) /\ Fine(C, d) /\ C.row = D.row /\ C.made = D.made
  BY CoalescedFine DEF Leads
<1>2. Candid(C, s, plain)
  BY CoalescedCandid
<1>3. \A i \in Id : \A m, n \in OpsOf(C, i) : ~ C.out[m].sent /\ ~ C.out[n].sent => m = n
  <2>1. PICK K : \E F : Coalesces(D, F, C, d, K)
    BY CoalescedFine
  <2> QED  BY <2>1 DEF Coalesces
<1>4. PICK F : Freezes(C, F, E, batch, d)
  BY SelectedFine
<1>5. Fine(E, d)
  BY SelectedFine DEF Selects
<1> HIDE DEF C
<1>6. ASSUME NEW k \in DOMAIN C.out
      PROVE  /\ C.out[k].id \in Id /\ C.out[k] \in PendingOp(d) /\ k \in Nat
             /\ ~ C.out[k].sent => s.applied[C.out[k].opId] = NotApplied
  <2>1. C.out[k] \in PendingOp(d) /\ k \in Nat
    BY <1>1, OutFacts DEF Fine
  <2>2. C.out[k].opId[2] \in 1..D.made /\ D.made \in Nat
    BY <1>1 DEF Fine, Numbered, DeviceState
  <2>3. PICK j \in DOMAIN D.out : SameOp(C.out[k], D.out[j])
    BY <1>1, <2>2 DEF Leads, Follows
  <2> QED  BY <2>1, <2>3 DEF SameOp, PendingOp
<1>7. \A i \in Id : \A k \in OpsOf(C, i) :
        /\ k \in DOMAIN C.out /\ C.out[k].id = i
        /\ Resent(F.out[k], C.out[k])
        /\ ~ C.out[k].sent => s.applied[C.out[k].opId] = NotApplied
  BY <1>4, <1>6 DEF OpsOf, Freezes
<1>8. Candid(F, s, plain)
  BY <1>2, <1>4, <1>7, ResentCandid DEF Freezes
<1>9. Candid(E, s, plain)
  <2>1. F \in DeviceState(d) /\ DOMAIN C.out \in SUBSET (DOMAIN F.out)
        /\ Thinned(F, E, d, DOMAIN C.out) /\ \A i \in Id : OpsOf(F, i) \subseteq DOMAIN C.out
    BY <1>4 DEF Freezes, OpsOf
  <2>2. \A i \in Id : Fewer(F, E, i)
    BY <2>1, ThinnedFewer
  <2>3. E.row = F.row /\ E.conf = F.conf
    BY <2>1 DEF Thinned
  <2>4. ASSUME NEW i \in Id  PROVE JustAt(E, s, plain, i)
    <3>1. JustAt(F, s, plain, i) /\ Fewer(F, E, i)
      BY <1>8, <2>2 DEF Candid
    <3> QED  BY <2>3, <3>1, JustFewer DEF JustAt, Fewer
  <2> QED  BY <2>4 DEF Candid
<1>10. ASSUME NEW n \in DOMAIN batch
       PROVE  /\ DoneAs(s, batch[n]) /\ Quotes(E, batch[n])
              /\ batch[n].action = "delete" => D.row[batch[n].id].sv # 0
  <2> DEFINE w == batch[n]
  <2>1. PICK k \in DOMAIN C.out : \E m \in DOMAIN E.out :
          /\ \A j \in OpsOf(C, C.out[k].id) : k <= j
          /\ w = Wire(C, C.out[k]) /\ E.out[m] = F.out[k]
    BY <1>4 DEF Freezes
  <2> DEFINE p == C.out[k]
             i == p.id
             r == C.row[i]
  <2>2. PICK m \in DOMAIN E.out : E.out[m] = F.out[k]
    BY <2>1
  <2>3. /\ i \in Id /\ p \in PendingOp(d) /\ k \in OpsOf(C, i)
        /\ \A j \in OpsOf(C, i) : k <= j
        /\ ~ p.sent => s.applied[p.opId] = NotApplied
    BY <1>6, <2>1 DEF OpsOf
  <2>4. JustAt(C, s, plain, i) /\ Sound(C, i)
    BY <1>1, <1>2, <2>3 DEF Candid, Fine
  <2>5. p \in Queue(C, i) /\ p \in Heads(C, i)
    BY <2>3 DEF Queue, Heads
  <2>6. w.opId = p.opId /\ w.action = p.action /\ w.id = i
        /\ (p.sent => w.base = p.base /\ w.data = p.data)
        /\ (~ p.sent /\ p.action = "upsert" => w.data = r.data)
    <3> HIDE DEF w, p, r
    <3>1. w = Wire(C, p)
      BY <2>1 DEF p
    <3>2. p.action \in {"upsert", "delete"} /\ p.sent \in BOOLEAN
      BY <2>3 DEF PendingOp
    <3>3. C.row[p.id] = r
      BY DEF r
    <3> QED  BY <3>1, <3>2, <3>3 DEF Wire
  <2> HIDE DEF w, p, i, r
  <2>7. DoneAs(s, w)
    <3>1. CASE p.sent
      <4>1. DoneAs(s, p)
        BY <2>4, <2>5, <3>1 DEF JustAt, Just
      <4> QED  BY <2>6, <3>1, <4>1 DEF DoneAs, Written, i
    <3>2. CASE ~ p.sent
      BY <2>3, <2>6, <3>2 DEF DoneAs
    <3> QED  BY <3>1, <3>2
  <2>8. ASSUME w.action = "delete"  PROVE D.row[w.id].sv # 0
    <3>1. r.deleted
      BY <2>3, <2>4, <2>6, <2>8 DEF Sound, p, r
    <3>2. r.sv = 0 => p.action = "upsert"
      BY <2>4, <2>5, <3>1 DEF JustAt, Just, r
    <3>3. D.row[w.id] = r
      BY <1>1, <2>6 DEF r
    <3> QED  BY <2>6, <2>8, <3>2, <3>3
  <2>9. w.action = "upsert" => p.data = w.data
    <3>1. CASE p.sent
      BY <2>6, <3>1
    <3>2. CASE ~ p.sent /\ w.action = "upsert"
      <4>1. \A j \in OpsOf(C, i) : j = k
        <5> TAKE j \in OpsOf(C, i)
        <5>1. C.out[j].sent => j <= k
          BY <2>3, <2>4 DEF Sound
        <5>2. j \in Nat /\ k \in Nat /\ k <= j
          BY <1>6, <2>3 DEF OpsOf
        <5>3. ~ C.out[j].sent => j = k
          BY <1>3, <2>3, <3>2 DEF p
        <5> QED  BY <5>1, <5>2, <5>3
      <4>2. k <= k
        BY <1>6
      <4>3. p \in Lasts(C, i)
        BY <2>3, <4>1, <4>2 DEF Lasts, p
      <4>4. r.deleted \in BOOLEAN
        BY <1>1, <2>3 DEF Fine, DeviceState, LocalRow, r
      <4>5. p.data = r.data
        BY <2>4, <2>6, <3>2, <4>3, <4>4 DEF JustAt, Just, r
      <4> QED  BY <2>6, <3>2, <4>5
    <3> QED  BY <3>1, <3>2
  <2>10. Quotes(E, w)
    <3>1. E.out[m].opId = w.opId /\ E.out[m].data = p.data
      BY <1>4, <2>2, <2>6 DEF Freezes, Resent, p
    <3>2. \A j \in DOMAIN E.out : E.out[j].opId = w.opId => j = m
      BY <1>5, <3>1 DEF Fine, Numbered
    <3> QED  BY <2>9, <3>1, <3>2 DEF Quotes
  <2> QED  BY <2>7, <2>8, <2>10 DEF w
<1> QED  BY <1>9, <1>10

\* Only how often an operation failed changes.
LEMMA RevertedCandid ==
  ASSUME NEW d, NEW D, Fine(D, d), NEW s, NEW plain, Candid(D, s, plain),
         \A k \in DOMAIN D.out : ~ D.out[k].sent => s.applied[D.out[k].opId] = NotApplied,
         NEW batch, \A b \in Range(batch) : b \in WireOp(d)
  PROVE  Candid(AttemptsReverted(D, batch), s, plain)
<1> DEFINE E == AttemptsReverted(D, batch)
<1>1. /\ E.row = D.row /\ E.conf = D.conf /\ \A i \in Id : OpsOf(E, i) = OpsOf(D, i)
      /\ \A k \in DOMAIN D.out : Resent(E.out[k], D.out[k])
  BY RevertedFine
<1> HIDE DEF E
<1>2. \A i \in Id : \A k \in OpsOf(D, i) :
        Resent(E.out[k], D.out[k]) /\ (~ D.out[k].sent => s.applied[D.out[k].opId] = NotApplied)
  BY <1>1 DEF OpsOf
<1>3. Candid(E, s, plain)
  BY <1>1, <1>2, ResentCandid
<1> QED  BY <1>3 DEF E

\* The answers to a batch of the device say what is so on the server.
Truthful(D, batch, answers, n, s) ==
  \A k \in 1..n :
    /\ answers[k].status = "conflict" =>
         LET t == answers[k].state
         IN  /\ Says(s, batch[k].id, t.ver, t.deleted, t.data)
             /\ answers[k].code = "SYNC_DELETED_CONFLICT" => t.deleted
    /\ answers[k].status = "applied" =>
         /\ answers[k].ver >= 1
         /\ \A j \in DOMAIN D.out : D.out[j].opId = batch[k].opId =>
              LET o == D.out[j]
              IN  Says(s, o.id, answers[k].ver, o.action = "delete", Written(o))

LEMMA PushTakenInCandid ==
  ASSUME NEW d, NEW D, Fine(D, d), NEW s, NEW plain, Candid(D, s, plain),
         NEW batch, NEW answers, NEW n \in Nat, DOMAIN batch = 1..n,
         NEW F, Trusted(D, batch, answers, n, F), Truthful(D, batch, answers, n, s)
  PROVE  Candid(PushTakenIn(D, batch, answers), s, plain)
<1> DEFINE X == {E \in DeviceState(d) : Leads(D, E, d, {}) /\ E.made = D.made
                                        /\ Candid(E, s, plain)}
<1>0. D \in DeviceState(d)
  BY DEF Fine
<1>1. D \in X
  BY <1>0, LeadsSelf
<1>2. ASSUME NEW E, E \in X
      PROVE  /\ Leads(D, E, d, {}) /\ E.made = D.made /\ Candid(E, s, plain)
             /\ Fine(E, d)
  BY <1>2 DEF Leads
<1>3. ASSUME NEW E, Leads(D, E, d, {}), E.made = D.made, Candid(E, s, plain)
      PROVE  E \in X
  BY <1>3 DEF Leads, Fine
<1> HIDE DEF X
<1>4. AllConflicted(D, batch, answers) \in X
  <2>1. ASSUME NEW E \in X, NEW k \in 1..n, answers[k].status = "conflict"
        PROVE  Conflicted(E, batch[k], answers[k]) \in X
    <3>0. Leads(D, E, d, {}) /\ E.made = D.made
      BY <1>2
    <3>1. Leads(D, Conflicted(E, batch[k], answers[k]), d, {})
          /\ Conflicted(E, batch[k], answers[k]).made = D.made
      BY <3>0, RefusedOn
    <3>2. Candid(Conflicted(E, batch[k], answers[k]), s, plain)
      <4> DEFINE w == batch[k]
                 a == answers[k]
      <4>1. w.id \in Id /\ a.state \in Row /\ ~ Adoptable(w, a)
        BY <2>1 DEF Trusted
      <4>2. /\ Says(s, w.id, a.state.ver, a.state.deleted, a.state.data)
            /\ a.code = "SYNC_DELETED_CONFLICT" => a.state.deleted
        BY <2>1 DEF Truthful
      <4>3. Fine(E, d) /\ Candid(E, s, plain)
        BY <1>2
      <4> HIDE DEF w, a
      <4>4. Candid(Conflicted(E, w, a), s, plain)
        BY <4>1, <4>2, <4>3, ConflictedCandid
      <4> QED  BY <4>4 DEF w, a
    <3> QED  BY <1>3, <3>1, <3>2
  <2> QED  BY <1>1, <2>1, ConflictsKeep
<1>5. \A E \in X : AllConfirmed(E, batch, answers) \in X
  <2>1. ASSUME NEW E \in X, NEW k \in 1..n, answers[k].status = "applied"
        PROVE  Confirmed(E, batch[k].opId, answers[k].ver) \in X
    <3> DEFINE opId == batch[k].opId
               v == answers[k].ver
    <3>0. Leads(D, E, d, {}) /\ E.made = D.made /\ Fine(E, d) /\ Candid(E, s, plain)
      BY <1>2
    <3>1. /\ Leads(D, Confirmed(E, opId, v), d, {})
          /\ Confirmed(E, opId, v).made = D.made
          /\ \A m \in DOMAIN E.out : E.out[m].opId = opId =>
               /\ E.out[m].sent
               /\ E.out[m].action = "upsert" => v = E.out[m].base + 1
      BY <2>1, <3>0, AcceptedOn
    <3>2. v \in Nat /\ v >= 1 /\ opId[2] <= D.made
      BY <2>1 DEF Trusted, Truthful
    <3>3. \A j \in DOMAIN D.out : D.out[j].opId = opId =>
            Says(s, D.out[j].id, v, D.out[j].action = "delete", Written(D.out[j]))
      BY <2>1 DEF Truthful
    <3> HIDE DEF opId, v
    <3>4. ASSUME NEW m \in DOMAIN E.out, E.out[m].opId = opId
          PROVE  /\ E.out[m].sent
                 /\ E.out[m].action = "upsert" => v = E.out[m].base + 1
                 /\ Says(s, E.out[m].id, v, E.out[m].action = "delete", Written(E.out[m]))
      <4>1. E \in DeviceState(d) /\ Follows(D, E)
        BY <3>0 DEF Leads, Fine
      <4>2. PICK j \in DOMAIN D.out : SameOp(E.out[m], D.out[j])
        BY <1>0, <3>2, <3>4, <4>1, SentStays
      <4>3. D.out[j].opId = opId /\ E.out[m].sent
        BY <3>1, <3>4, <4>2 DEF SameOp
      <4>4. Written(E.out[m]) = Written(D.out[j]) /\ E.out[m].id = D.out[j].id
            /\ E.out[m].action = D.out[j].action
        BY <4>2, <4>3 DEF SameOp, Written
      <4>5. Says(s, D.out[j].id, v, D.out[j].action = "delete", Written(D.out[j]))
        BY <3>3, <4>3
      <4> QED  BY <3>1, <3>4, <4>4, <4>5
    <3>5. Candid(Confirmed(E, opId, v), s, plain)
      BY <3>0, <3>2, <3>4, ConfirmedCandid
    <3>6. Confirmed(E, opId, v) \in X
      BY <1>3, <3>1, <3>5
    <3> QED  BY <3>6 DEF opId, v
  <2> QED  BY <2>1, ConfirmsKeep
<1>6. PushTakenIn(D, batch, answers) \in X
  BY <1>4, <1>5, InTwoPasses
<1> QED  BY <1>2, <1>6

LEMMA PageTakenInCandid ==
  ASSUME NEW d, NEW D, Fine(D, d), NEW s, NEW plain, Candid(D, s, plain),
         NEW page, NEW n \in Nat, DOMAIN page = 1..n,
         \A k \in 1..n :
           /\ page[k] \in PulledChange /\ page[k].data \in Data(page[k].id)
           /\ page[k].ver >= 1
           /\ Says(s, page[k].id, page[k].ver, page[k].action = "tombstone", page[k].data)
  PROVE  Candid(PageTakenIn(D, page), s, plain)
<1> DEFINE X == {E \in DeviceState(d) : Fine(E, d) /\ Candid(E, s, plain)}
<1>1. D \in X
  BY DEF Fine
<1>2. ASSUME NEW E \in X, NEW k \in 1..n  PROVE ChangeTakenIn(E, page[k]) \in X
  <2> DEFINE ch == page[k]
  <2>1. Fine(E, d) /\ Candid(E, s, plain)
    OBVIOUS
  <2>2. Leads(E, ChangeTakenIn(E, page[k]), d, {page[k].id})
    BY <2>1, ChangeTakenInFine
  <2>3. /\ ch \in PulledChange /\ ch.ver >= 1
        /\ Says(s, ch.id, ch.ver, ch.action = "tombstone", ch.data)
    OBVIOUS
  <2> HIDE DEF ch
  <2>4. Candid(ChangeTakenIn(E, ch), s, plain)
    BY <2>1, <2>3, ChangeCandid
  <2> QED  BY <2>2, <2>4 DEF Leads, Fine, ch
<1>3. PageTakenIn(D, page) \in X
  <2> HIDE DEF X
  <2> QED  BY <1>1, <1>2, PageKeeps
<1> QED  BY <1>3

-----------------------------------------------------------------------------
(* The server.                                                             *)

ServerState == [rec : [Id -> Row], log : SUBSET Entry, seq : Nat, applied : [OpId -> Int]]

ServerOK(s) ==
  /\ s \in ServerState
  /\ IsFiniteSet(s.log)
  /\ \A e \in s.log : e.seq <= s.seq
  /\ \A i \in Id : s.rec[i].data \in Data(i)
  /\ \A o \in OpId : s.applied[o] = NotApplied \/ s.applied[o] \in Nat

\* The records a server can tell of.
KnownTo(s) == {i \in Id : Found(s, i)} \cup {e.id : e \in s.log}

\* A write of the server, about the records N.
Moves(s, t, N) ==
  /\ ServerOK(t)
  /\ t.seq >= s.seq
  /\ KnownTo(t) \subseteq KnownTo(s) \cup N
  /\ t.applied = s.applied

LEMMA LoggedMoves ==
  ASSUME NEW s, ServerOK(s), NEW i \in Id, NEW r \in Row, r.data \in Data(i),
         NEW t, t = Logged(s, i, r)
  PROVE  Moves(s, t, {i})
<1> DEFINE e == [seq |-> s.seq + 1, id |-> i, ver |-> r.ver,
                 action |-> IF r.deleted THEN "tombstone" ELSE "upsert"]
<1>0. /\ s.rec \in [Id -> Row] /\ s.log \in SUBSET Entry /\ s.seq \in Nat
      /\ s.applied \in [OpId -> Int] /\ IsFiniteSet(s.log)
  BY DEF ServerOK, ServerState
<1>1. /\ t.rec = [s.rec EXCEPT ![i] = r] /\ t.log = s.log \cup {e}
      /\ t.seq = s.seq + 1 /\ t.applied = s.applied
      /\ t = [rec |-> t.rec, log |-> t.log, seq |-> t.seq, applied |-> t.applied]
  BY DEF Logged
<1>2. e \in Entry /\ e.seq = s.seq + 1 /\ e.id = i
  BY <1>0 DEF Entry, Row
<1> HIDE DEF e
<1>3. t \in ServerState
  BY <1>0, <1>1, <1>2 DEF ServerState
<1>4. IsFiniteSet(t.log)
  BY <1>0, <1>1, FS_AddElement
<1>5. \A x \in t.log : x.seq <= t.seq
  <2>1. \A x \in s.log : x.seq \in Nat /\ x.seq <= s.seq
    BY <1>0 DEF ServerOK, Entry
  <2> QED  BY <2>1, <1>0, <1>1, <1>2
<1>6. \A j \in Id : t.rec[j] = IF j = i THEN r ELSE s.rec[j]
  BY <1>0, <1>1
<1>7. \A j \in Id : t.rec[j].data \in Data(j)
  BY <1>6 DEF ServerOK
<1>8. ServerOK(t)
  BY <1>1, <1>3, <1>4, <1>5, <1>7 DEF ServerOK
<1>9. KnownTo(t) \subseteq KnownTo(s) \cup {i}
  BY <1>1, <1>2, <1>6 DEF KnownTo, Found
<1> QED  BY <1>0, <1>1, <1>8, <1>9 DEF Moves

LEMMA TombstonedRow ==
  ASSUME NEW s, ServerOK(s), NEW i \in Id
  PROVE  /\ Tombstoned(s, i) \in Row /\ Tombstoned(s, i).data \in Data(i)
         /\ Tombstoned(s, i).ver = s.rec[i].ver + 1
BY DEF Tombstoned, Row, ServerOK, ServerState

LEMMA CascadedMoves ==
  ASSUME NEW s, ServerOK(s), NEW c \in Category, NEW order \in Orders,
         NEW t, t = Cascaded(s, c, order)
  PROVE  Moves(s, t, {})
<1> DEFINE D == Dependants(s, c)
           Of(u) == [seq |-> s.seq + order[u], id |-> u, action |-> "tombstone",
                     ver |-> s.rec[u].ver + 1]
           new == {Of(u) : u \in D}
           n == Cardinality(Transaction)
<1>0. /\ s.rec \in [Id -> Row] /\ s.log \in SUBSET Entry /\ s.seq \in Nat
      /\ s.applied \in [OpId -> Int] /\ IsFiniteSet(s.log)
  BY DEF ServerOK, ServerState
<1>1. /\ t.rec = [i \in Id |-> IF i \in D THEN Tombstoned(s, i) ELSE s.rec[i]]
      /\ t.log = s.log \cup new /\ t.seq = s.seq + n /\ t.applied = s.applied
      /\ t = [rec |-> t.rec, log |-> t.log, seq |-> t.seq, applied |-> t.applied]
  BY DEF Cascaded
<1>2. n \in Nat
  BY TransactionFinite, FS_CardinalityType
<1>3. D \subseteq Transaction /\ D \subseteq Id /\ \A u \in D : Found(s, u)
  BY DEF Dependants, Live, Id
<1>4. \A u \in Transaction : order[u] \in Nat /\ order[u] <= n
  BY <1>2 DEF Orders
<1>5. ASSUME NEW u \in D
      PROVE  Of(u) \in Entry /\ Of(u).seq <= s.seq + n /\ Of(u).id = u
  <2>1. s.rec[u].ver \in Nat
    BY <1>0, <1>3 DEF Row
  <2>2. order[u] \in Nat /\ order[u] <= n
    BY <1>3, <1>4
  <2> QED  BY <1>0, <1>2, <1>3, <2>1, <2>2 DEF Entry
<1>6. IsFiniteSet(new)
  <2>1. IsFiniteSet(D)
    BY <1>3, TransactionFinite, FS_Subset
  <2> DEFINE f == [u \in D |-> Of(u)]
  <2>2. f \in Surjection(D, new)
    BY DEF Surjection
  <2> HIDE DEF D, f, new
  <2> QED  BY <2>1, <2>2, FS_Surjection
<1> HIDE DEF D, Of, n
<1>7. new \subseteq Entry /\ \A e \in new : e.seq <= s.seq + n /\ e.id \in D
  BY <1>5
<1> HIDE DEF new
<1>8. \A j \in Id : t.rec[j] = IF j \in D THEN Tombstoned(s, j) ELSE s.rec[j]
  BY <1>1
<1>9. \A j \in Id : t.rec[j] \in Row /\ t.rec[j].data \in Data(j)
  BY <1>0, <1>8, TombstonedRow DEF ServerOK
<1>10. t.rec \in [Id -> Row]
  BY <1>1, <1>9
<1>11. t \in ServerState
  BY <1>0, <1>1, <1>2, <1>7, <1>10 DEF ServerState
<1>12. IsFiniteSet(t.log)
  <2>1. IsFiniteSet(s.log \cup new)
    BY <1>0, <1>6, FS_Union
  <2>2. t.log = s.log \cup new
    BY <1>1
  <2> QED  BY <2>1, <2>2
<1>13. \A x \in t.log : x.seq <= t.seq
  <2>1. \A x \in s.log : x.seq \in Nat /\ x.seq <= s.seq
    BY <1>0 DEF ServerOK, Entry
  <2> QED  BY <2>1, <1>0, <1>1, <1>2, <1>7
<1>14. ServerOK(t)
  BY <1>1, <1>9, <1>11, <1>12, <1>13 DEF ServerOK
<1>15. KnownTo(t) \subseteq KnownTo(s)
  <2>1. \A i \in Id : Found(t, i) => Found(s, i)
    BY <1>3, <1>8 DEF Found
  <2>2. \A e \in t.log : e \in s.log \/ (e.id \in Id /\ Found(s, e.id))
    BY <1>1, <1>3, <1>7
  <2> QED  BY <2>1, <2>2 DEF KnownTo
<1> QED  BY <1>0, <1>1, <1>2, <1>14, <1>15 DEF Moves

Answer == [status : {"applied", "conflict", "error"},
           code : {"", "SYNC_ALREADY_EXISTS", "SYNC_VERSION_CONFLICT",
                   "SYNC_DELETED_CONFLICT"},
           ver : Nat, state : Row]

\* An answer to the operation w.
Answers(a, w) ==
  /\ a \in Answer /\ a.state.data \in Data(w.id)
  /\ a.status = "applied" /\ w.action = "upsert" => a.ver = w.base + 1

\* An operation, well-formed.
Sensible(w) ==
  /\ w.id \in Id /\ w.action \in {"upsert", "delete"} /\ w.base \in Nat
  /\ w.action = "upsert" => w.data \in PayloadOf(w.id)

\* A wire operation, well-formed.
Valid(w) ==
  /\ w.id \in Id /\ w.action \in {"upsert", "delete"} /\ w.base \in Nat
  /\ w.opId \in OpId
  /\ w.action = "upsert" => w.data \in PayloadOf(w.id)

LEMMA AnswerShapes ==
  ASSUME NEW s, ServerOK(s), NEW w, Sensible(w)
  PROVE  /\ Answers(ErrorAnswer, w)
         /\ \A code \in {"SYNC_ALREADY_EXISTS", "SYNC_VERSION_CONFLICT",
                         "SYNC_DELETED_CONFLICT"} :
              Answers(ConflictAnswer(s, w.id, code), w)
         /\ \A v \in Nat : (w.action = "upsert" => v = w.base + 1)
                             => Answers(AppliedAnswer(v), w)
<1>0. /\ s.rec[w.id] \in Row /\ s.rec[w.id].data \in Data(w.id)
      /\ Absent \in Row /\ Absent.data \in Data(w.id) /\ NoData \in Data(w.id)
  BY NoRowFacts DEF ServerOK, ServerState, Sensible, Absent
<1>1. Answers(ErrorAnswer, w)
  BY <1>0 DEF ErrorAnswer, Answers, Answer
<1>2. \A v \in Nat : (w.action = "upsert" => v = w.base + 1) => Answers(AppliedAnswer(v), w)
  BY <1>0 DEF AppliedAnswer, Answers, Answer
<1>3. [s.rec[w.id] EXCEPT !.data = NoData] \in Row
  BY <1>0 DEF Row
<1>4. ASSUME NEW code \in {"SYNC_ALREADY_EXISTS", "SYNC_VERSION_CONFLICT",
                           "SYNC_DELETED_CONFLICT"}
      PROVE  Answers(ConflictAnswer(s, w.id, code), w)
  <2> DEFINE st == IF Live(s, w.id) THEN s.rec[w.id] ELSE [s.rec[w.id] EXCEPT !.data = NoData]
  <2>1. st \in Row /\ st.data \in Data(w.id)
    BY <1>0, <1>3 DEF Row
  <2>2. ConflictAnswer(s, w.id, code) =
          [status |-> "conflict", code |-> code, ver |-> 0, state |-> st]
    BY DEF ConflictAnswer
  <2> DEFINE a == ConflictAnswer(s, w.id, code)
  <2>3. a.state = st /\ a.status = "conflict"
    BY <2>2
  <2> HIDE DEF st
  <2>4. a \in Answer
    <3>1. /\ code \in {"", "SYNC_ALREADY_EXISTS", "SYNC_VERSION_CONFLICT",
                      "SYNC_DELETED_CONFLICT"}
          /\ "conflict" \in {"applied", "conflict", "error"} /\ 0 \in Nat
      OBVIOUS
    <3>2. [status |-> "conflict", code |-> code, ver |-> 0, state |-> st] \in Answer
      BY <2>1, <3>1, Zenon DEF Answer
    <3> QED  BY <2>2, <3>2
  <2> HIDE DEF a
  <2> QED  BY <2>1, <2>3, <2>4 DEF Answers, a
<1> QED  BY <1>1, <1>2, <1>4

LEMMA MovesNot ==
  ASSUME NEW s, ServerOK(s), NEW N
  PROVE  Moves(s, s, N)
BY DEF Moves, ServerOK, ServerState

LEMMA UpsertMoves ==
  ASSUME NEW s, ServerOK(s), NEW w, Sensible(w), w.action = "upsert",
         NEW o, o = Upsert(s, w)
  PROVE  Moves(s, o.srv, {w.id}) /\ Answers(o.answer, w)
<1> DEFINE r == [ver |-> 1, deleted |-> FALSE, data |-> CreatedData(w.id, w.data)]
           q == [ver |-> w.base + 1, deleted |-> FALSE, data |-> w.data]
<1>0. w.id \in Id /\ w.data \in PayloadOf(w.id) /\ w.base \in Nat
  BY DEF Sensible
<1>1. CreatedData(w.id, w.data) \in PayloadOf(w.id)
  BY <1>0, NewPayload DEF CreatedData
<1>2. FALSE \in BOOLEAN /\ PayloadOf(w.id) \subseteq Data(w.id)
      /\ Data(w.id) \subseteq Payload \cup {NoData}
  BY <1>0, NoRowFacts DEF Data
<1>3. r \in Row /\ r.data \in Data(w.id) /\ q \in Row /\ q.data \in Data(w.id)
  BY <1>0, <1>1, <1>2 DEF Row
<1>4. Moves(s, Logged(s, w.id, r), {w.id}) /\ Moves(s, Logged(s, w.id, q), {w.id})
  <2> HIDE DEF r, q
  <2> QED  BY <1>0, <1>3, LoggedMoves
<1>5. w.base = 0 => Answers(AppliedAnswer(1), w)
  BY AnswerShapes
<1>6. Answers(AppliedAnswer(w.base + 1), w)
  BY <1>0, AnswerShapes
<1>7. \/ o = Outcome(s, ErrorAnswer)
      \/ \E code \in {"SYNC_ALREADY_EXISTS", "SYNC_VERSION_CONFLICT",
                      "SYNC_DELETED_CONFLICT"} : o = Outcome(s, ConflictAnswer(s, w.id, code))
      \/ w.base = 0 /\ o = Outcome(Logged(s, w.id, r), AppliedAnswer(1))
      \/ o = Outcome(Logged(s, w.id, q), AppliedAnswer(w.base + 1))
  BY DEF Upsert, Create, Update
<1> HIDE DEF r, q
<1> QED  BY <1>4, <1>5, <1>6, <1>7, AnswerShapes, MovesNot DEF Outcome

LEMMA DeleteMoves ==
  ASSUME NEW s, ServerOK(s), NEW w, Sensible(w), w.action = "delete",
         NEW order \in Orders, NEW o, o = Delete(s, w, order)
  PROVE  Moves(s, o.srv, {w.id}) /\ Answers(o.answer, w)
<1> DEFINE t == Logged(s, w.id, Tombstoned(s, w.id))
<1>0. w.id \in Id /\ s.rec[w.id] \in Row /\ s.rec[w.id].ver \in Nat
  BY DEF Sensible, ServerOK, ServerState, Row
<1>1. Moves(s, t, {w.id})
  BY <1>0, TombstonedRow, LoggedMoves
<1>2. ASSUME w.id \in Category  PROVE Moves(s, Cascaded(t, w.id, order), {w.id})
  <2>1. Moves(t, Cascaded(t, w.id, order), {})
    BY <1>1, <1>2, CascadedMoves DEF Moves
  <2>2. s.seq \in Nat /\ t.seq \in Nat /\ Cascaded(t, w.id, order).seq \in Nat
    BY <1>1, <2>1 DEF Moves, ServerOK, ServerState
  <2> HIDE DEF t
  <2> QED  BY <1>1, <2>1, <2>2 DEF Moves
<1>3. \A v \in Nat : Answers(AppliedAnswer(v), w)
  BY AnswerShapes
<1>4. \/ o = Outcome(s, AppliedAnswer(0))
      \/ o = Outcome(s, AppliedAnswer(s.rec[w.id].ver))
      \/ o = Outcome(s, ErrorAnswer)
      \/ o = Outcome(t, AppliedAnswer(s.rec[w.id].ver + 1))
      \/ w.id \in Category
         /\ o = Outcome(Cascaded(t, w.id, order), AppliedAnswer(s.rec[w.id].ver + 1))
  BY DEF Delete
<1> HIDE DEF t
<1> QED  BY <1>0, <1>1, <1>2, <1>3, <1>4, AnswerShapes, MovesNot DEF Outcome

\* What an operation of a batch does to the server: what is answered to an
\* upsert, now or by a replay, is the version after its base.
AppliedTo(s, w) == s.applied[w.opId] \in {NotApplied, w.base + 1}

ApplyMoves(s, t, a, w) ==
  /\ ServerOK(t)
  /\ t.seq >= s.seq
  /\ KnownTo(t) \subseteq KnownTo(s) \cup {w.id}
  /\ \A o \in OpId \ {w.opId} : t.applied[o] = s.applied[o]
  /\ Answers(a, w)
  /\ w.action = "upsert" => AppliedTo(t, w)

LEMMA ApplyFine ==
  ASSUME NEW s, ServerOK(s), NEW w, Valid(w), w.action = "upsert" => AppliedTo(s, w),
         NEW order \in Orders, NEW o, o = Apply(s, w, order)
  PROVE  ApplyMoves(s, o.srv, o.answer, w)
<1>1. CASE s.applied[w.opId] # NotApplied
  <2>1. o.srv = s /\ o.answer = AppliedAnswer(s.applied[w.opId])
    BY <1>1 DEF Apply, Outcome
  <2>2. s.applied[w.opId] \in Nat
    BY <1>1 DEF ServerOK, Valid
  <2>3. w.action = "upsert" => s.applied[w.opId] = w.base + 1
    BY <1>1 DEF AppliedTo
  <2>4. Answers(o.answer, w)
    BY <2>1, <2>2, <2>3, AnswerShapes DEF Valid, Sensible
  <2> QED  BY <2>1, <2>4, MovesNot DEF Moves, ApplyMoves
<1>2. CASE s.applied[w.opId] = NotApplied
  <2> DEFINE p == Perform(s, w, order)
  <2>1. Moves(s, p.srv, {w.id}) /\ Answers(p.answer, w)
    BY UpsertMoves, DeleteMoves DEF Perform, Valid, Sensible
  <2>2. \/ p.answer.status = "applied"
           /\ o = Outcome(Recorded(p.srv, w.opId, p.answer.ver), p.answer)
        \/ p.answer.status # "applied" /\ o = p
    BY <1>2 DEF Apply
  <2> HIDE DEF p
  <2>3. CASE p.answer.status # "applied" /\ o = p
    <3>1. w.action = "upsert" => AppliedTo(o.srv, w)
      BY <2>1, <2>3 DEF Moves, AppliedTo
    <3> QED  BY <2>1, <2>3, <3>1 DEF Moves, ApplyMoves
  <2>4. CASE p.answer.status = "applied"
             /\ o = Outcome(Recorded(p.srv, w.opId, p.answer.ver), p.answer)
    <3> DEFINE t == o.srv
               v == p.answer.ver
    <3>1. /\ t = [rec |-> p.srv.rec, log |-> p.srv.log, seq |-> p.srv.seq,
                  applied |-> [p.srv.applied EXCEPT ![w.opId] = v]]
          /\ o.answer = p.answer
      BY <2>4 DEF Outcome, Recorded
    <3>2. /\ p.srv.rec \in [Id -> Row] /\ p.srv.log \in SUBSET Entry /\ p.srv.seq \in Nat
          /\ p.srv.applied \in [OpId -> Int] /\ w.opId \in OpId
      BY <2>1 DEF Moves, ServerOK, ServerState, Valid
    <3>3. v \in Nat /\ (w.action = "upsert" => v = w.base + 1)
      BY <2>1, <2>4 DEF Answers, Answer
    <3> HIDE DEF t, v
    <3>4. /\ t.rec = p.srv.rec /\ t.log = p.srv.log /\ t.seq = p.srv.seq
          /\ \A x \in OpId : t.applied[x] = IF x = w.opId THEN v ELSE p.srv.applied[x]
          /\ t.applied \in [OpId -> Int]
      BY <3>1, <3>2, <3>3
    <3>5. t \in ServerState
      BY <3>1, <3>2, <3>4 DEF ServerState
    <3>6. ServerOK(t)
      BY <2>1, <3>3, <3>4, <3>5 DEF Moves, ServerOK
    <3>7. KnownTo(t) = KnownTo(p.srv)
      BY <3>4 DEF KnownTo, Found
    <3>8. w.action = "upsert" => AppliedTo(t, w)
      BY <3>2, <3>3, <3>4 DEF AppliedTo
    <3>9. \A x \in OpId \ {w.opId} : t.applied[x] = s.applied[x]
      BY <2>1, <3>4 DEF Moves
    <3>10. t.seq >= s.seq /\ KnownTo(t) \subseteq KnownTo(s) \cup {w.id}
      BY <2>1, <3>4, <3>7 DEF Moves
    <3>11. Answers(o.answer, w)
      BY <2>1, <3>1
    <3> QED  BY <3>6, <3>8, <3>9, <3>10, <3>11 DEF ApplyMoves, t
  <2> QED  BY <2>2, <2>3, <2>4
<1> QED  BY <1>1, <1>2

\* Every change of the log has a version.
Counted(s) == \A e \in s.log : e.ver >= 1

LEMMA UpsertCounts ==
  ASSUME NEW s, ServerOK(s), Counted(s), NEW w, Sensible(w), w.action = "upsert"
  PROVE  Counted(Upsert(s, w).srv)
<1> DEFINE r == [ver |-> 1, deleted |-> FALSE, data |-> CreatedData(w.id, w.data)]
           q == [ver |-> w.base + 1, deleted |-> FALSE, data |-> w.data]
           o == Upsert(s, w)
<1>1. /\ Logged(s, w.id, r).log = s.log \cup {[seq |-> s.seq + 1, id |-> w.id, ver |-> 1,
                                              action |-> "upsert"]}
      /\ Logged(s, w.id, q).log = s.log \cup {[seq |-> s.seq + 1, id |-> w.id,
                                              ver |-> w.base + 1, action |-> "upsert"]}
  BY DEF Logged
<1>2. Counted(Logged(s, w.id, r)) /\ Counted(Logged(s, w.id, q))
  <2>1. w.base + 1 >= 1
    BY DEF Sensible
  <2> HIDE DEF r, q
  <2> QED  BY <1>1, <2>1 DEF Counted
<1>3. \/ o.srv = s \/ o.srv = Logged(s, w.id, r) \/ o.srv = Logged(s, w.id, q)
  BY DEF Upsert, Create, Update, Outcome
<1> HIDE DEF r, q
<1> QED  BY <1>2, <1>3

LEMMA DeleteCounts ==
  ASSUME NEW s, ServerOK(s), Counted(s), NEW w, Sensible(w), NEW order \in Orders
  PROVE  Counted(Delete(s, w, order).srv)
<1> DEFINE t == Logged(s, w.id, Tombstoned(s, w.id))
           o == Delete(s, w, order)
           e == [seq |-> s.seq + 1, id |-> w.id, ver |-> s.rec[w.id].ver + 1,
                 action |-> "tombstone"]
<1>0. \A i \in Id : s.rec[i].ver \in Nat
  BY DEF ServerOK, ServerState, Row
<1>1. t.log = s.log \cup {e}
  BY DEF Logged, Tombstoned
<1>2. w.id \in Id /\ e.ver >= 1
  BY <1>0 DEF Sensible
<1> HIDE DEF e
<1>3. Counted(t)
  BY <1>1, <1>2 DEF Counted
<1>4. ServerOK(t)
  <2>1. w.id \in Id /\ s.rec[w.id] \in Row
    BY <1>2 DEF ServerOK, ServerState
  <2> QED  BY <2>1, TombstonedRow, LoggedMoves DEF Moves
<1> HIDE DEF t
<1>5. Counted(Cascaded(t, w.id, order))
  <2> DEFINE D == Dependants(t, w.id)
             new == {[seq |-> t.seq + order[u], id |-> u, action |-> "tombstone",
                      ver |-> t.rec[u].ver + 1] : u \in D}
  <2>1. Cascaded(t, w.id, order).log = t.log \cup new
    BY DEF Cascaded
  <2>2. \A u \in D : t.rec[u].ver + 1 >= 1
    <3>1. D \subseteq Id
      BY DEF Dependants, Id
    <3>2. \A u \in Id : t.rec[u].ver \in Nat
      BY <1>4 DEF ServerOK, ServerState, Row
    <3> HIDE DEF D
    <3> QED  BY <3>1, <3>2
  <2> HIDE DEF D
  <2>3. \A x \in new : x.ver >= 1
    BY <2>2
  <2> HIDE DEF new
  <2> QED  BY <1>3, <2>1, <2>3 DEF Counted
<1>6. \/ o.srv = s \/ o.srv = t \/ o.srv = Cascaded(t, w.id, order)
  BY DEF Delete, Outcome, t
<1> QED  BY <1>3, <1>5, <1>6

-----------------------------------------------------------------------------
(* A page of changes.                                                      *)

\* A pulled change the server s can tell of.
Pullable(ch, s) ==
  ch \in PulledChange /\ ch.data \in Data(ch.id) /\ ch.seq <= s.seq

\* The change tells of the log row e: of a record that is not deleted, what the
\* server has now.
Reports(ch, e, s) ==
  /\ ch.id = e.id /\ ch.ver = e.ver /\ ch.action = e.action
  /\ e.action = "upsert" => ch.data = s.rec[e.id].data

LEMMA ChangesFacts ==
  ASSUME NEW s, ServerOK(s), NEW c
  PROVE  /\ Changes(s, c) \in Seq(PulledChange)
         /\ \A k \in DOMAIN Changes(s, c) :
              /\ Pullable(Changes(s, c)[k], s) /\ Changes(s, c)[k].id \in KnownTo(s)
              /\ \E e \in s.log : Reports(Changes(s, c)[k], e, s)
<1> DEFINE after == {e \in s.log : e.seq > c}
           seqs == {e.seq : e \in after}
           n == Cardinality(seqs)
           Change(e) == [seq |-> e.seq, id |-> e.id, action |-> e.action, ver |-> e.ver,
                         data |-> IF e.action = "upsert" THEN s.rec[e.id].data ELSE NoData]
           Pick(k) == CHOOSE e \in after : e.seq = Nth(seqs, k)
<1>0. /\ s.rec \in [Id -> Row] /\ s.log \in SUBSET Entry /\ IsFiniteSet(s.log)
      /\ \A e \in s.log : e.seq <= s.seq
      /\ \A i \in Id : s.rec[i].data \in Data(i)
  BY DEF ServerOK, ServerState
<1>1. Changes(s, c) = [k \in 1..n |-> Change(Pick(k))]
  BY DEF Changes
<1>2. IsFiniteSet(seqs) /\ \A x \in seqs : x \in Nat
  <2>1. IsFiniteSet(after)
    BY <1>0, FS_Subset
  <2> DEFINE f == [e \in after |-> e.seq]
  <2>2. f \in Surjection(after, seqs)
    BY DEF Surjection
  <2>3. \A x \in seqs : x \in Nat
    BY <1>0 DEF Entry
  <2> HIDE DEF after, f, seqs
  <2> QED  BY <2>1, <2>2, <2>3, FS_Surjection
<1>3. n \in Nat /\ \A k \in 1..n : Nth(seqs, k) \in seqs
  <2> HIDE DEF seqs
  <2> QED  BY <1>2, NthFacts
<1>4. ASSUME NEW k \in 1..n  PROVE Pick(k) \in s.log
  <2>1. \E e \in after : e.seq = Nth(seqs, k)
    <3> HIDE DEF n
    <3> QED  BY <1>3
  <2>2. Pick(k) \in after
    <3> HIDE DEF after
    <3> QED  BY <2>1
  <2> QED  BY <2>2
<1>5. ASSUME NEW e \in s.log
      PROVE  /\ Pullable(Change(e), s) /\ Change(e).id \in KnownTo(s)
             /\ Reports(Change(e), e, s)
  <2>1. /\ e.seq \in Nat /\ e.id \in Id /\ e.action \in {"upsert", "tombstone"} /\ e.ver \in Nat
        /\ e.seq <= s.seq
    BY <1>0 DEF Entry
  <2>2. s.rec[e.id].data \in Data(e.id) /\ NoData \in Data(e.id)
        /\ Data(e.id) \subseteq Payload \cup {NoData}
    BY <1>0, <2>1, NoRowFacts
  <2> DEFINE v == IF e.action = "upsert" THEN s.rec[e.id].data ELSE NoData
  <2>3. v \in Data(e.id) /\ v \in Payload \cup {NoData}
    BY <2>2
  <2>4. Change(e) = [seq |-> e.seq, id |-> e.id, action |-> e.action, ver |-> e.ver, data |-> v]
    OBVIOUS
  <2> DEFINE ch == Change(e)
  <2>5. ch.seq = e.seq /\ ch.id = e.id /\ ch.ver = e.ver /\ ch.data = v /\ Reports(ch, e, s)
    BY <2>4 DEF Reports
  <2> HIDE DEF v
  <2>6. ch \in PulledChange
    BY <2>1, <2>3, <2>4 DEF PulledChange
  <2> HIDE DEF ch
  <2>7. Pullable(ch, s) /\ ch.id \in KnownTo(s)
    BY <2>1, <2>3, <2>5, <2>6 DEF Pullable, KnownTo
  <2> QED  BY <2>5, <2>7 DEF ch
<1> HIDE DEF n, Pick, Change
<1>6. \A k \in 1..n :
        /\ Pullable(Change(Pick(k)), s) /\ Change(Pick(k)).id \in KnownTo(s)
        /\ \E e \in s.log : Reports(Change(Pick(k)), e, s)
  BY <1>4, <1>5
<1>7. Changes(s, c) \in Seq(PulledChange)
  <2>1. \A k \in 1..n : Change(Pick(k)) \in PulledChange
    BY <1>6 DEF Pullable
  <2>2. [k \in 1..n |-> Change(Pick(k))] \in [1..n -> PulledChange]
    BY <2>1
  <2>3. [k \in 1..n |-> Change(Pick(k))] \in Seq(PulledChange)
    BY <2>2, <1>3, SeqDef
  <2> QED  BY <2>3, <1>1
<1> QED  BY <1>1, <1>6, <1>7

=============================================================================
