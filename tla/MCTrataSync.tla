---------------------------- MODULE MCTrataSync -----------------------------
(***************************************************************************)
(* TLC instances of TrataSync: from empty databases (Spec), and from one   *)
(* category and one transaction that were made through the REST API, which *)
(* keeps no operation ids, and pulled by every device (SyncedSpec).        *)
(***************************************************************************)
EXTENDS TrataClaims, TLC

CONSTANT x  \* one of the names

MCOpId == Device \X (1..MaxOps)

\* What the users enter: nothing archived.
Plain == {d \in Payload : ~ d.archived}

Symmetric == Permutations(Device) \cup Permutations(Name)
DevicesAlike == Permutations(Device)

Home == CHOOSE c \in Category : TRUE

\* One category and the transactions have the name x.
First == [i \in Id |->
  CHOOSE d \in PayloadOf(i) : /\ ~ d.archived
                             /\ d.name = x <=> i \in {Home} \cup Transaction
                             /\ d.category \in {NoCategory, Home}]

\* The first record of each kind.
Seed == {CHOOSE i \in Kind : TRUE : Kind \in {Category, Transaction} \ {{}}}

\* The records S are at version 1 on the server.
Seeded(S) ==
  LET Rec == [i \in Id |-> IF i \in S
                          THEN [ver |-> 1, deleted |-> FALSE, data |-> First[i]]
                          ELSE Absent]
      order == SetToSeq(S \cap Category) \o SetToSeq(S \cap Transaction)
  IN  [EmptyServer EXCEPT
         !.rec = Rec, !.seq = Cardinality(S),
         !.log = {[seq |-> n, id |-> order[n], action |-> "upsert", ver |-> 1] :
                   n \in DOMAIN order}]

Synced(S) ==
  /\ srv = Seeded(S)
  /\ dev = [d \in Device |->
             [EmptyDevice(d) EXCEPT
                !.row = [i \in Id |-> IF i \in S
                                     THEN [ver |-> 1, sv |-> 1, deleted |-> FALSE,
                                           data |-> First[i]]
                                     ELSE NoRow]]]
  /\ cursor = [d \in Device |-> Cardinality(S)]
  /\ net = [d \in Device |-> Idle]
  /\ late = [d \in Device |-> <<>>]

SyncedInit == Synced(Seed) /\ born = Seed /\ edits = 0 /\ failures = 0

SyncedSpec == SyncedInit /\ [][Next]_vars

\* A category, others to come, and requests that fail; or all the categories and
\* transactions, and none that fails.
LiveInit ==
  /\ edits = 0
  /\ \/ Synced({Home}) /\ born = {Home} \cup Transaction /\ failures = 0
     \/ Synced(Id) /\ born = Id /\ failures = MaxFailures

LiveFairSpec == LiveInit /\ [][Next]_vars /\ Fairness

\* From empty databases, with categories only; or synced, with one edit and
\* one failure fewer to come.
EitherInit ==
  \/ /\ srv = EmptyServer
     /\ dev = [d \in Device |-> EmptyDevice(d)]
     /\ cursor = [d \in Device |-> 0]
     /\ net = [d \in Device |-> Idle]
     /\ late = [d \in Device |-> <<>>]
     /\ born = Transaction
     /\ edits = 0
     /\ failures = 0
  \/ Synced(Seed) /\ born = Seed /\ edits = 1 /\ failures = 1

EitherSpec == EitherInit /\ [][Next]_vars
=============================================================================
