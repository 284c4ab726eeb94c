--------------------------- MODULE MCHouseholdSync ---------------------------
(* One device, the members of two households, one category and one        *)
(* transaction of it.                                                        *)
EXTENDS HouseholdSync, TLC

MCOpId == Device \X (1..MaxOps)

CONSTANT note   \* what every transaction is called

\* What the users enter: nothing archived, a category by another name.
Plain == {p \in Payload : ~ p.archived /\ (p.name = note <=> p.category # NoCategory)}

\* Every device is signed in, past the gate, and its household is new.
Settled ==
  /\ srv = [h \in Household |-> EmptyServer]
  /\ home \in [User -> Household]
  /\ dev = [d \in Device |-> EmptyDevice(d)]
  /\ cookie \in [Device -> User]
  /\ meta = [d \in Device |-> [cursor |-> 0, marker |-> home[cookie[d]],
                               owner |-> cookie[d]]]
  /\ app = [d \in Device |-> [Closed EXCEPT !.user = cookie[d], !.current = TRUE]]
  /\ net = [d \in Device |-> Idle]
  /\ late = [d \in Device |-> Idle]
  /\ crossed = {}
  /\ robbed = {}
  /\ born = {}
  /\ count = [edits |-> 0, others |-> 0, moves |-> 0, sessions |-> 0, faults |-> 0]

SettledSpec == Settled /\ [][Next]_vars

\* A device that mixes households when all has happened is followed no further.
InPlay == crossed = {} \/ Happened < MaxCount

Symmetry ==
  Permutations(User) \cup Permutations(Household) \cup Permutations(Name \ {note})
=============================================================================
