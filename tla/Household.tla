------------------------------ MODULE Household -----------------------------
(***************************************************************************)
(* Household membership on the server (service/household.go,               *)
(* repository/postgres/household_join.go): invitations, the join code, and *)
(* the transactions that move users between households.                    *)
(*                                                                         *)
(* A request is authenticated first, which reads the user's membership     *)
(* (AuthRequired); the service then checks what it must with reads of its  *)
(* own, and at last runs one transaction.  Nothing is locked in between,   *)
(* so each of these is a step, on what the step before has read.  A        *)
(* transaction is one step, for the unique index on user_id and the row    *)
(* locks order those that touch a user; the dissolution is two, for other  *)
(* transactions may commit between its list of members and its deletes.    *)
(*                                                                         *)
(* The specification's definitions carry the module's name: ServerProofs   *)
(* is about this module and SyncServer both.                               *)
(***************************************************************************)
EXTENDS Integers, FiniteSets, Functions

CONSTANTS
  User,           \* accounts, and the emails invitations go to
  Household,      \* household ids
  Invitation,     \* ids of invitation rows
  Session,        \* requests that can be in progress at once
  NoUser, NoHousehold, NoInvitation,
  MaxSends        \* MaxInvitationSendsPerDay

ASSUME NoHouseholdAssumption == NoHousehold \notin Household
ASSUME NoInvitationAssumption == NoInvitation \notin Invitation
ASSUME NoUserAssumption == NoUser \notin User

VARIABLES
  registered,  \* the users with an account
  live,        \* the rows of households
  used,        \* the household ids ever generated
  member,      \* member[u]: the one household_members row of u, or Homeless
  inv,         \* the rows of household_invitations
  code,        \* code[h]: household h has an active join code
  req,         \* req[s]: the request in progress in session s
  admitted     \* history: how many joins an invitation let in

rows == <<registered, live, used, member, inv, code, admitted>>
householdVars == <<registered, live, used, member, inv, code, req, admitted>>

Homeless == [hh |-> NoHousehold, role |-> "none"]

Unsent == [hh |-> NoHousehold, to |-> NoUser, age |-> "today",
           accepted |-> FALSE, revoked |-> FALSE]

Free == [phase |-> "free", user |-> NoUser, hh |-> NoHousehold, role |-> "none",
         inv |-> NoInvitation, other |-> NoUser, list |-> {}]

HouseholdInit ==
  /\ registered = {}
  /\ live = {}
  /\ used = {}
  /\ member = [u \in User |-> Homeless]
  /\ inv = [i \in Invitation |-> Unsent]
  /\ code = [h \in Household |-> FALSE]
  /\ req = [s \in Session |-> Free]
  /\ admitted = [i \in Invitation |-> 0]

MembersOf(h) == {u \in User : member[u].hh = h}

\* Neither accepted nor revoked, and not deleted.
Pending(i) == inv[i].hh # NoHousehold /\ ~ inv[i].accepted /\ ~ inv[i].revoked

Is(s, phase) == req[s].phase = phase

\* Authenticated, as the owner of a household when the membership was read.
AsOwner(s) == Is(s, "authed") /\ req[s].role = "owner"

\* A step of the request that reads, and does not write.
Goes(s, next) == req' = [req EXCEPT ![s] = next] /\ UNCHANGED rows

Done(s) == req' = [req EXCEPT ![s] = Free]

\* createPersonalHouseholdTx for each of the users U, when the memberships
\* are M otherwise: a new empty household, which the user owns.  Fails if
\* one of them has a membership (the unique index on user_id).
Rehomed(M, L, U) ==
  /\ \A u \in U : M[u] = Homeless
  /\ \E home \in Injection(U, Household \ used) :
       /\ member' = [u \in User |-> IF u \in U THEN [hh |-> home[u], role |-> "owner"]
                                               ELSE M[u]]
       /\ live' = L \cup {home[u] : u \in U}
       /\ used' = used \cup {home[u] : u \in U}

-----------------------------------------------------------------------------
\* RegisterUser.
Register(u) ==
  /\ u \notin registered
  /\ registered' = registered \cup {u}
  /\ Rehomed(member, live, {u})
  /\ UNCHANGED <<inv, code, req, admitted>>

\* AuthRequired: a user without a membership gets no further.
AuthRequired(s, u) ==
  /\ Is(s, "free")
  /\ member[u] # Homeless
  /\ Goes(s, [Free EXCEPT !.phase = "authed", !.user = u,
                          !.hh = member[u].hh, !.role = member[u].role])

\* The request is refused, fails or is lost: its transaction is rolled back.
Ends(s) == ~ Is(s, "free") /\ Goes(s, Free)

Joining(s, h, i) ==
  Goes(s, [Free EXCEPT !.phase = "join", !.user = req[s].user, !.hh = h, !.inv = i])

\* loadInvitation, for the account it is addressed to.
LoadInvitation(s, i) ==
  /\ Is(s, "authed")
  /\ inv[i].to = req[s].user
  /\ \/ Pending(i) /\ inv[i].age # "expired"
     \/ inv[i].accepted /\ inv[i].hh = member[req[s].user].hh /\ inv[i].hh # NoHousehold
  /\ Joining(s, inv[i].hh, i)

\* FindHouseholdByActiveCode.
FindByCode(s, h) ==
  /\ Is(s, "authed")
  /\ code[h]
  /\ Joining(s, h, NoInvitation)

\* Mutant: an invitation that was accepted can be claimed.
ClaimableAcceptedMutant(i) == inv[i].hh # NoHousehold /\ ~ inv[i].revoked

\* Mutant: an invitation that was revoked can be claimed.
ClaimableRevokedMutant(i) == inv[i].hh # NoHousehold /\ ~ inv[i].accepted

\* markInvitationAccepted.
Claimable(i) == Pending(i)

\* Mutant: the role moves along with the membership.
JoinHouseholdMutant(s) ==
  LET u == req[s].user
      i == req[s].inv
  IN  /\ Is(s, "join") /\ member[u] # Homeless
      /\ i # NoInvitation => Claimable(i)
      /\ req[s].hh \in live
      /\ member' = [member EXCEPT ![u].hh = req[s].hh]
      /\ inv' = [j \in Invitation |->
                   IF j = i THEN [inv[j] EXCEPT !.accepted = TRUE] ELSE inv[j]]
      /\ admitted' = [j \in Invitation |-> IF j = i THEN admitted[j] + 1 ELSE admitted[j]]
      /\ Done(s) /\ UNCHANGED <<registered, live, used, code>>

\* Mutant: joining the user's own household is not a no-op.
JoinOwnHouseholdMutant(s) ==
  LET u == req[s].user
      i == req[s].inv
  IN  /\ Is(s, "join") /\ member[u] # Homeless
      /\ i # NoInvitation => Claimable(i)
      /\ req[s].hh \in live
      /\ member' = [member EXCEPT ![u] = [hh |-> req[s].hh, role |-> "member"]]
      /\ inv' = [j \in Invitation |->
                   IF j = i THEN [inv[j] EXCEPT !.accepted = TRUE] ELSE inv[j]]
      /\ admitted' = [j \in Invitation |-> IF j = i THEN admitted[j] + 1 ELSE admitted[j]]
      /\ Done(s) /\ UNCHANGED <<registered, live, used, code>>

\* JoinHousehold: nothing to do in the user's own household; otherwise the
\* invitation is claimed, and the user's membership is replaced by one of
\* the target, which still has to exist.
JoinHousehold(s) ==
  LET u == req[s].user
      i == req[s].inv
  IN  /\ Is(s, "join") /\ member[u] # Homeless
      /\ Done(s) /\ UNCHANGED <<registered, live, used, code>>
      /\ \/ member[u].hh = req[s].hh /\ UNCHANGED <<member, inv, admitted>>
         \/ /\ member[u].hh # req[s].hh
            /\ i # NoInvitation => Claimable(i)
            /\ req[s].hh \in live
            /\ member' = [member EXCEPT ![u] = [hh |-> req[s].hh, role |-> "member"]]
            /\ inv' = [j \in Invitation |->
                         IF j = i THEN [inv[j] EXCEPT !.accepted = TRUE] ELSE inv[j]]
            /\ admitted' = [j \in Invitation |->
                              IF j = i THEN admitted[j] + 1 ELSE admitted[j]]

\* Leave, up to its transaction: an owner leaves only when alone.
CheckLeave(s) ==
  /\ Is(s, "authed")
  /\ req[s].role = "owner" =>
       req[s].hh \in live /\ Cardinality(MembersOf(req[s].hh)) <= 1
  /\ Goes(s, [Free EXCEPT !.phase = "leave", !.user = req[s].user])

\* LeaveHousehold: the user leaves whatever household it is in by now.
LeaveHousehold(s) ==
  /\ Is(s, "leave")
  /\ Rehomed([member EXCEPT ![req[s].user] = Homeless], live, {req[s].user})
  /\ Done(s) /\ UNCHANGED <<registered, inv, code, admitted>>

\* RemoveMember, RemoveHouseholdMember: a member, not an owner, of the
\* household the remover was found to own.
RemoveMember(s, u) ==
  /\ AsOwner(s)
  /\ member[u] = [hh |-> req[s].hh, role |-> "member"]
  /\ Rehomed([member EXCEPT ![u] = Homeless], live, {u})
  /\ Done(s) /\ UNCHANGED <<registered, inv, code, admitted>>

\* Dissolve, DissolveHousehold: the members are listed under the change-log
\* lock, which only other dissolutions, pushes and mutations wait for ...
ReadMembers(s) ==
  /\ AsOwner(s)
  /\ \A t \in Session : ~ (Is(t, "dissolve") /\ req[t].hh = req[s].hh)
  /\ Goes(s, [Free EXCEPT !.phase = "dissolve", !.hh = req[s].hh,
                          !.list = MembersOf(req[s].hh)])

\* Mutant: nobody is given a new household.
SweepMutant(s) ==
  LET h == req[s].hh
      Gone == [u \in User |-> IF member[u].hh = h THEN Homeless ELSE member[u]]
  IN  /\ Is(s, "dissolve")
      /\ Rehomed(Gone, live \ {h}, {})
      /\ inv' = [i \in Invitation |-> IF inv[i].hh = h
                                     THEN [inv[i] EXCEPT !.hh = NoHousehold] ELSE inv[i]]
      /\ code' = [code EXCEPT ![h] = FALSE]
      /\ Done(s) /\ UNCHANGED <<registered, admitted>>

\* ... and swept away with the household and all that is its; those on the
\* list get new households.
Sweep(s) ==
  LET h == req[s].hh
      Gone == [u \in User |-> IF member[u].hh = h THEN Homeless ELSE member[u]]
  IN  /\ Is(s, "dissolve")
      /\ Rehomed(Gone, live \ {h}, req[s].list)
      /\ inv' = [i \in Invitation |-> IF inv[i].hh = h
                                     THEN [inv[i] EXCEPT !.hh = NoHousehold] ELSE inv[i]]
      /\ code' = [code EXCEPT ![h] = FALSE]
      /\ Done(s) /\ UNCHANGED <<registered, admitted>>

\* CreateInvitation, up to its transaction: not to a member, and within the
\* day's budget, which counts rows.
CheckInvite(s, e) ==
  /\ AsOwner(s)
  /\ req[s].hh \in live /\ e \notin MembersOf(req[s].hh)
  /\ Cardinality({i \in Invitation : inv[i].hh = req[s].hh /\ inv[i].age = "today"})
       < MaxSends
  /\ Goes(s, [Free EXCEPT !.phase = "invite", !.hh = req[s].hh, !.other = e])

\* CreateHouseholdInvitation: a pending one for the email is refreshed.
Invite(s) ==
  LET h == req[s].hh
      old == {i \in Invitation : Pending(i) /\ inv[i].hh = h /\ inv[i].to = req[s].other}
      new == {i \in Invitation : inv[i] = Unsent}
  IN  /\ Is(s, "invite")
      /\ \E i \in IF old # {} THEN old ELSE new :
           inv' = [inv EXCEPT ![i] = [Unsent EXCEPT !.hh = h, !.to = req[s].other]]
      /\ h \in live
      /\ Done(s) /\ UNCHANGED <<registered, live, used, member, code, admitted>>

\* RevokeInvitation, of an accepted one too.
RevokeInvitation(s, i) ==
  /\ AsOwner(s)
  /\ inv[i].hh = req[s].hh /\ ~ inv[i].revoked
  /\ inv' = [inv EXCEPT ![i].revoked = TRUE]
  /\ Done(s) /\ UNCHANGED <<registered, live, used, member, code, admitted>>

\* GenerateCode (issue or rotate) and RevokeCode.
SetCode(s, active) ==
  /\ AsOwner(s)
  /\ active => req[s].hh \in live
  /\ code' = [code EXCEPT ![req[s].hh] = active]
  /\ Done(s) /\ UNCHANGED <<registered, live, used, member, inv, admitted>>

\* Time: a day, and seven, after an invitation was sent.
Age(i) ==
  /\ inv[i].hh # NoHousehold /\ inv[i].age # "expired"
  /\ inv' = [inv EXCEPT ![i].age = IF @ = "today" THEN "valid" ELSE "expired"]
  /\ UNCHANGED <<registered, live, used, member, code, req, admitted>>

HouseholdNext ==
  \/ \E u \in User : Register(u)
  \/ \E i \in Invitation : Age(i)
  \/ \E s \in Session :
       \/ \E u \in User : AuthRequired(s, u) \/ RemoveMember(s, u) \/ CheckInvite(s, u)
       \/ \E i \in Invitation : LoadInvitation(s, i) \/ RevokeInvitation(s, i)
       \/ \E h \in Household : FindByCode(s, h)
       \/ \E active \in BOOLEAN : SetCode(s, active)
       \/ JoinHousehold(s) \/ CheckLeave(s) \/ LeaveHousehold(s)
       \/ ReadMembers(s) \/ Sweep(s) \/ Invite(s) \/ Ends(s)

HouseholdSpec == HouseholdInit /\ [][HouseholdNext]_householdVars

-----------------------------------------------------------------------------
(* Properties.                                                             *)

Membership == [hh : Household \cup {NoHousehold}, role : {"owner", "member", "none"}]

InvitationRow ==
  [hh : Household \cup {NoHousehold}, to : User \cup {NoUser},
   age : {"today", "valid", "expired"}, accepted : BOOLEAN, revoked : BOOLEAN]

Request ==
  [phase : {"free", "authed", "join", "leave", "dissolve", "invite"},
   user : User \cup {NoUser}, hh : Household \cup {NoHousehold},
   role : {"owner", "member", "none"}, inv : Invitation \cup {NoInvitation},
   other : User \cup {NoUser}, list : SUBSET User]

\* Types; memberships, invitations and codes are of households that exist
\* (the foreign keys), and an id is generated once.
HouseholdTypeOK ==
  /\ registered \subseteq User
  /\ live \subseteq used /\ used \subseteq Household
  /\ member \in [User -> Membership]
  /\ \A u \in User :
       member[u] = Homeless \/ /\ u \in registered
                               /\ member[u].hh \in live
                               /\ member[u].role \in {"owner", "member"}
  /\ inv \in [Invitation -> InvitationRow]
  /\ \A i \in Invitation : inv[i].hh \in live \cup {NoHousehold}
  /\ code \in [Household -> BOOLEAN]
  /\ \A h \in Household : code[h] => h \in live
  /\ req \in [Session -> Request]
  /\ admitted \in [Invitation -> Nat]

\* A household never has two owners, however users move in and out of it.
OneOwner ==
  \A u, v \in User :
    /\ member[u].role = "owner" /\ member[v].role = "owner"
    /\ member[u].hh = member[v].hh
    => u = v

\* An accept token is single-use: however many requests have loaded it, and
\* although its user may leave and accept again, it lets one join in.
AdmitsOnce == \A i \in Invitation : admitted[i] <= 1

\* An invitation lets nobody in once its revocation is committed, not even a
\* request that loaded it before.
RevokedStaysOut ==
  [][\A i \in Invitation : inv[i].revoked => admitted'[i] = admitted[i]]_householdVars

\* Accepting or presenting the code of one's own household changes nothing:
\* no owner becomes a member of the household it owns.
OwnerNotDemoted ==
  [][\A u \in User :
       member[u].role = "owner" /\ member'[u].hh = member[u].hh
         => member'[u].role = "owner"]_householdVars

\* Whoever leaves, is removed, joins or is dissolved has a household at once.
\* Only a dissolution can leave a user without one, and only a user who
\* joined the household after its members had been listed.
RehomedAtOnce ==
  [][\A u \in User :
       member[u] # Homeless /\ member'[u] = Homeless =>
         \E s \in Session : /\ Is(s, "dissolve") /\ req[s].hh = member[u].hh
                            /\ u \notin req[s].list]_householdVars

-----------------------------------------------------------------------------
(* What the documents say and the code does not do.                        *)

\* "A user without a membership is a violated data invariant" (AuthRequired).
EveryoneHasHousehold == \A u \in registered : member[u] # Homeless

\* "The owner SHALL NOT be able to leave a household that still has other
\* members" (openspec household): an owner goes alone, or the household goes
\* too.
OwnerNeverAbandons ==
  [][\A u \in User :
       /\ member[u].role = "owner" /\ member'[u] # member[u]
       /\ member[u].hh \in live'
       => MembersOf(member[u].hh) = {u}]_householdVars
=============================================================================
