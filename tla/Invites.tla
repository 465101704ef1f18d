------------------------------ MODULE Invites ------------------------------
(***************************************************************************)
(* Invitations to one club: services/invite.py over the collection         *)
(* "invites" (models/invite.py, repositories/beanie/invite.py), the use    *)
(* cases that issue and accept them, and the admission they lead to.       *)
(*                                                                         *)
(* A request makes its database calls one by one, interleaved with those   *)
(* of the others.  A user is known by the id and by the e-mail address,    *)
(* which are in bijection here; the roster changes made by the rest of the *)
(* club's operations (module ClubMembership) are the environment's.        *)
(***************************************************************************)
EXTENDS Naturals, FiniteSets

CONSTANTS
    Users,    \* people, with or without an account
    Ids,      \* the ids of invitation documents: bounds those ever issued
    Reqs,     \* request slots
    MaxUses,  \* bounds the acceptances of one invitation
    Workloads, \* sets of operations: the clients of a behaviour use one of them
    NULL,     \* None
    Gone      \* stands for a document the TTL index has removed

VARIABLES
    club,     \* [phase, policy] of the club
    seat,     \* seat[u]: the role or status of u's membership, "NONE" if no row
    accounts, \* the people with an account
    invites,  \* invites[i]: the document, NULL before it is issued, Gone after
    req,      \* req[r]: the request served in slot r, NULL if none
    through,  \* history: through[i]: whom i seated, or put on the waiting list
    grants,   \* history: how often it did
    workload, \* the operations of this behaviour
    serial    \* history: no request has written after another one wrote during its life

vars == <<club, seat, accounts, invites, req, through, grants, workload, serial>>
histories == <<through, grants>>
data == <<club, seat, accounts, invites, through, grants, workload, serial>>

InviteType == {"PUBLIC", "DIRECT"}
Staff == {"OWNER", "ADMIN"}
Members == Staff \cup {"MEMBER"}
Seats == Members \cup {"PENDING", "BANNED", "NONE"}

(* InviteModel; target: nobody, an address, or a user id.  Only DIRECT     *)
(* ones expire, and are removed some time later by the TTL index.          *)
Targets == [kind : {"email", "user"}, who : Users] \cup {NULL}
Documents == [type : InviteType, target : Targets, uses : Nat,
              active : BOOLEAN, lapsed : BOOLEAN]

Issued == {i \in Ids : invites[i] \notin {NULL, Gone}}
Unissued == {i \in Ids : invites[i] = NULL}
Working(i) == i \in Issued /\ invites[i].active /\ ~invites[i].lapsed

(* What clients ask for.                                                   *)
IssueCalls == [op : {"rotate"}, user : Users, target : {NULL}]
                \cup [op : {"external"}, user : Users, target : [kind : {"email"}, who : Users]]
                \cup [op : {"internal"}, user : Users, target : [kind : {"user"}, who : Users]]
UseCalls == [op : {"accept", "register"}, user : Users, invite : Ids]
Calls == IssueCalls \cup UseCalls \cup [op : {"createClub"}, user : Users, target : {NULL}]

(* direct and policy: what the request read; late: the invitation was of   *)
(* no use any more when the request arrived.                               *)
Requests ==
    [call : Calls,
     pc : {"role", "registered", "deactivate", "insert", "found", "validate", "name", "save",
           "club", "seat", "upsert", "ban", "pending", "usage", "count", "burn"},
     direct : BOOLEAN, policy : {"PUBLIC", "RESTRICTED", NULL},
     late : BOOLEAN, raced : BOOLEAN]

ASSUME InvitesAssumption ==
    /\ MaxUses \in Nat /\ IsFiniteSet(Reqs)
    /\ NULL \notin Documents \cup Requests /\ Gone \notin Documents \cup {NULL}

TypeOK ==
    /\ club \in [phase : {"absent", "live", "dissolved"}, policy : {"PUBLIC", "RESTRICTED"}]
    /\ seat \in [Users -> Seats]
    /\ accounts \subseteq Users
    /\ invites \in [Ids -> Documents \cup {NULL, Gone}]
    /\ req \in [Reqs -> Requests \cup {NULL}]
    /\ through \in [Ids -> SUBSET Users] /\ grants \in [Ids -> Nat]
    /\ workload \in Workloads
    /\ serial \in BOOLEAN
-----------------------------------------------------------------------------
At(r, pc) == req[r] # NULL /\ req[r].pc = pc
Op(r) == req[r].call.op
Caller(r) == req[r].call.user
Invite(r) == req[r].call.invite

(* Request r goes on with step pc, or answers its client: a read.          *)
Continue(r, q) == req' = [req EXCEPT ![r] = q] /\ UNCHANGED data
GoTo(r, pc) == Continue(r, [req[r] EXCEPT !.pc = pc])
Answer(r) == Continue(r, NULL)
GoToIf(ok, r, pc) == \/ ok /\ GoTo(r, pc)
                     \/ ~ok /\ Answer(r)

(* The same after a write, which overtakes the other requests.             *)
Wrote(r, q) ==
    /\ serial' = (serial /\ ~req[r].raced)
    /\ UNCHANGED workload
    /\ req' = [s \in Reqs |-> CASE s = r -> q
                                [] s # r /\ req[s] = NULL -> NULL
                                [] OTHER -> [req[s] EXCEPT !.raced = TRUE]]
WroteInvites(r, q) == Wrote(r, q) /\ UNCHANGED <<club, seat, accounts, histories>>
Then(r, pc) == [req[r] EXCEPT !.pc = pc]
-----------------------------------------------------------------------------
(* An endpoint is called.  Accepting takes an account, registering makes   *)
(* one.  Bounds: one club, an id left for every request that issues, and   *)
(* at most MaxUses acceptances of an invitation.                           *)
Arrive(r, call) ==
    /\ req[r] = NULL
    /\ call.op \in workload
    /\ call.op = "createClub" =>
          /\ club.phase = "absent" /\ call.user \in accounts
          /\ \A s \in Reqs : req[s] # NULL => Op(s) # "createClub"
    /\ call.op \in {"rotate", "external", "internal"} =>
          club.phase = "live" /\ call.user \in accounts
    /\ call.op = "accept" => call.user \in accounts
    /\ call.op \in {"accept", "register"} =>
          /\ invites[call.invite] # NULL
          /\ grants[call.invite] + Cardinality({s \in Reqs : req[s] # NULL /\
                 Op(s) \in {"accept", "register"} /\ Invite(s) = call.invite}) < MaxUses
    /\ call.op \notin {"accept", "register"} =>
          Cardinality(Unissued) > Cardinality({s \in Reqs : req[s] # NULL /\
                 Op(s) \notin {"accept", "register"}})
    /\ Continue(r, [call |-> call,
                    pc |-> CASE call.op = "createClub" -> "found"
                             [] call.op \in {"accept", "register"} -> "validate"
                             [] OTHER -> "role",
                    direct |-> FALSE, policy |-> NULL, raced |-> FALSE,
                    late |-> call.op \in {"accept", "register"} /\ ~Working(call.invite)])

(* A call fails, or the process stops, between two steps.                  *)
Abort(r) == req[r] # NULL /\ Answer(r)

(* create_club: the club with its owner, and then its first public link.   *)
CreateClub(r) ==
    /\ At(r, "found")
    /\ club' = [club EXCEPT !.phase = "live"]
    /\ seat' = [seat EXCEPT ![Caller(r)] = "OWNER"]
    /\ Wrote(r, Then(r, "role"))
    /\ UNCHANGED <<accounts, invites, histories>>

(* __verify_privileged_role.                                               *)
VerifyPrivilegedRole(r) ==
    /\ At(r, "role")
    /\ GoToIf(seat[Caller(r)] \in Staff, r,
              IF Op(r) = "external" THEN "registered" ELSE "deactivate")

(* create_external_invite: for people without an account.                  *)
ExistsByEmail(r) ==
    At(r, "registered") /\ GoToIf(req[r].call.target.who \notin accounts, r, "deactivate")

SameTarget(doc, call) ==
    IF call.target = NULL THEN doc.type = "PUBLIC"
                          ELSE doc.type = "DIRECT" /\ doc.target = call.target

(* Mutant: issuing leaves the earlier invitations in use.                  *)
DeactivateNone(r) == At(r, "deactivate") /\ invites' = invites /\ WroteInvites(r, Then(r, "insert"))

(* deactivate_all_public_by_club_id, ..._target_email, ..._target_user_id. *)
DeactivateAll(r) ==
    /\ At(r, "deactivate")
    /\ invites' = [i \in Ids |->
          IF i \in Issued /\ SameTarget(invites[i], req[r].call)
          THEN [invites[i] EXCEPT !.active = FALSE] ELSE invites[i]]
    /\ WroteInvites(r, Then(r, "insert"))

InsertInvite(r) ==
    /\ At(r, "insert")
    /\ \E i \in Unissued : invites' = [invites EXCEPT ![i] =
          [type |-> IF req[r].call.target = NULL THEN "PUBLIC" ELSE "DIRECT",
           target |-> req[r].call.target, uses |-> 0, active |-> TRUE, lapsed |-> FALSE]]
    /\ WroteInvites(r, NULL)
-----------------------------------------------------------------------------
(* __assert_direct_identity_matches: the address, or the id, which a       *)
(* registration does not have yet.                                         *)
Identities(call) == [kind : IF call.op = "accept" THEN {"email", "user"} ELSE {"email"},
                     who : {call.user}]

(* Mutant: an invitation to an address is good for any account.            *)
IdentityMatchesAnyAddress(doc, call) ==
    doc.type = "DIRECT" => doc.target \in Identities(call) \cup [kind : {"email"}, who : Users]

IdentityMatches(doc, call) == doc.type = "DIRECT" => doc.target \in Identities(call)

(* Mutant: the deactivated flag is not asked for.                          *)
ValidateInactive(r) ==
    LET i == Invite(r) IN
    /\ At(r, "validate")
    /\ \/ /\ i \in Issued /\ ~invites[i].lapsed /\ IdentityMatches(invites[i], req[r].call)
          /\ Continue(r, [Then(r, "name") EXCEPT !.direct = invites[i].type = "DIRECT"])
       \/ ~(i \in Issued /\ ~invites[i].lapsed /\ IdentityMatches(invites[i], req[r].call)) /\ Answer(r)

(* validate_incoming_invite: the invitation, then the club's name.         *)
ValidateInvite(r) ==
    LET i == Invite(r)  ok == Working(i) /\ IdentityMatches(invites[i], req[r].call) IN
    /\ At(r, "validate")
    /\ \/ ok /\ Continue(r, [Then(r, "name") EXCEPT !.direct = invites[i].type = "DIRECT"])
       \/ ~ok /\ Answer(r)

FindClubName(r) ==
    At(r, "name") /\ GoToIf(club.phase = "live", r, IF Op(r) = "register" THEN "save" ELSE "club")

(* register_user: the account is there whatever becomes of the admission.  *)
SaveAccount(r) ==
    /\ At(r, "save")
    /\ \/ /\ Caller(r) \notin accounts
          /\ accounts' = accounts \cup {Caller(r)}
          /\ Wrote(r, Then(r, "club"))
          /\ UNCHANGED <<club, seat, invites, histories>>
       \/ Caller(r) \in accounts /\ Answer(r)

(* admit_user.                                                             *)
FindClub(r) ==
    /\ At(r, "club")
    /\ \/ /\ club.phase = "live"
          /\ Continue(r, [Then(r, "seat") EXCEPT !.policy = IF req[r].direct THEN NULL ELSE club.policy])
       \/ club.phase # "live" /\ Answer(r)

(* Mutant: an acceptance by somebody seated already counts as a use.       *)
ExistsMemberCounted(r) ==
    /\ At(r, "seat")
    /\ \/ seat[Caller(r)] \in Members /\ GoTo(r, "usage")
       \/ seat[Caller(r)] \notin Members /\ GoTo(r, IF req[r].direct THEN "upsert" ELSE "ban")

(* ALREADY_MEMBER is answered without counting a use.                      *)
ExistsMember(r) ==
    /\ At(r, "seat")
    /\ GoToIf(seat[Caller(r)] \notin Members, r, IF req[r].direct THEN "upsert" ELSE "ban")

ExistsBanned(r) ==
    /\ At(r, "ban")
    /\ GoToIf(seat[Caller(r)] # "BANNED", r,
              IF req[r].policy = "PUBLIC" THEN "upsert" ELSE "pending")

Grants(r, s) ==
    LET u == Caller(r)  i == Invite(r) IN
    /\ seat' = [seat EXCEPT ![u] = s]
    /\ through' = [through EXCEPT ![i] = @ \cup {u}]
    /\ grants' = [grants EXCEPT ![i] = @ + 1]
    /\ Wrote(r, [Then(r, "usage") EXCEPT !.policy = NULL])
    /\ UNCHANGED <<club, accounts, invites>>

(* upsert_member: its two calls and the unique index between them are in   *)
(* ClubMembership; the row ends up a MEMBER's whatever it was.             *)
UpsertMember(r) == At(r, "upsert") /\ Grants(r, "MEMBER")

(* create_pending_request inserts, which the unique index refuses to a     *)
(* user who has a row.                                                     *)
CreatePendingRequest(r) ==
    /\ At(r, "pending")
    /\ \/ seat[Caller(r)] = "NONE" /\ Grants(r, "PENDING")
       \/ seat[Caller(r)] # "NONE" /\ Answer(r)

(* register_invite_usage: it looks again, counts, and burns a DIRECT one.  *)
FindUsed(r) == At(r, "usage") /\ GoToIf(Invite(r) \in Issued, r, "count")

IncrementUses(r) ==
    /\ At(r, "count")
    /\ invites' = [invites EXCEPT ![Invite(r)] =
          IF Invite(r) \in Issued THEN [invites[Invite(r)] EXCEPT !.uses = @ + 1] ELSE @]
    /\ WroteInvites(r, IF req[r].direct THEN Then(r, "burn") ELSE NULL)

DeactivateUsed(r) ==
    /\ At(r, "burn")
    /\ invites' = [invites EXCEPT ![Invite(r)] =
          IF Invite(r) \in Issued THEN [@ EXCEPT !.active = FALSE] ELSE @]
    /\ WroteInvites(r, NULL)
-----------------------------------------------------------------------------
(* The environment: a week passes, the TTL index removes, and the club's   *)
(* other operations seat, ban and remove members and dissolve the club,    *)
(* whose invitations stay.                                                 *)
Lapse(i) ==
    /\ i \in Issued /\ invites[i].type = "DIRECT" /\ ~invites[i].lapsed
    /\ invites' = [invites EXCEPT ![i].lapsed = TRUE]
    /\ UNCHANGED <<club, seat, accounts, req, histories, workload, serial>>

Expire(i) ==
    /\ i \in Issued /\ invites[i].lapsed
    /\ invites' = [invites EXCEPT ![i] = Gone]
    /\ UNCHANGED <<club, seat, accounts, req, histories, workload, serial>>

Moderate(u, s) ==
    /\ club.phase = "live" /\ seat[u] \notin {"OWNER", "NONE"} /\ s \notin {"OWNER", "PENDING"}
    /\ seat' = [seat EXCEPT ![u] = s]
    /\ UNCHANGED <<club, accounts, invites, req, histories, workload, serial>>

Dissolve ==
    /\ club.phase = "live"
    /\ club' = [club EXCEPT !.phase = "dissolved"]
    /\ seat' = [u \in Users |-> "NONE"]
    /\ UNCHANGED <<accounts, invites, req, histories, workload, serial>>
-----------------------------------------------------------------------------
(* Before the club is created, or with the club just created.              *)
Init ==
    /\ workload \in Workloads
    /\ \E u \in Users, p \in {"PUBLIC", "RESTRICTED"} :
          LET new == "createClub" \in workload IN
          /\ accounts = {u}
          /\ club = [phase |-> IF new THEN "absent" ELSE "live", policy |-> p]
          /\ seat = [v \in Users |-> IF v = u /\ ~new THEN "OWNER" ELSE "NONE"]
    /\ invites = [i \in Ids |-> NULL]
    /\ req = [r \in Reqs |-> NULL]
    /\ through = [i \in Ids |-> {}] /\ grants = [i \in Ids |-> 0]
    /\ serial = TRUE

Step(r) ==
    \/ CreateClub(r) \/ VerifyPrivilegedRole(r) \/ ExistsByEmail(r)
    \/ DeactivateAll(r) \/ InsertInvite(r)
    \/ ValidateInvite(r) \/ FindClubName(r) \/ SaveAccount(r)
    \/ FindClub(r) \/ ExistsMember(r) \/ ExistsBanned(r)
    \/ UpsertMember(r) \/ CreatePendingRequest(r)
    \/ FindUsed(r) \/ IncrementUses(r) \/ DeactivateUsed(r)

Next ==
    \/ \E r \in Reqs, call \in Calls : Arrive(r, call)
    \/ \E r \in Reqs : Step(r) \/ Abort(r)
    \/ \E i \in Ids : Lapse(i) \/ Expire(i)
    \/ \E u \in Users, s \in Seats : Moderate(u, s)
    \/ Dissolve

Spec == Init /\ [][Next]_vars
-----------------------------------------------------------------------------
(* A direct invitation seats nobody but the person it was issued to,       *)
(* whatever registrations and acceptances race: "This invite belongs to    *)
(* another user."                                                          *)
ForItsTarget ==
    \A i \in Issued : invites[i].type = "DIRECT" => through[i] \subseteq {invites[i].target.who}

(* A link that was rotated, burnt or has expired before a request arrived  *)
(* admits nobody, and no race brings it back.                              *)
DeadLinksStayDead ==
    [][/\ \A i \in Issued : ~invites[i].active /\ invites'[i] # Gone => ~invites'[i].active
       /\ \A r \in Reqs : req[r] # NULL /\ req[r].late => ~(seat'[Caller(r)] # seat[Caller(r)] /\
                                (At(r, "upsert") \/ At(r, "pending")) /\ req'[r] # req[r])]_vars

(* Every use counted, or about to be, is a seat or a place on the waiting  *)
(* list that the invitation gave, and none is counted twice, whatever      *)
(* acceptances race: register_invite_usage counts only what admit_user did.*)
Counting(i) == {r \in Reqs : (At(r, "usage") \/ At(r, "count")) /\ Invite(r) = i}
UsesBacked == \A i \in Issued : invites[i].uses + Cardinality(Counting(i)) <= grants[i]

(* Requests that do not overtake one another leave one public link, and    *)
(* one direct invitation to each target: a rotated link stops working.     *)
OneWorkingLink ==
    serial => \A i, j \in Issued :
        invites[i].active /\ invites[j].active /\ invites[i].target = invites[j].target => i = j
=============================================================================
