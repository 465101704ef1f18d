--------------------------- MODULE ClubMembership ---------------------------
(***************************************************************************)
(* The roster of one book club and the ownership of the club:              *)
(* services/club.py over the club_memberships and clubs collections.       *)
(*                                                                         *)
(* Every HTTP request is a small program whose database calls are separate *)
(* steps: it loads the club document (a snapshot it keeps using), reads    *)
(* one or two membership rows, decides, and only then writes.  Requests    *)
(* run concurrently, in one event loop or in several processes, so any     *)
(* other step may fall between two steps of a request.  A Mongo            *)
(* transaction (@transactional) is one step: the writers it competes with  *)
(* touch the same documents, and a write conflict retries or aborts it.    *)
(*                                                                         *)
(* Clubs do not share rows, so one club is modelled.  Names, slugs,        *)
(* languages and e-mails are left out: no guard of this component reads    *)
(* them.                                                                   *)
(***************************************************************************)
EXTENDS Integers

CONSTANTS
    Users,          \* user ids
    Reqs,           \* request slots: how many requests may be in flight
    Operations,     \* the operations clients call, a subset of AllOperations
    ReclaimWindow,  \* club_ownership_reclaim_window_hours, in clock ticks
    Cooldown,       \* club_ownership_transfer_cooldown_days, in clock ticks
    MaxTime,        \* bound on the clock
    NULL            \* None

VARIABLES
    club,     \* the club document
    status,   \* status[u]: the status of u's membership row, "NONE" if no row
    now,      \* the clock
    req       \* req[r]: the request being served in slot r, NULL if none

vars == <<club, status, now, req>>

MemberRole == {"OWNER", "ADMIN", "MEMBER"}
MembershipStatus == MemberRole \cup {"PENDING", "BANNED"}
JoinPolicy == {"PUBLIC", "RESTRICTED"}
Phase == {"absent", "live", "dissolved"}

Rank == [OWNER |-> 0, ADMIN |-> 1, MEMBER |-> 2]
Outranks(actor, target) == Rank[actor] < Rank[target]

Clubs == [phase : Phase, policy : JoinPolicy,
          transferredAt : Nat \cup {NULL}, protectedId : Users \cup {NULL}]

NoClub(phase) == [phase |-> phase, policy |-> "PUBLIC",
                  transferredAt |-> NULL, protectedId |-> NULL]

TargetedOps == {"approve", "reject", "remove", "transfer"}
OwnOps == {"leave", "dissolve", "reclaim", "admit", "admitDirect"}
AllOperations == TargetedOps \cup OwnOps \cup {"changeRole", "settings"}

Calls ==
    [op : TargetedOps, caller : Users, target : Users, arg : {NULL}]
        \cup [op : OwnOps, caller : Users, target : {NULL}, arg : {NULL}]
        \cup [op : {"changeRole"}, caller : Users, target : Users, arg : MemberRole]
        \cup [op : {"settings"}, caller : Users, target : {NULL}, arg : JoinPolicy]

(* A request: its call, the next database call it will make, the club      *)
(* document it loaded, what its role or owner query returned, and the      *)
(* clock value it captured.                                                *)
Requests ==
    [call : Calls,
     pc : {"resolve", "caller", "target", "write", "insert", "pending"},
     club : Clubs, seen : MemberRole \cup Users \cup {NULL}, at : Nat]

ASSUME WindowAssumption ==
    /\ ReclaimWindow \in Nat /\ Cooldown \in Nat /\ MaxTime \in Nat
    /\ ReclaimWindow =< Cooldown

ASSUME NullAssumption == NULL \notin Users \cup Nat \cup MemberRole \cup JoinPolicy

ASSUME OperationsAssumption == Operations \subseteq AllOperations

TypeOK ==
    /\ club \in Clubs
    /\ status \in [Users -> MembershipStatus \cup {"NONE"}]
    /\ now \in Nat
    /\ req \in [Reqs -> Requests \cup {NULL}]
-----------------------------------------------------------------------------
(* find_member_role: the role, or NULL unless the row is active.           *)
Role(u) == IF status[u] \in MemberRole THEN status[u] ELSE NULL

(* The protection window of a former owner, as judged from club document c *)
(* when the clock shows t.                                                 *)
InCooldown(c, t) == c.transferredAt # NULL /\ t - c.transferredAt < Cooldown

(* Mutant: the protection ends with the reclaim window.                    *)
ProtectedForReclaim(c, u, t) ==
    u = c.protectedId /\ c.transferredAt # NULL /\ t - c.transferredAt < ReclaimWindow

Protected(c, u, t) == u = c.protectedId /\ InCooldown(c, t)

At(r, ops, pc) == req[r] # NULL /\ req[r].call.op \in ops /\ req[r].pc = pc

(* The request q with its next database call, what it read and its clock.  *)
Resume(q, pc, seen, at) == [call |-> q.call, pc |-> pc, club |-> q.club, seen |-> seen, at |-> at]
GoTo(q, pc) == Resume(q, pc, q.seen, q.at)

(* The request's program order: go on to the next database call, or answer *)
(* the client, which frees the slot.                                       *)
Continue(r, q) == req' = [req EXCEPT ![r] = q] /\ UNCHANGED <<club, status, now>>
Answer(r) == req' = [req EXCEPT ![r] = NULL] /\ UNCHANGED now
Refuse(r) == Answer(r) /\ UNCHANGED <<club, status>>
ContinueIf(ok, r, q) == \/ ok /\ Continue(r, q)
                        \/ ~ok /\ Refuse(r)
SetStatus(r, u, s) == Answer(r) /\ status' = [status EXCEPT ![u] = s] /\ UNCHANGED club

(* upsert_member: an update, then an insert when it matched no row, which  *)
(* the unique (club, user) index rejects if a row appeared in between.     *)
UpsertMember(r, u) ==
    \/ status[u] # "NONE" /\ SetStatus(r, u, "MEMBER")
    \/ status[u] = "NONE" /\ Continue(r, GoTo(req[r], "insert"))

(* Mutant: no unique index, so the late row replaces the one it finds.     *)
InsertRowNoIndex(r, u, s) == SetStatus(r, u, s)

InsertRow(r, u, s) ==
    \/ status[u] = "NONE" /\ SetStatus(r, u, s)
    \/ status[u] # "NONE" /\ Refuse(r)
-----------------------------------------------------------------------------
CreateClub(u) ==
    /\ club.phase = "absent"
    /\ \E p \in JoinPolicy : club' = [NoClub("live") EXCEPT !.policy = p]
    /\ status' = [status EXCEPT ![u] = "OWNER"]
    /\ UNCHANGED <<now, req>>

(* A request arrives and its club document is loaded by slug or id; with   *)
(* no such club the answer is 404.                                         *)
LoadClub(r, call) ==
    /\ req[r] = NULL
    /\ call.op \in Operations
    /\ \/ /\ club.phase = "live"
          /\ Continue(r, [call |-> call,
                          pc |-> IF call.op = "transfer" THEN "resolve" ELSE "caller",
                          club |-> club, seen |-> NULL, at |-> 0])
       \/ club.phase # "live" /\ UNCHANGED vars

(* Admission, from accepting an invitation or registering with one.        *)
AdmitReadSeat(r) ==
    LET q == req[r] IN
    /\ At(r, {"admit", "admitDirect"}, "caller")
    /\ ContinueIf(Role(q.call.caller) = NULL, r,
                  GoTo(q, IF q.call.op = "admitDirect" THEN "write" ELSE "target"))

(* Mutant: a public join does not ask for a ban.                           *)
AdmitReadNoBan(r) ==
    LET q == req[r] IN
    /\ At(r, {"admit"}, "target")
    /\ Continue(r, GoTo(q, IF q.club.policy = "PUBLIC" THEN "write" ELSE "pending"))

AdmitReadBan(r) ==
    LET q == req[r] IN
    /\ At(r, {"admit"}, "target")
    /\ ContinueIf(status[q.call.caller] # "BANNED", r,
                  GoTo(q, IF q.club.policy = "PUBLIC" THEN "write" ELSE "pending"))

AdmitUpsert(r) == At(r, {"admit", "admitDirect"}, "write") /\ UpsertMember(r, req[r].call.caller)
AdmitInsert(r) == At(r, {"admit", "admitDirect"}, "insert") /\ InsertRow(r, req[r].call.caller, "MEMBER")
AdmitPending(r) == At(r, {"admit"}, "pending") /\ InsertRow(r, req[r].call.caller, "PENDING")

(* Review of a pending request.                                            *)
ReviewReadReviewer(r) ==
    LET q == req[r] IN
    /\ At(r, {"approve", "reject"}, "caller")
    /\ ContinueIf(Role(q.call.caller) \in {"OWNER", "ADMIN"}, r, GoTo(q, "target"))

ReviewReadTarget(r) ==
    LET q == req[r] IN
    /\ At(r, {"approve", "reject"}, "target")
    /\ ContinueIf(status[q.call.target] = "PENDING", r, GoTo(q, "write"))

ApproveUpsert(r) == At(r, {"approve"}, "write") /\ UpsertMember(r, req[r].call.target)
ApproveInsert(r) == At(r, {"approve"}, "insert") /\ InsertRow(r, req[r].call.target, "MEMBER")
RejectDelete(r) == At(r, {"reject"}, "write") /\ SetStatus(r, req[r].call.target, "NONE")

(* Removal: the target's row is set to BANNED, whatever it holds by then.  *)
RemoveReadRemover(r) ==
    LET q == req[r]  role == Role(q.call.caller) IN
    /\ At(r, {"remove"}, "caller")
    /\ ContinueIf(role \in {"OWNER", "ADMIN"}, r, Resume(q, "target", role, q.at))

RemoveReadTarget(r) ==
    LET q == req[r]  role == Role(q.call.target) IN
    /\ At(r, {"remove"}, "target")
    /\ ContinueIf(/\ role # NULL
                  /\ Outranks(q.seen, role)
                  /\ ~Protected(q.club, q.call.target, now),
                  r, GoTo(q, "write"))

BanMember(r) ==
    LET u == req[r].call.target IN
    /\ At(r, {"remove"}, "write")
    /\ SetStatus(r, u, IF status[u] = "NONE" THEN "NONE" ELSE "BANNED")

(* Role change between ADMIN and MEMBER.                                   *)
ChangeRoleReadCaller(r) ==
    LET q == req[r]  role == Role(q.call.caller) IN
    /\ At(r, {"changeRole"}, "caller")
    /\ ContinueIf(q.call.arg # "OWNER" /\ role # NULL, r,
                  Resume(q, "target", role, q.at))

ChangeRoleReadTarget(r) ==
    LET q == req[r]  role == Role(q.call.target) IN
    /\ At(r, {"changeRole"}, "target")
    /\ ContinueIf(/\ role \notin {NULL, "OWNER", q.call.arg}
                  /\ Outranks(q.seen, role)
                  /\ Outranks(q.seen, q.call.arg)
                  /\ ~Protected(q.club, q.call.target, now),
                  r, GoTo(q, "write"))

ChangeRoleWrite(r) ==
    LET call == req[r].call IN
    /\ At(r, {"changeRole"}, "write")
    /\ \/ status[call.target] \in {"ADMIN", "MEMBER"} /\ SetStatus(r, call.target, call.arg)
       \/ status[call.target] \notin {"ADMIN", "MEMBER"} /\ Refuse(r)

(* Mutant: leave_club only asks for a seat, so the owner may leave.        *)
LeaveReadAnyRole(r) ==
    LET q == req[r] IN
    /\ At(r, {"leave"}, "caller")
    /\ ContinueIf(Role(q.call.caller) # NULL /\ ~Protected(q.club, q.call.caller, now),
                  r, GoTo(q, "write"))

(* Voluntary departure.                                                    *)
LeaveReadRole(r) ==
    LET q == req[r] IN
    /\ At(r, {"leave"}, "caller")
    /\ ContinueIf(/\ Role(q.call.caller) \notin {NULL, "OWNER"}
                  /\ ~Protected(q.club, q.call.caller, now),
                  r, GoTo(q, "write"))

LeaveDelete(r) == At(r, {"leave"}, "write") /\ SetStatus(r, req[r].call.caller, "NONE")

(* Dissolution: the club and every membership row go in one transaction.   *)
DissolveReadRole(r) ==
    LET q == req[r] IN
    /\ At(r, {"dissolve"}, "caller")
    /\ ContinueIf(/\ Role(q.call.caller) = "OWNER"
                  /\ ~(q.club.protectedId # NULL /\ InCooldown(q.club, now)),
                  r, GoTo(q, "write"))

(* Mutant: the club document goes, the membership rows stay.               *)
DissolveKeepRows(r) ==
    At(r, {"dissolve"}, "write") /\ Answer(r) /\ club' = NoClub("dissolved") /\ UNCHANGED status

DissolveDelete(r) ==
    /\ At(r, {"dissolve"}, "write")
    /\ Answer(r)
    /\ club' = NoClub("dissolved")
    /\ status' = [u \in Users |-> "NONE"]

(* Mutant: the time of the transfer is not captured.                       *)
TransferResolveUndated(r) ==
    LET q == req[r] IN
    /\ At(r, {"transfer"}, "resolve")
    /\ ContinueIf(q.call.target # q.call.caller, r, Resume(q, "caller", q.seen, NULL))

(* Ownership transfer: the clock is read before the roles are.             *)
TransferResolve(r) ==
    LET q == req[r] IN
    /\ At(r, {"transfer"}, "resolve")
    /\ ContinueIf(q.call.target # q.call.caller, r, Resume(q, "caller", q.seen, now))

TransferReadCaller(r) ==
    LET q == req[r] IN
    /\ At(r, {"transfer"}, "caller")
    /\ ContinueIf(Role(q.call.caller) = "OWNER", r, GoTo(q, "target"))

(* Mutant: no cooldown between two transfers.                              *)
TransferReadAnyTarget(r) ==
    LET q == req[r] IN
    /\ At(r, {"transfer"}, "target")
    /\ ContinueIf(Role(q.call.target) # NULL, r, GoTo(q, "write"))

TransferReadTarget(r) ==
    LET q == req[r] IN
    /\ At(r, {"transfer"}, "target")
    /\ ContinueIf(/\ Role(q.call.target) # NULL
                  /\ q.call.target = q.club.protectedId \/ ~InCooldown(q.club, q.at),
                  r, GoTo(q, "write"))

(* Mutants: the demotion does not ask that the caller still be the owner;  *)
(* the outgoing owner is demoted to MEMBER.                                *)
TransferCommitUnchecked(r) ==
    LET q == req[r] IN
    /\ At(r, {"transfer"}, "write")
    /\ \/ /\ status[q.call.target] \in {"ADMIN", "MEMBER"}
          /\ Answer(r)
          /\ status' = [status EXCEPT ![q.call.target] = "OWNER", ![q.call.caller] = "ADMIN"]
          /\ club' = [club EXCEPT !.transferredAt = q.at, !.protectedId = q.call.caller]
       \/ status[q.call.target] \notin {"ADMIN", "MEMBER"} /\ Refuse(r)

TransferCommitToMember(r) ==
    LET q == req[r]
        ok == status[q.call.target] \in {"ADMIN", "MEMBER"} /\ status[q.call.caller] = "OWNER"
    IN
    /\ At(r, {"transfer"}, "write")
    /\ \/ /\ ok
          /\ Answer(r)
          /\ status' = [status EXCEPT ![q.call.target] = "OWNER", ![q.call.caller] = "MEMBER"]
          /\ club' = [club EXCEPT !.transferredAt = q.at, !.protectedId = q.call.caller]
       \/ ~ok /\ Refuse(r)

(* The transaction promotes the target, demotes the caller and records the *)
(* transfer on the club, or changes nothing.                               *)
TransferCommit(r) ==
    LET q == req[r]
        ok == /\ status[q.call.target] \in {"ADMIN", "MEMBER"}
              /\ status[q.call.caller] = "OWNER"
              /\ club.phase = "live"
    IN
    /\ At(r, {"transfer"}, "write")
    /\ \/ /\ ok
          /\ Answer(r)
          /\ status' = [status EXCEPT ![q.call.target] = "OWNER", ![q.call.caller] = "ADMIN"]
          /\ club' = [club EXCEPT !.transferredAt = q.at, !.protectedId = q.call.caller]
       \/ ~ok /\ Refuse(r)

(* Reclaim by the recorded former owner.                                   *)
ReclaimReadOwner(r) ==
    LET q == req[r]
        allowed == /\ q.club.protectedId = q.call.caller
                   /\ q.club.transferredAt # NULL
                   /\ now - q.club.transferredAt =< ReclaimWindow
    IN
    /\ At(r, {"reclaim"}, "caller")
    /\ \/ \E owner \in Users :
             /\ allowed
             /\ status[owner] = "OWNER"
             /\ Continue(r, Resume(q, "write", owner, q.at))
       \/ ~(allowed /\ \E owner \in Users : status[owner] = "OWNER") /\ Refuse(r)

(* Mutant: the reclaim leaves the record of the transfer on the club.      *)
ReclaimKeepRecord(r) ==
    LET q == req[r]
        ok == /\ status[q.call.caller] = "ADMIN"
              /\ status[q.seen] = "OWNER"
              /\ club.protectedId = q.call.caller
    IN
    /\ At(r, {"reclaim"}, "write")
    /\ \/ /\ ok
          /\ Answer(r)
          /\ status' = [status EXCEPT ![q.call.caller] = "OWNER", ![q.seen] = "ADMIN"]
          /\ UNCHANGED club
       \/ ~ok /\ Refuse(r)

ReclaimCommit(r) ==
    LET q == req[r]
        ok == /\ status[q.call.caller] = "ADMIN"
              /\ status[q.seen] = "OWNER"
              /\ club.phase = "live"
              /\ club.protectedId = q.call.caller
    IN
    /\ At(r, {"reclaim"}, "write")
    /\ \/ /\ ok
          /\ Answer(r)
          /\ status' = [status EXCEPT ![q.call.caller] = "OWNER", ![q.seen] = "ADMIN"]
          /\ club' = [club EXCEPT !.transferredAt = NULL, !.protectedId = NULL]
       \/ ~ok /\ Refuse(r)

(* Settings: only the join policy matters to the roster.                   *)
SettingsReadRole(r) ==
    LET q == req[r] IN
    /\ At(r, {"settings"}, "caller")
    /\ ContinueIf(Role(q.call.caller) \in {"OWNER", "ADMIN"}, r, GoTo(q, "write"))

SettingsWrite(r) ==
    /\ At(r, {"settings"}, "write")
    /\ \/ /\ club.phase = "live"
          /\ Answer(r)
          /\ club' = [club EXCEPT !.policy = req[r].call.arg]
          /\ UNCHANGED status
       \/ club.phase # "live" /\ Refuse(r)

Tick ==
    /\ now < MaxTime
    /\ now' = now + 1
    /\ UNCHANGED <<club, status, req>>
-----------------------------------------------------------------------------
Init ==
    /\ club = NoClub("absent")
    /\ status = [u \in Users |-> "NONE"]
    /\ now = 0
    /\ req = [r \in Reqs |-> NULL]

(* The steps of a request that only read, and those that write.            *)
ReadStep(r) ==
    \/ AdmitReadSeat(r) \/ AdmitReadBan(r)
    \/ ReviewReadReviewer(r) \/ ReviewReadTarget(r)
    \/ RemoveReadRemover(r) \/ RemoveReadTarget(r)
    \/ ChangeRoleReadCaller(r) \/ ChangeRoleReadTarget(r)
    \/ LeaveReadRole(r) \/ DissolveReadRole(r)
    \/ TransferResolve(r) \/ TransferReadCaller(r) \/ TransferReadTarget(r)
    \/ ReclaimReadOwner(r) \/ SettingsReadRole(r)

WriteStep(r) ==
    \/ AdmitUpsert(r) \/ AdmitInsert(r) \/ AdmitPending(r)
    \/ ApproveUpsert(r) \/ ApproveInsert(r) \/ RejectDelete(r)
    \/ BanMember(r) \/ ChangeRoleWrite(r) \/ LeaveDelete(r) \/ DissolveDelete(r)
    \/ TransferCommit(r) \/ ReclaimCommit(r) \/ SettingsWrite(r)

Next ==
    \/ \E u \in Users : CreateClub(u)
    \/ \E r \in Reqs, call \in Calls : LoadClub(r, call)
    \/ \E r \in Reqs : ReadStep(r) \/ WriteStep(r)
    \/ Tick

Spec == Init /\ [][Next]_vars
-----------------------------------------------------------------------------
(* No interleaving of any number of requests ever gives a club two owners: *)
(* transfer and reclaim swap the two roles in one transaction and every    *)
(* other write stores a role below OWNER.                                  *)
AtMostOneOwner ==
    \A u, v \in Users : status[u] = "OWNER" /\ status[v] = "OWNER" => u = v

(* The ownership record on the club document stays coherent with the       *)
(* roster whatever interleaves: the two fields are set and cleared         *)
(* together, the recorded time has passed, and the protected former owner  *)
(* is never the current owner, so transferring back to the former owner    *)
(* can never be a transfer to oneself.                                     *)
OwnershipRecord ==
    /\ club.transferredAt = NULL <=> club.protectedId = NULL
    /\ club.transferredAt # NULL => club.transferredAt =< now
    /\ club.protectedId # NULL => status[club.protectedId] # "OWNER"

(* A user becomes owner only by creating the club or in an atomic swap     *)
(* with the outgoing owner, who becomes ADMIN; the swap leaves the         *)
(* outgoing owner protected, or is the protected former owner's reclaim,   *)
(* which clears the record.                                                *)
OwnershipStep ==
    \A u \in Users : status[u] # "OWNER" /\ status'[u] = "OWNER" =>
        \/ club.phase = "absent"
        \/ \E w \in Users \ {u} :
              /\ status[w] = "OWNER" /\ status'[w] = "ADMIN"
              /\ \/ club'.protectedId = w
                 \/ club.protectedId = u /\ club'.protectedId = NULL
OwnershipMoves == [][OwnershipStep]_vars

(* With requests served one at a time, a live club has exactly one owner.  *)
OneOwner ==
    club.phase = "live" => AtMostOneOwner /\ \E u \in Users : status[u] = "OWNER"

(* While a former owner's protection lasts, the former owner keeps an      *)
(* ADMIN seat or becomes owner again, and the club is not dissolved:       *)
(* remove_member, change_member_role, leave_club and dissolve_club.        *)
ProtectionHonoured ==
    [][club.protectedId # NULL /\ InCooldown(club, now) =>
        /\ status'[club.protectedId] \in {"OWNER", "ADMIN"}
        /\ club'.phase = "live"]_vars

(* A banned user gets a seat again only by accepting a direct invitation:  *)
(* neither a public join nor an approval lifts a ban.                      *)
BanHonoured ==
    [][\A u \in Users : status[u] = "BANNED" /\ status'[u] # "BANNED" =>
        \/ club'.phase = "dissolved"
        \/ \E r \in Reqs : At(r, {"admitDirect"}, "write") /\ req[r].call.caller = u]_vars

(* A stale admission never overwrites a row: a user with a seat or a ban   *)
(* does not become PENDING, whatever approvals, removals and settings      *)
(* changes overtook the request (the unique index of club_memberships).    *)
PendingOnlyFromNoRow ==
    [][\A u \in Users : status'[u] = "PENDING" => status[u] \in {"NONE", "PENDING"}]_vars

(* A club that was dissolved has no owner, so none of its rows left by     *)
(* overtaken admissions can administer it: delete_with_memberships.        *)
OwnerOnlyWhileLive ==
    \A u \in Users : status[u] = "OWNER" => club.phase = "live"

(* The owner's row never disappears while the club exists: leave_club      *)
(* answers that the OWNER cannot leave directly.                           *)
OwnerNeverLeaves ==
    [][\A u \in Users : status[u] = "OWNER" /\ status'[u] = "NONE" =>
        club'.phase = "dissolved"]_vars

(* Served one at a time, the requests implement the abstract ownership of  *)
(* ClubOwnership: one owner throughout, atomic hand-overs, cooldown and    *)
(* former-owner protection.                                                *)
OwnerOf == IF \E u \in Users : status[u] = "OWNER"
           THEN CHOOSE u \in Users : status[u] = "OWNER" ELSE NULL

Ownership == INSTANCE ClubOwnership WITH
    phase <- club.phase, owner <- OwnerOf, former <- club.protectedId,
    since <- club.transferredAt, clock <- now

ImplementsOwnership == Ownership!Spec
=============================================================================
