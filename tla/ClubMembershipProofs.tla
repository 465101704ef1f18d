------------------------ MODULE ClubMembershipProofs ------------------------
(***************************************************************************)
(* Proofs about ClubMembership, for any set of users, any number of        *)
(* requests in flight and any windows.                                     *)
(***************************************************************************)
EXTENDS ClubMembership, TLAPS

(* What a request that is under way carries.  The clock value it captured  *)
(* has passed, a role change that passed its first check does not assign   *)
(* OWNER, and a reclaim about to commit holds the id of a user.            *)
RequestFacts ==
    \A r \in Reqs : req[r] # NULL =>
        /\ req[r].at =< now
        /\ req[r].call.op = "changeRole" /\ req[r].pc # "caller" => req[r].call.arg # "OWNER"
        /\ req[r].call.op = "reclaim" /\ req[r].pc # "caller" => req[r].seen \in Users

(* The inductive invariant.  AtMostOneOwner alone is not inductive: the    *)
(* creation step needs OwnerOnlyWhileLive, and the commits need what       *)
(* RequestFacts says of the values they write.                             *)
IInv == /\ TypeOK
        /\ RequestFacts
        /\ OwnerOnlyWhileLive
        /\ AtMostOneOwner
        /\ OwnershipRecord

(* Calls carry user ids, and a role or policy where one is expected.       *)
LEMMA CallType ==
    ASSUME NEW c \in Calls
    PROVE  /\ c.op \in AllOperations
           /\ c.caller \in Users
           /\ c.target \in Users \cup {NULL}
           /\ c.op \in TargetedOps \cup {"changeRole"} => c.target \in Users
           /\ c.op = "changeRole" => c.arg \in MemberRole
           /\ c.op = "settings" => c.arg \in JoinPolicy
BY DEF Calls, AllOperations, TargetedOps, OwnOps

(* The fields of a request.                                                *)
LEMMA RequestType ==
    ASSUME NEW q \in Requests
    PROVE  /\ q.call \in Calls /\ q.club \in Clubs /\ q.at \in Nat
           /\ q.seen \in MemberRole \cup Users \cup {NULL}
BY DEF Requests

(* A well-formed successor request, as RequestFacts demands of it.         *)
GoodRequest(q) ==
    /\ q \in Requests
    /\ q.at =< now
    /\ q.call.op = "changeRole" /\ q.pc # "caller" => q.call.arg # "OWNER"
    /\ q.call.op = "reclaim" /\ q.pc # "caller" => q.seen \in Users

(* Going on to the next database call keeps the invariant.                 *)
LEMMA ContinueEffect ==
    ASSUME IInv, NEW r \in Reqs, NEW q, GoodRequest(q), Continue(r, q)
    PROVE  IInv'
<1>1. UNCHANGED <<club, status, now>> /\ req' = [req EXCEPT ![r] = q]
  BY DEF Continue
<1>2. TypeOK'
  BY <1>1 DEF IInv, TypeOK, GoodRequest
<1>3. RequestFacts'
  BY <1>1 DEF IInv, TypeOK, RequestFacts, GoodRequest
<1> QED
  BY <1>1, <1>2, <1>3 DEF IInv, OwnerOnlyWhileLive, AtMostOneOwner, OwnershipRecord

(* So does answering without a write.                                      *)
LEMMA RefuseEffect ==
    ASSUME IInv, NEW r \in Reqs, Refuse(r)
    PROVE  IInv'
<1>1. UNCHANGED <<club, status, now>> /\ req' = [req EXCEPT ![r] = NULL]
  BY DEF Refuse, Answer
<1>2. TypeOK' /\ RequestFacts'
  BY <1>1 DEF IInv, TypeOK, RequestFacts
<1> QED
  BY <1>1, <1>2 DEF IInv, OwnerOnlyWhileLive, AtMostOneOwner, OwnershipRecord

(* Writing a status other than OWNER into one row, then answering.         *)
LEMMA SetStatusEffect ==
    ASSUME IInv, NEW r \in Reqs, NEW u \in Users,
           NEW s \in (MembershipStatus \cup {"NONE"}) \ {"OWNER"},
           SetStatus(r, u, s)
    PROVE  IInv'
<1>1. /\ UNCHANGED <<club, now>>
      /\ status' = [status EXCEPT ![u] = s]
      /\ req' = [req EXCEPT ![r] = NULL]
  BY DEF SetStatus, Answer
<1>2. TypeOK' /\ RequestFacts'
  BY <1>1 DEF IInv, TypeOK, RequestFacts
<1>3. \A v \in Users : status'[v] = "OWNER" => status[v] = "OWNER"
  BY <1>1 DEF IInv, TypeOK
<1>4. OwnerOnlyWhileLive' /\ AtMostOneOwner'
  BY <1>1, <1>3 DEF IInv, OwnerOnlyWhileLive, AtMostOneOwner
<1>5. OwnershipRecord'
  BY <1>1, <1>3 DEF IInv, TypeOK, Clubs, OwnershipRecord
<1> QED BY <1>2, <1>4, <1>5 DEF IInv

(* Loading the club starts a well-formed request and changes nothing else. *)
LEMMA LoadEffect ==
    ASSUME IInv, NEW r \in Reqs, NEW call \in Calls, LoadClub(r, call)
    PROVE  IInv'
<1>1. CASE UNCHANGED vars
  BY <1>1 DEF IInv, vars, TypeOK, RequestFacts, OwnerOnlyWhileLive, AtMostOneOwner, OwnershipRecord
<1> DEFINE q == [call |-> call,
                 pc |-> IF call.op = "transfer" THEN "resolve" ELSE "caller",
                 club |-> club, seen |-> NULL, at |-> 0]
<1>2. CASE Continue(r, q)
  <2>1. GoodRequest(q)
    BY DEF IInv, TypeOK, Requests, GoodRequest
  <2> QED BY <1>2, <2>1, ContinueEffect
<1> QED BY <1>1, <1>2 DEF LoadClub

(* A request that only moves on, or that also records a role, stays        *)
(* well-formed.                                                            *)
LEMMA ResumeGood ==
    ASSUME IInv, NEW r \in Reqs, req[r] # NULL,
           NEW p \in {"caller", "target", "write", "insert", "pending"},
           NEW s \in MemberRole \cup Users \cup {NULL},
           NEW t \in Nat, t =< now,
           req[r].call.op = "changeRole" /\ req[r].pc = "caller" => req[r].call.arg # "OWNER",
           req[r].call.op = "reclaim" => s \in Users
    PROVE  GoodRequest(Resume(req[r], p, s, t))
<1>1. req[r] \in Requests
  BY DEF IInv, TypeOK
<1>2. Resume(req[r], p, s, t) \in Requests
  BY <1>1 DEF Resume, Requests
<1>3. req[r].call.op = "changeRole" => req[r].call.arg # "OWNER"
  BY DEF IInv, RequestFacts
<1> QED BY <1>1, <1>2, <1>3 DEF GoodRequest, Resume

(* Moving on without recording anything keeps a request well-formed.       *)
LEMMA GoToGood ==
    ASSUME IInv, NEW r \in Reqs, req[r] # NULL, req[r].call.op # "reclaim",
           NEW p \in {"caller", "target", "write", "insert", "pending"},
           req[r].call.op = "changeRole" => req[r].pc # "caller"
    PROVE  GoodRequest(GoTo(req[r], p))
<1>1. /\ req[r].at \in Nat /\ req[r].at =< now
      /\ req[r].seen \in MemberRole \cup Users \cup {NULL}
  BY RequestType DEF IInv, TypeOK, RequestFacts
<1> QED BY <1>1, ResumeGood DEF GoTo

(* A check either lets the request go on or refuses it.                    *)
LEMMA ContinueIfEffect ==
    ASSUME IInv, NEW r \in Reqs, NEW ok, NEW q, GoodRequest(q), ContinueIf(ok, r, q)
    PROVE  IInv'
BY ContinueEffect, RefuseEffect DEF ContinueIf

(* Every read step either goes on with a well-formed request or refuses.   *)
LEMMA ReadEffect ==
    ASSUME IInv, NEW r \in Reqs, ReadStep(r)
    PROVE  IInv'
<1> DEFINE q == req[r]
<1>1. CASE AdmitReadSeat(r)
  <2>1. q # NULL /\ q.call.op \in {"admit", "admitDirect"}
    BY <1>1 DEF AdmitReadSeat, At
  <2>2. GoodRequest(GoTo(q, IF q.call.op = "admitDirect" THEN "write" ELSE "target"))
    BY <2>1, GoToGood
  <2> QED BY <1>1, <2>2, ContinueIfEffect DEF AdmitReadSeat
<1>2. CASE AdmitReadBan(r)
  <2>1. q # NULL /\ q.call.op = "admit"
    BY <1>2 DEF AdmitReadBan, At
  <2>2. GoodRequest(GoTo(q, IF q.club.policy = "PUBLIC" THEN "write" ELSE "pending"))
    BY <2>1, GoToGood
  <2> QED BY <1>2, <2>2, ContinueIfEffect DEF AdmitReadBan
<1>3. CASE ReviewReadReviewer(r)
  <2>1. q # NULL /\ q.call.op \in {"approve", "reject"}
    BY <1>3 DEF ReviewReadReviewer, At
  <2>2. GoodRequest(GoTo(q, "target"))
    BY <2>1, GoToGood
  <2> QED BY <1>3, <2>2, ContinueIfEffect DEF ReviewReadReviewer
<1>4. CASE ReviewReadTarget(r)
  <2>1. q # NULL /\ q.call.op \in {"approve", "reject"}
    BY <1>4 DEF ReviewReadTarget, At
  <2>2. GoodRequest(GoTo(q, "write"))
    BY <2>1, GoToGood
  <2> QED BY <1>4, <2>2, ContinueIfEffect DEF ReviewReadTarget
<1>5. CASE RemoveReadRemover(r)
  <2> DEFINE ok == Role(q.call.caller) \in {"OWNER", "ADMIN"}
  <2>1. q # NULL /\ q.call.op = "remove" /\ q.pc = "caller"
    BY <1>5 DEF RemoveReadRemover, At
  <2>2. ContinueIf(ok, r, Resume(q, "target", Role(q.call.caller), q.at))
    BY <1>5 DEF RemoveReadRemover
  <2>3. CASE ok
    <3>1. /\ Role(q.call.caller) \in MemberRole \cup Users \cup {NULL}
          /\ q.at \in Nat /\ q.at =< now
      BY <2>1, RequestType DEF Role, IInv, TypeOK, RequestFacts
    <3>2. GoodRequest(Resume(q, "target", Role(q.call.caller), q.at))
      BY <2>1, <2>3, <3>1, ResumeGood
    <3> QED BY <2>2, <3>2, ContinueIfEffect
  <2>4. CASE ~ok
    BY <2>2, <2>4, RefuseEffect DEF ContinueIf
  <2> QED BY <2>3, <2>4
<1>6. CASE RemoveReadTarget(r)
  <2>1. q # NULL /\ q.call.op = "remove"
    BY <1>6 DEF RemoveReadTarget, At
  <2>2. GoodRequest(GoTo(q, "write"))
    BY <2>1, GoToGood
  <2> QED BY <1>6, <2>2, ContinueIfEffect DEF RemoveReadTarget
<1>7. CASE ChangeRoleReadCaller(r)
  <2> DEFINE ok == q.call.arg # "OWNER" /\ Role(q.call.caller) # NULL
  <2>1. q # NULL /\ q.call.op = "changeRole" /\ q.pc = "caller"
    BY <1>7 DEF ChangeRoleReadCaller, At
  <2>2. ContinueIf(ok, r, Resume(q, "target", Role(q.call.caller), q.at))
    BY <1>7 DEF ChangeRoleReadCaller
  <2>3. CASE ok
    <3>1. /\ Role(q.call.caller) \in MemberRole \cup Users \cup {NULL}
          /\ q.at \in Nat /\ q.at =< now
      BY <2>1, RequestType DEF Role, IInv, TypeOK, RequestFacts
    <3>2. GoodRequest(Resume(q, "target", Role(q.call.caller), q.at))
      BY <2>1, <2>3, <3>1, ResumeGood
    <3> QED BY <2>2, <3>2, ContinueIfEffect
  <2>4. CASE ~ok
    BY <2>2, <2>4, RefuseEffect DEF ContinueIf
  <2> QED BY <2>3, <2>4
<1>8. CASE ChangeRoleReadTarget(r)
  <2>1. q # NULL /\ q.call.op = "changeRole" /\ q.pc = "target"
    BY <1>8 DEF ChangeRoleReadTarget, At
  <2>2. GoodRequest(GoTo(q, "write"))
    BY <2>1, GoToGood
  <2> QED BY <1>8, <2>2, ContinueIfEffect DEF ChangeRoleReadTarget
<1>9. CASE LeaveReadRole(r)
  <2>1. q # NULL /\ q.call.op = "leave"
    BY <1>9 DEF LeaveReadRole, At
  <2>2. GoodRequest(GoTo(q, "write"))
    BY <2>1, GoToGood
  <2> QED BY <1>9, <2>2, ContinueIfEffect DEF LeaveReadRole
<1>10. CASE DissolveReadRole(r)
  <2>1. q # NULL /\ q.call.op = "dissolve"
    BY <1>10 DEF DissolveReadRole, At
  <2>2. GoodRequest(GoTo(q, "write"))
    BY <2>1, GoToGood
  <2> QED BY <1>10, <2>2, ContinueIfEffect DEF DissolveReadRole
<1>11. CASE TransferResolve(r)
  <2>1. q # NULL /\ q.call.op = "transfer"
    BY <1>11 DEF TransferResolve, At
  <2>2. q.seen \in MemberRole \cup Users \cup {NULL} /\ now \in Nat /\ now =< now
    BY <2>1, RequestType DEF IInv, TypeOK
  <2>3. GoodRequest(Resume(q, "caller", q.seen, now))
    BY <2>1, <2>2, ResumeGood
  <2> QED BY <1>11, <2>3, ContinueIfEffect DEF TransferResolve
<1>12. CASE TransferReadCaller(r)
  <2>1. q # NULL /\ q.call.op = "transfer"
    BY <1>12 DEF TransferReadCaller, At
  <2>2. GoodRequest(GoTo(q, "target"))
    BY <2>1, GoToGood
  <2> QED BY <1>12, <2>2, ContinueIfEffect DEF TransferReadCaller
<1>13. CASE TransferReadTarget(r)
  <2>1. q # NULL /\ q.call.op = "transfer"
    BY <1>13 DEF TransferReadTarget, At
  <2>2. GoodRequest(GoTo(q, "write"))
    BY <2>1, GoToGood
  <2> QED BY <1>13, <2>2, ContinueIfEffect DEF TransferReadTarget
<1>14. CASE ReclaimReadOwner(r)
  <2>1. CASE Refuse(r)
    BY <2>1, RefuseEffect
  <2>2. ASSUME NEW owner \in Users, Continue(r, Resume(q, "write", owner, q.at))
        PROVE  IInv'
    <3>1. q # NULL /\ q.call.op = "reclaim"
      BY <1>14 DEF ReclaimReadOwner, At
    <3>2. q.at \in Nat /\ q.at =< now
      BY <3>1, RequestType DEF IInv, TypeOK, RequestFacts
    <3>3. GoodRequest(Resume(q, "write", owner, q.at))
      BY <3>1, <3>2, ResumeGood
    <3> QED BY <2>2, <3>3, ContinueEffect
  <2> QED BY <1>14, <2>1, <2>2 DEF ReclaimReadOwner
<1>15. CASE SettingsReadRole(r)
  <2>1. q # NULL /\ q.call.op = "settings"
    BY <1>15 DEF SettingsReadRole, At
  <2>2. GoodRequest(GoTo(q, "write"))
    BY <2>1, GoToGood
  <2> QED BY <1>15, <2>2, ContinueIfEffect DEF SettingsReadRole
<1> QED
  BY <1>1, <1>2, <1>3, <1>4, <1>5, <1>6, <1>7, <1>8, <1>9, <1>10, <1>11, <1>12, <1>13, <1>14, <1>15
     DEF ReadStep

(* The call of a request under way is a call.                              *)
LEMMA CallOf ==
    ASSUME IInv, NEW r \in Reqs, req[r] # NULL
    PROVE  /\ req[r].call \in Calls
           /\ req[r].call.caller \in Users
           /\ req[r].call.op \in TargetedOps \cup {"changeRole"} => req[r].call.target \in Users
           /\ req[r].call.op = "changeRole" => req[r].call.arg \in MemberRole
           /\ req[r].call.op = "settings" => req[r].call.arg \in JoinPolicy
BY RequestType, CallType DEF IInv, TypeOK

(* upsert_member writes MEMBER or goes on to its insert.                   *)
LEMMA UpsertEffect ==
    ASSUME IInv, NEW r \in Reqs, req[r] # NULL, req[r].call.op \notin {"reclaim", "changeRole"},
           NEW u \in Users, UpsertMember(r, u)
    PROVE  IInv'
<1>1. GoodRequest(GoTo(req[r], "insert"))
  BY GoToGood
<1>2. "MEMBER" \in (MembershipStatus \cup {"NONE"}) \ {"OWNER"}
  BY DEF MembershipStatus, MemberRole
<1> QED BY <1>1, <1>2, ContinueEffect, SetStatusEffect DEF UpsertMember

(* An insert into a missing row, or the refusal of the unique index.       *)
LEMMA InsertEffect ==
    ASSUME IInv, NEW r \in Reqs, NEW u \in Users, NEW s \in {"MEMBER", "PENDING"},
           InsertRow(r, u, s)
    PROVE  IInv'
<1>1. s \in (MembershipStatus \cup {"NONE"}) \ {"OWNER"}
  BY DEF MembershipStatus, MemberRole
<1> QED BY <1>1, RefuseEffect, SetStatusEffect DEF InsertRow

(* The two role swaps: the winner of the swap was below OWNER and the      *)
(* loser was the owner, so the number of owners does not change.           *)
LEMMA SwapEffect ==
    ASSUME IInv, NEW r \in Reqs, NEW winner \in Users, NEW loser \in Users,
           status[winner] # "OWNER", status[loser] = "OWNER", club.phase = "live",
           Answer(r),
           status' = [status EXCEPT ![winner] = "OWNER", ![loser] = "ADMIN"],
           club' \in Clubs, club'.phase = "live",
           \/ club'.protectedId = loser /\ club'.transferredAt \in 0..now
           \/ club'.protectedId = NULL /\ club'.transferredAt = NULL
    PROVE  IInv'
<1>1. winner # loser
  OBVIOUS
<1>2. now' = now /\ req' = [req EXCEPT ![r] = NULL]
  BY DEF Answer
<1>3. \A v \in Users : status'[v] = "OWNER" <=> v = winner
  BY <1>1 DEF IInv, TypeOK, AtMostOneOwner
<1>4. TypeOK'
  BY <1>2 DEF IInv, TypeOK, MembershipStatus, MemberRole
<1>5. RequestFacts'
  BY <1>2 DEF IInv, TypeOK, RequestFacts
<1>6. OwnerOnlyWhileLive' /\ AtMostOneOwner'
  BY <1>3 DEF OwnerOnlyWhileLive, AtMostOneOwner
<1>7. OwnershipRecord'
  <2>1. loser # NULL /\ \A t \in 0..now : t # NULL /\ t =< now
    BY NullAssumption DEF IInv, TypeOK
  <2> QED BY <1>1, <1>2, <1>3, <2>1 DEF OwnershipRecord
<1> QED BY <1>4, <1>5, <1>6, <1>7 DEF IInv

(* Every write step keeps the invariant.                                   *)
LEMMA WriteEffect ==
    ASSUME IInv, NEW r \in Reqs, WriteStep(r)
    PROVE  IInv'
<1> DEFINE q == req[r]
<1>1. CASE AdmitUpsert(r) \/ AdmitInsert(r) \/ AdmitPending(r)
  <2>1. q # NULL /\ q.call.op \in {"admit", "admitDirect"} /\ q.call.caller \in Users
    BY <1>1, CallOf DEF AdmitUpsert, AdmitInsert, AdmitPending, At
  <2> QED BY <1>1, <2>1, UpsertEffect, InsertEffect DEF AdmitUpsert, AdmitInsert, AdmitPending
<1>2. CASE ApproveUpsert(r) \/ ApproveInsert(r)
  <2>1. q # NULL /\ q.call.op = "approve" /\ q.call.target \in Users
    BY <1>2, CallOf DEF ApproveUpsert, ApproveInsert, At, TargetedOps
  <2> QED BY <1>2, <2>1, UpsertEffect, InsertEffect DEF ApproveUpsert, ApproveInsert
<1>3. CASE RejectDelete(r)
  <2>1. q.call.target \in Users
    BY <1>3, CallOf DEF RejectDelete, At, TargetedOps
  <2> QED BY <1>3, <2>1, SetStatusEffect DEF RejectDelete
<1>4. CASE BanMember(r)
  <2>1. q.call.target \in Users
    BY <1>4, CallOf DEF BanMember, At, TargetedOps
  <2>2. (IF status[q.call.target] = "NONE" THEN "NONE" ELSE "BANNED")
            \in (MembershipStatus \cup {"NONE"}) \ {"OWNER"}
    BY DEF MembershipStatus, MemberRole
  <2> QED BY <1>4, <2>1, <2>2, SetStatusEffect DEF BanMember
<1>5. CASE ChangeRoleWrite(r)
  <2>1. q.call.target \in Users /\ q.call.arg \in MemberRole \ {"OWNER"}
    BY <1>5, CallOf DEF ChangeRoleWrite, At, IInv, RequestFacts
  <2>2. q.call.arg \in (MembershipStatus \cup {"NONE"}) \ {"OWNER"}
    BY <2>1 DEF MembershipStatus
  <2> QED BY <1>5, <2>1, <2>2, SetStatusEffect, RefuseEffect DEF ChangeRoleWrite
<1>6. CASE LeaveDelete(r)
  <2>1. q.call.caller \in Users
    BY <1>6, CallOf DEF LeaveDelete, At
  <2> QED BY <1>6, <2>1, SetStatusEffect DEF LeaveDelete
<1>7. CASE DissolveDelete(r)
  <2>1. /\ club' = NoClub("dissolved") /\ status' = [u \in Users |-> "NONE"]
        /\ now' = now /\ req' = [req EXCEPT ![r] = NULL]
    BY <1>7 DEF DissolveDelete, Answer
  <2>2. TypeOK'
    BY <2>1 DEF IInv, TypeOK, NoClub, Clubs, Phase, JoinPolicy
  <2>3. RequestFacts'
    BY <2>1 DEF IInv, TypeOK, RequestFacts
  <2> QED BY <2>1, <2>2, <2>3 DEF IInv, NoClub, OwnerOnlyWhileLive, AtMostOneOwner, OwnershipRecord
<1>8. CASE TransferCommit(r)
  <2>1. CASE Refuse(r)
    BY <2>1, RefuseEffect
  <2>2. CASE ~Refuse(r)
    <3>1. /\ q # NULL /\ q.call.op = "transfer"
          /\ status[q.call.target] \in {"ADMIN", "MEMBER"} /\ status[q.call.caller] = "OWNER"
          /\ club.phase = "live" /\ Answer(r)
          /\ status' = [status EXCEPT ![q.call.target] = "OWNER", ![q.call.caller] = "ADMIN"]
          /\ club' = [club EXCEPT !.transferredAt = q.at, !.protectedId = q.call.caller]
      BY <1>8, <2>2 DEF TransferCommit, At
    <3>2. q.call.target \in Users /\ q.call.caller \in Users /\ q.at \in 0..now
      BY <3>1, CallOf, RequestType DEF IInv, TypeOK, RequestFacts, TargetedOps
    <3>3. /\ club' \in Clubs /\ club'.phase = "live"
          /\ club'.protectedId = q.call.caller /\ club'.transferredAt = q.at
      <4>1. PICK t \in Nat : t = q.at
        BY <3>1, RequestType DEF IInv, TypeOK
      <4>2. PICK u \in Users : u = q.call.caller
        BY <3>2
      <4>3. club \in Clubs /\ club' = [club EXCEPT !.transferredAt = t, !.protectedId = u]
        BY <3>1, <4>1, <4>2 DEF IInv, TypeOK
      <4>4. /\ club' \in Clubs /\ club'.phase = club.phase
            /\ club'.protectedId = u /\ club'.transferredAt = t
        BY <4>3 DEF Clubs
      <4> QED BY <3>1, <4>1, <4>2, <4>4
    <3> QED BY <3>1, <3>2, <3>3, SwapEffect
  <2> QED BY <2>1, <2>2
<1>9. CASE ReclaimCommit(r)
  <2>1. CASE Refuse(r)
    BY <2>1, RefuseEffect
  <2>2. CASE ~Refuse(r)
    <3>1. /\ q # NULL /\ q.call.op = "reclaim" /\ q.pc = "write"
          /\ status[q.call.caller] = "ADMIN" /\ status[q.seen] = "OWNER"
          /\ club.phase = "live" /\ Answer(r)
          /\ status' = [status EXCEPT ![q.call.caller] = "OWNER", ![q.seen] = "ADMIN"]
          /\ club' = [club EXCEPT !.transferredAt = NULL, !.protectedId = NULL]
      BY <1>9, <2>2 DEF ReclaimCommit, At
    <3>2. q.call.caller \in Users /\ q.seen \in Users
      BY <3>1, CallOf DEF IInv, RequestFacts
    <3>3. /\ club' \in Clubs /\ club'.phase = "live"
          /\ club'.protectedId = NULL /\ club'.transferredAt = NULL
      BY <3>1 DEF IInv, TypeOK, Clubs
    <3> QED BY <3>1, <3>2, <3>3, SwapEffect
  <2> QED BY <2>1, <2>2
<1>10. CASE SettingsWrite(r)
  <2>1. CASE Refuse(r)
    BY <2>1, RefuseEffect
  <2>2. CASE ~Refuse(r)
    <3>1. /\ q # NULL /\ q.call.op = "settings" /\ club.phase = "live"
          /\ club' = [club EXCEPT !.policy = q.call.arg]
          /\ UNCHANGED <<status, now>> /\ req' = [req EXCEPT ![r] = NULL]
      BY <1>10, <2>2 DEF SettingsWrite, At, Answer
    <3>2. q.call.arg \in JoinPolicy
      BY <3>1, CallOf
    <3>3. /\ club' \in Clubs /\ club'.phase = club.phase
          /\ club'.protectedId = club.protectedId /\ club'.transferredAt = club.transferredAt
      BY <3>1, <3>2 DEF IInv, TypeOK, Clubs
    <3>4. TypeOK' /\ RequestFacts'
      BY <3>1, <3>3 DEF IInv, TypeOK, RequestFacts
    <3> QED BY <3>1, <3>3, <3>4 DEF IInv, OwnerOnlyWhileLive, AtMostOneOwner, OwnershipRecord
  <2> QED BY <2>1, <2>2
<1> QED
  BY <1>1, <1>2, <1>3, <1>4, <1>5, <1>6, <1>7, <1>8, <1>9, <1>10 DEF WriteStep

(* The creation of the club and the passing of time.                       *)
LEMMA CreateEffect ==
    ASSUME IInv, NEW u \in Users, CreateClub(u)
    PROVE  IInv'
<1>1. PICK p \in JoinPolicy : club' = [NoClub("live") EXCEPT !.policy = p]
  BY DEF CreateClub
<1>2. /\ club.phase = "absent" /\ status' = [status EXCEPT ![u] = "OWNER"]
      /\ UNCHANGED <<now, req>>
  BY DEF CreateClub
<1>3. /\ club' \in Clubs /\ club'.phase = "live"
      /\ club'.protectedId = NULL /\ club'.transferredAt = NULL
  BY <1>1 DEF NoClub, Clubs, Phase
<1>4. TypeOK' /\ RequestFacts'
  BY <1>2, <1>3 DEF IInv, TypeOK, RequestFacts, MembershipStatus, MemberRole
<1>5. \A v \in Users : status'[v] = "OWNER" => v = u
  BY <1>2 DEF IInv, TypeOK, OwnerOnlyWhileLive
<1> QED
  BY <1>3, <1>4, <1>5 DEF IInv, OwnerOnlyWhileLive, AtMostOneOwner, OwnershipRecord

(* Recorded times stay in the past when the clock advances.                *)
LEMMA TickEffect ==
    ASSUME IInv, Tick
    PROVE  IInv'
<1>1. now \in Nat /\ now' = now + 1 /\ UNCHANGED <<club, status, req>>
  BY DEF Tick, IInv, TypeOK
<1>2. TypeOK'
  BY <1>1 DEF IInv, TypeOK
<1>3. RequestFacts'
  BY <1>1, RequestType DEF IInv, TypeOK, RequestFacts
<1>4. OwnershipRecord'
  BY <1>1 DEF IInv, TypeOK, Clubs, OwnershipRecord
<1> QED BY <1>1, <1>2, <1>3, <1>4 DEF IInv, OwnerOnlyWhileLive, AtMostOneOwner

(* The invariant holds before the club exists.                             *)
LEMMA InitIInv == Init => IInv
<1> SUFFICES ASSUME Init PROVE IInv
  OBVIOUS
<1>1. TypeOK
  BY DEF Init, TypeOK, NoClub, Clubs, Phase, JoinPolicy
<1> QED
  BY <1>1 DEF Init, IInv, NoClub, RequestFacts, OwnerOnlyWhileLive, AtMostOneOwner, OwnershipRecord

(* Every step keeps the invariant.                                         *)
LEMMA NextIInv == IInv /\ [Next]_vars => IInv'
<1> SUFFICES ASSUME IInv, [Next]_vars PROVE IInv'
  OBVIOUS
<1>1. CASE UNCHANGED vars
  BY <1>1 DEF IInv, vars, TypeOK, RequestFacts, OwnerOnlyWhileLive, AtMostOneOwner, OwnershipRecord
<1> QED
  BY <1>1, CreateEffect, LoadEffect, ReadEffect, WriteEffect, TickEffect DEF Next

(* So it holds in every reachable state.                                   *)
LEMMA Invariance == Spec => []IInv
BY InitIInv, NextIInv, PTL DEF Spec

(* Every reachable state is well typed.                                    *)
THEOREM TypeCorrect == Spec => []TypeOK
<1>1. IInv => TypeOK
  BY DEF IInv
<1> QED BY <1>1, Invariance, PTL

(* However many requests interleave, a club never has two owners.          *)
THEOREM NeverTwoOwners == Spec => []AtMostOneOwner
<1>1. IInv => AtMostOneOwner
  BY DEF IInv
<1> QED BY <1>1, Invariance, PTL

(* The ownership record of the club document agrees with the roster.       *)
THEOREM RecordCoherent == Spec => []OwnershipRecord
<1>1. IInv => OwnershipRecord
  BY DEF IInv
<1> QED BY <1>1, Invariance, PTL

(* A dissolved club has no owner, whatever requests were in flight.        *)
THEOREM NoOwnerAfterDissolution == Spec => []OwnerOnlyWhileLive
<1>1. IInv => OwnerOnlyWhileLive
  BY DEF IInv
<1> QED BY <1>1, Invariance, PTL
-----------------------------------------------------------------------------
(* Read steps touch the request only.                                      *)
LEMMA ReadKeeps ==
    ASSUME NEW r \in Reqs, ReadStep(r)
    PROVE  UNCHANGED <<club, status, now>>
<1>1. ASSUME NEW ok, NEW q, ContinueIf(ok, r, q)
      PROVE  UNCHANGED <<club, status, now>>
  BY <1>1 DEF ContinueIf, Continue, Refuse, Answer
<1>2. CASE ReclaimReadOwner(r)
  BY <1>2 DEF ReclaimReadOwner, Continue, Refuse, Answer
<1> QED
  BY <1>1, <1>2 DEF ReadStep, AdmitReadSeat, AdmitReadBan, ReviewReadReviewer, ReviewReadTarget,
     RemoveReadRemover, RemoveReadTarget, ChangeRoleReadCaller, ChangeRoleReadTarget,
     LeaveReadRole, DissolveReadRole, TransferResolve, TransferReadCaller, TransferReadTarget,
     SettingsReadRole

(* A write step other than the two swaps makes nobody owner.               *)
LEMMA WriteMakesNoOwner ==
    ASSUME IInv, NEW r \in Reqs, WriteStep(r), ~TransferCommit(r), ~ReclaimCommit(r),
           NEW u \in Users, status'[u] = "OWNER"
    PROVE  status[u] = "OWNER"
<1>1. ASSUME NEW v, NEW s, s # "OWNER", SetStatus(r, v, s)
      PROVE  status[u] = "OWNER"
  BY <1>1 DEF SetStatus, IInv, TypeOK
<1>2. ASSUME UNCHANGED status
      PROVE  status[u] = "OWNER"
  BY <1>2
<1>3. ASSUME NEW v, UpsertMember(r, v)
      PROVE  status[u] = "OWNER"
  BY <1>1, <1>2, <1>3 DEF UpsertMember, Continue
<1>4. ASSUME NEW v, NEW s \in {"MEMBER", "PENDING"}, InsertRow(r, v, s)
      PROVE  status[u] = "OWNER"
  BY <1>1, <1>2, <1>4 DEF InsertRow, Refuse
<1>5. CASE AdmitUpsert(r) \/ ApproveUpsert(r)
  BY <1>3, <1>5 DEF AdmitUpsert, ApproveUpsert
<1>6. CASE AdmitInsert(r) \/ AdmitPending(r) \/ ApproveInsert(r)
  BY <1>4, <1>6 DEF AdmitInsert, AdmitPending, ApproveInsert
<1>7. CASE RejectDelete(r) \/ LeaveDelete(r)
  BY <1>1, <1>7 DEF RejectDelete, LeaveDelete
<1>8. CASE BanMember(r)
  BY <1>1, <1>8 DEF BanMember
<1>9. CASE ChangeRoleWrite(r)
  <2>1. req[r].call.arg # "OWNER"
    BY <1>9 DEF ChangeRoleWrite, At, IInv, RequestFacts
  <2> QED BY <1>1, <1>2, <1>9, <2>1 DEF ChangeRoleWrite, Refuse
<1>10. CASE DissolveDelete(r)
  BY <1>10 DEF DissolveDelete
<1>11. CASE SettingsWrite(r)
  BY <1>2, <1>11 DEF SettingsWrite, Refuse
<1> QED
  BY <1>5, <1>6, <1>7, <1>8, <1>9, <1>10, <1>11 DEF WriteStep

(* Every step moves ownership as OwnershipStep allows.                     *)
LEMMA StepMovesOwnership == IInv /\ [Next]_vars => [OwnershipStep]_vars
<1> SUFFICES ASSUME IInv, Next, NEW u \in Users, status[u] # "OWNER", status'[u] = "OWNER"
             PROVE  \/ club.phase = "absent"
                    \/ \E w \in Users \ {u} :
                          /\ status[w] = "OWNER" /\ status'[w] = "ADMIN"
                          /\ \/ club'.protectedId = w
                             \/ club.protectedId = u /\ club'.protectedId = NULL
  BY DEF OwnershipStep
<1>1. ASSUME NEW v \in Users, CreateClub(v)
      PROVE  club.phase = "absent"
  BY <1>1 DEF CreateClub
<1>2. ASSUME NEW r \in Reqs, NEW call \in Calls, LoadClub(r, call)
      PROVE  FALSE
  BY <1>2 DEF LoadClub, Continue, vars
<1>3. ASSUME NEW r \in Reqs, ReadStep(r)
      PROVE  FALSE
  BY <1>3, ReadKeeps
<1>4. ASSUME NEW r \in Reqs, TransferCommit(r)
      PROVE  \E w \in Users \ {u} :
                 status[w] = "OWNER" /\ status'[w] = "ADMIN" /\ club'.protectedId = w
  <2> DEFINE w == req[r].call.caller
  <2>1. req[r] # NULL /\ req[r].call.op = "transfer" /\ ~Refuse(r)
    BY <1>4 DEF TransferCommit, At, Refuse
  <2>2. /\ status[w] = "OWNER"
        /\ status[req[r].call.target] \in {"ADMIN", "MEMBER"}
        /\ status' = [status EXCEPT ![req[r].call.target] = "OWNER", ![w] = "ADMIN"]
        /\ club' = [club EXCEPT !.transferredAt = req[r].at, !.protectedId = w]
    BY <1>4, <2>1 DEF TransferCommit
  <2>3. w \in Users
    BY <2>1, CallOf
  <2>4. w # u /\ status'[w] = "ADMIN"
    BY <2>2, <2>3 DEF IInv, TypeOK
  <2>5. club'.protectedId = w
    BY <2>2 DEF IInv, TypeOK, Clubs
  <2> QED BY <2>2, <2>3, <2>4, <2>5
<1>5. ASSUME NEW r \in Reqs, ReclaimCommit(r)
      PROVE  \E w \in Users \ {u} :
                 /\ status[w] = "OWNER" /\ status'[w] = "ADMIN"
                 /\ club.protectedId = u /\ club'.protectedId = NULL
  <2> DEFINE w == req[r].seen
  <2>1. req[r] # NULL /\ req[r].call.op = "reclaim" /\ req[r].pc = "write" /\ ~Refuse(r)
    BY <1>5 DEF ReclaimCommit, At, Refuse
  <2>2. /\ status[w] = "OWNER"
        /\ status[req[r].call.caller] = "ADMIN"
        /\ club.protectedId = req[r].call.caller
        /\ status' = [status EXCEPT ![req[r].call.caller] = "OWNER", ![w] = "ADMIN"]
        /\ club' = [club EXCEPT !.transferredAt = NULL, !.protectedId = NULL]
    BY <1>5, <2>1 DEF ReclaimCommit
  <2>3. w \in Users
    BY <2>1 DEF IInv, RequestFacts
  <2>4. w # u /\ status'[w] = "ADMIN" /\ u = req[r].call.caller
    BY <2>2, <2>3 DEF IInv, TypeOK
  <2>5. club'.protectedId = NULL
    BY <2>2 DEF IInv, TypeOK, Clubs
  <2> QED BY <2>2, <2>3, <2>4, <2>5
<1>6. ASSUME NEW r \in Reqs, WriteStep(r), ~TransferCommit(r), ~ReclaimCommit(r)
      PROVE  FALSE
  BY <1>6, WriteMakesNoOwner
<1>7. CASE Tick
  BY <1>7 DEF Tick
<1> QED
  BY <1>1, <1>2, <1>3, <1>4, <1>5, <1>6, <1>7 DEF Next

(* Ownership moves only at creation and by an atomic, recorded swap.       *)
THEOREM OwnershipMovesBySwap == Spec => OwnershipMoves
BY Invariance, StepMovesOwnership, PTL DEF Spec, OwnershipMoves
-----------------------------------------------------------------------------
(***************************************************************************)
(* Requests served one at a time.  The writes of admission, review,        *)
(* removal and departure do not re-check the row they overwrite, so that a *)
(* live club keeps its owner is a fact about serial service only: what a   *)
(* request read about the row is still true when it writes.                *)
(***************************************************************************)
Serial == \A r1, r2 \in Reqs : r1 = r2

(* The row a request is about to overwrite, once its checks have passed.   *)
OwnRowOps == {"admit", "admitDirect", "leave"}
OtherRowOps == {"approve", "reject", "remove"}
Overwrites(q, u) ==
    \/ q.call.op \in OwnRowOps /\ q.pc # "caller" /\ u = q.call.caller
    \/ q.call.op \in OtherRowOps /\ q.pc \in {"write", "insert"} /\ u = q.call.target

OwnerPresent == club.phase = "live" => \E u \in Users : status[u] = "OWNER"

SerialFacts ==
    \A r \in Reqs : req[r] # NULL =>
        /\ club.phase # "absent"
        /\ req[r].call.op = "remove" /\ req[r].pc # "caller" => req[r].seen \in {"OWNER", "ADMIN"}
        /\ \A u \in Users : Overwrites(req[r], u) => status[u] # "OWNER"

SerialInv == OwnerPresent /\ SerialFacts

(* Overwriting the row of a user who is not the owner.                     *)
LEMMA SerialSetStatus ==
    ASSUME IInv, SerialInv, Serial, NEW r \in Reqs, NEW u \in Users, NEW s,
           status[u] # "OWNER", SetStatus(r, u, s)
    PROVE  SerialInv'
<1>1. /\ UNCHANGED club
      /\ status' = [status EXCEPT ![u] = s]
      /\ req' = [req EXCEPT ![r] = NULL]
  BY DEF SetStatus, Answer
<1>2. OwnerPresent'
  BY <1>1 DEF SerialInv, OwnerPresent, IInv, TypeOK
<1>3. \A x \in Reqs : req'[x] = NULL
  BY <1>1 DEF Serial, IInv, TypeOK
<1> QED BY <1>2, <1>3 DEF SerialInv, SerialFacts

(* A refusal leaves the slot free and the roster as it was.                *)
LEMMA SerialRefuse ==
    ASSUME IInv, SerialInv, Serial, NEW r \in Reqs, Refuse(r)
    PROVE  SerialInv'
<1>1. UNCHANGED <<club, status>> /\ req' = [req EXCEPT ![r] = NULL]
  BY DEF Refuse, Answer
<1>2. \A x \in Reqs : req'[x] = NULL
  BY <1>1 DEF Serial, IInv, TypeOK
<1> QED BY <1>1, <1>2 DEF SerialInv, SerialFacts, OwnerPresent

(* Going on with request q, of which SerialFacts holds.                    *)
LEMMA SerialContinue ==
    ASSUME IInv, SerialInv, Serial, NEW r \in Reqs, NEW q, Continue(r, q),
           club.phase # "absent",
           q.call.op = "remove" /\ q.pc # "caller" => q.seen \in {"OWNER", "ADMIN"},
           \A u \in Users : Overwrites(q, u) => status[u] # "OWNER"
    PROVE  SerialInv'
<1>1. UNCHANGED <<club, status>> /\ req' = [req EXCEPT ![r] = q]
  BY DEF Continue
<1>2. \A x \in Reqs : req'[x] = q
  BY <1>1 DEF Serial, IInv, TypeOK
<1>3. OwnerPresent'
  BY <1>1 DEF SerialInv, OwnerPresent
<1>4. \A u \in Users : Overwrites(q, u) => status'[u] # "OWNER"
  BY <1>1
<1>5. SerialFacts'
  BY <1>1, <1>2, <1>4 DEF SerialFacts, Overwrites
<1> QED BY <1>3, <1>5 DEF SerialInv

(* The fields of a resumed request.                                        *)
LEMMA ResumeFields ==
    ASSUME NEW q, NEW p, NEW s, NEW t
    PROVE  /\ Resume(q, p, s, t).call = q.call /\ Resume(q, p, s, t).pc = p
           /\ Resume(q, p, s, t).seen = s
           /\ GoTo(q, p).call = q.call /\ GoTo(q, p).pc = p /\ GoTo(q, p).seen = q.seen
BY DEF Resume, GoTo

(* Read steps: the checks are what makes the row safe to overwrite.        *)
LEMMA SerialRead ==
    ASSUME IInv, SerialInv, Serial, NEW r \in Reqs, ReadStep(r)
    PROVE  SerialInv'
<1> DEFINE q == req[r]
<1>0. ASSUME req[r] # NULL
      PROVE  /\ club.phase # "absent"
             /\ q.call.op = "remove" /\ q.pc # "caller" => q.seen \in {"OWNER", "ADMIN"}
             /\ \A u \in Users : Overwrites(q, u) => status[u] # "OWNER"
  BY <1>0 DEF SerialInv, SerialFacts
<1>1. ASSUME NEW ok, NEW p, NEW s, NEW t, req[r] # NULL,
             ContinueIf(ok, r, Resume(q, p, s, t)),
             ok => /\ q.call.op = "remove" /\ p # "caller" => s \in {"OWNER", "ADMIN"}
                   /\ q.call.op \in OwnRowOps => status[q.call.caller] # "OWNER"
                   /\ q.call.op \in OtherRowOps /\ p \in {"write", "insert"} =>
                         status[q.call.target] # "OWNER"
      PROVE  SerialInv'
  <2>1. CASE ok /\ Continue(r, Resume(q, p, s, t))
    <3>1. \A u \in Users : Overwrites(Resume(q, p, s, t), u) => status[u] # "OWNER"
      BY <1>1, <2>1, ResumeFields DEF Overwrites
    <3> QED BY <1>0, <1>1, <2>1, <3>1, ResumeFields, SerialContinue
  <2> QED BY <1>1, <2>1, SerialRefuse DEF ContinueIf
<1>2. CASE AdmitReadSeat(r)
  <2>1. q # NULL /\ q.call.op \in {"admit", "admitDirect"}
    BY <1>2 DEF AdmitReadSeat, At
  <2>2. Role(q.call.caller) = NULL => status[q.call.caller] # "OWNER"
    BY NullAssumption DEF Role, MemberRole
  <2> QED BY <1>1, <1>2, <2>1, <2>2 DEF AdmitReadSeat, GoTo, OwnRowOps, OtherRowOps
<1>3. CASE AdmitReadBan(r)
  <2>1. q # NULL /\ q.call.op = "admit" /\ q.pc = "target"
    BY <1>3 DEF AdmitReadBan, At
  <2>2. status[q.call.caller] # "OWNER"
    BY <1>0, <2>1, CallOf DEF Overwrites, OwnRowOps
  <2> QED BY <1>1, <1>3, <2>1, <2>2 DEF AdmitReadBan, GoTo, OwnRowOps, OtherRowOps
<1>4. CASE ReviewReadReviewer(r)
  <2>1. q # NULL /\ q.call.op \in {"approve", "reject"}
    BY <1>4 DEF ReviewReadReviewer, At
  <2> QED BY <1>1, <1>4, <2>1 DEF ReviewReadReviewer, GoTo, OwnRowOps, OtherRowOps
<1>5. CASE ReviewReadTarget(r)
  <2>1. q # NULL /\ q.call.op \in {"approve", "reject"}
    BY <1>5 DEF ReviewReadTarget, At
  <2> QED BY <1>1, <1>5, <2>1 DEF ReviewReadTarget, GoTo, OwnRowOps, OtherRowOps
<1>6. CASE RemoveReadRemover(r)
  <2>1. q # NULL /\ q.call.op = "remove"
    BY <1>6 DEF RemoveReadRemover, At
  <2> QED BY <1>1, <1>6, <2>1 DEF RemoveReadRemover, OwnRowOps, OtherRowOps
<1>7. CASE RemoveReadTarget(r)
  <2>1. q # NULL /\ q.call.op = "remove" /\ q.pc = "target"
    BY <1>7 DEF RemoveReadTarget, At
  <2>2. q.seen \in {"OWNER", "ADMIN"}
    BY <1>0, <2>1
  <2>3. ASSUME Role(q.call.target) # NULL, Outranks(q.seen, Role(q.call.target))
        PROVE  status[q.call.target] # "OWNER"
    BY <2>2, <2>3 DEF Role, Outranks, Rank, MemberRole
  <2> QED BY <1>1, <1>7, <2>1, <2>2, <2>3 DEF RemoveReadTarget, GoTo, OwnRowOps, OtherRowOps
<1>8. CASE LeaveReadRole(r)
  <2>1. q # NULL /\ q.call.op = "leave"
    BY <1>8 DEF LeaveReadRole, At
  <2>2. Role(q.call.caller) # "OWNER" => status[q.call.caller] # "OWNER"
    BY DEF Role, MemberRole
  <2> QED BY <1>1, <1>8, <2>1, <2>2 DEF LeaveReadRole, GoTo, OwnRowOps, OtherRowOps
<1>9. CASE ChangeRoleReadCaller(r) \/ ChangeRoleReadTarget(r)
  <2>1. q # NULL /\ q.call.op = "changeRole"
    BY <1>9 DEF ChangeRoleReadCaller, ChangeRoleReadTarget, At
  <2> QED BY <1>1, <1>9, <2>1 DEF ChangeRoleReadCaller, ChangeRoleReadTarget, GoTo, OwnRowOps, OtherRowOps
<1>10. CASE DissolveReadRole(r) \/ SettingsReadRole(r)
  <2>1. q # NULL /\ q.call.op \in {"dissolve", "settings"}
    BY <1>10 DEF DissolveReadRole, SettingsReadRole, At
  <2> QED BY <1>1, <1>10, <2>1 DEF DissolveReadRole, SettingsReadRole, GoTo, OwnRowOps, OtherRowOps
<1>11. CASE TransferResolve(r) \/ TransferReadCaller(r) \/ TransferReadTarget(r)
  <2>1. q # NULL /\ q.call.op = "transfer"
    BY <1>11 DEF TransferResolve, TransferReadCaller, TransferReadTarget, At
  <2> QED BY <1>1, <1>11, <2>1
          DEF TransferResolve, TransferReadCaller, TransferReadTarget, GoTo, OwnRowOps, OtherRowOps
<1>12. CASE ReclaimReadOwner(r)
  <2>1. q # NULL /\ q.call.op = "reclaim"
    BY <1>12 DEF ReclaimReadOwner, At
  <2>2. ASSUME NEW owner \in Users, Continue(r, Resume(q, "write", owner, q.at))
        PROVE  SerialInv'
    BY <1>0, <2>1, <2>2, ResumeFields, SerialContinue DEF Overwrites, OwnRowOps, OtherRowOps
  <2> QED BY <1>12, <2>2, SerialRefuse DEF ReclaimReadOwner
<1> QED
  BY <1>2, <1>3, <1>4, <1>5, <1>6, <1>7, <1>8, <1>9, <1>10, <1>11, <1>12 DEF ReadStep

(* upsert_member on the row of a user who is not the owner.                *)
LEMMA SerialUpsert ==
    ASSUME IInv, SerialInv, Serial, NEW r \in Reqs, req[r] # NULL, req[r].pc = "write",
           req[r].call.op \in {"admit", "admitDirect", "approve"},
           NEW u \in Users, Overwrites(req[r], u), UpsertMember(r, u)
    PROVE  SerialInv'
<1> DEFINE q == GoTo(req[r], "insert")
<1>1. status[u] # "OWNER" /\ club.phase # "absent"
  BY DEF SerialInv, SerialFacts
<1>2. CASE SetStatus(r, u, "MEMBER")
  BY <1>1, <1>2, SerialSetStatus
<1>3. CASE Continue(r, q)
  <2>1. q.call = req[r].call /\ q.pc = "insert"
    BY ResumeFields
  <2>2. \A v \in Users : Overwrites(q, v) => v = u
    BY <2>1 DEF Overwrites, OwnRowOps, OtherRowOps
  <2>3. q.call.op # "remove"
    BY <2>1
  <2> QED BY <1>1, <1>3, <2>2, <2>3, SerialContinue
<1> QED BY <1>2, <1>3 DEF UpsertMember

(* An insert fills an empty row, which is not the owner's.                 *)
LEMMA SerialInsert ==
    ASSUME IInv, SerialInv, Serial, NEW r \in Reqs, NEW u \in Users, NEW s, InsertRow(r, u, s)
    PROVE  SerialInv'
BY SerialSetStatus, SerialRefuse DEF InsertRow

(* A swap leaves an owner behind.                                          *)
LEMMA SerialSwap ==
    ASSUME IInv, SerialInv, Serial, NEW r \in Reqs, NEW winner \in Users, NEW loser,
           Answer(r), winner # loser,
           status' = [status EXCEPT ![winner] = "OWNER", ![loser] = "ADMIN"]
    PROVE  SerialInv'
<1>1. status'[winner] = "OWNER"
  BY DEF IInv, TypeOK
<1>2. \A x \in Reqs : req'[x] = NULL
  BY DEF Answer, Serial, IInv, TypeOK
<1> QED BY <1>1, <1>2 DEF SerialInv, OwnerPresent, SerialFacts

(* Write steps: the row written is not the owner's, or the roles swap.     *)
LEMMA SerialWrite ==
    ASSUME IInv, SerialInv, Serial, NEW r \in Reqs, WriteStep(r)
    PROVE  SerialInv'
<1> DEFINE q == req[r]
<1>0. ASSUME q # NULL, NEW u \in Users, Overwrites(q, u)
      PROVE  status[u] # "OWNER"
  BY <1>0 DEF SerialInv, SerialFacts
<1>1. CASE AdmitUpsert(r) \/ AdmitInsert(r) \/ AdmitPending(r)
  <2>1. q # NULL /\ q.call.op \in {"admit", "admitDirect"} /\ q.pc # "caller"
    BY <1>1 DEF AdmitUpsert, AdmitInsert, AdmitPending, At
  <2>2. q.call.caller \in Users /\ Overwrites(q, q.call.caller)
    BY <2>1, CallOf DEF Overwrites, OwnRowOps
  <2> QED BY <1>1, <2>1, <2>2, SerialUpsert, SerialInsert DEF AdmitUpsert, AdmitInsert, AdmitPending, At
<1>2. CASE ApproveUpsert(r) \/ ApproveInsert(r)
  <2>1. q # NULL /\ q.call.op = "approve" /\ q.pc \in {"write", "insert"}
    BY <1>2 DEF ApproveUpsert, ApproveInsert, At
  <2>2. q.call.target \in Users /\ Overwrites(q, q.call.target)
    BY <2>1, CallOf DEF Overwrites, OtherRowOps, TargetedOps
  <2> QED BY <1>2, <2>1, <2>2, SerialUpsert, SerialInsert DEF ApproveUpsert, ApproveInsert, At
<1>3. CASE RejectDelete(r) \/ BanMember(r)
  <2>1. q # NULL /\ q.call.op \in {"reject", "remove"} /\ q.pc = "write"
    BY <1>3 DEF RejectDelete, BanMember, At
  <2>2. q.call.target \in Users /\ Overwrites(q, q.call.target)
    BY <2>1, CallOf DEF Overwrites, OtherRowOps, TargetedOps
  <2> QED BY <1>0, <1>3, <2>1, <2>2, SerialSetStatus DEF RejectDelete, BanMember
<1>4. CASE LeaveDelete(r)
  <2>1. q # NULL /\ q.call.op = "leave" /\ q.pc = "write"
    BY <1>4 DEF LeaveDelete, At
  <2>2. q.call.caller \in Users /\ Overwrites(q, q.call.caller)
    BY <2>1, CallOf DEF Overwrites, OwnRowOps
  <2> QED BY <1>0, <1>4, <2>1, <2>2, SerialSetStatus DEF LeaveDelete
<1>5. CASE ChangeRoleWrite(r)
  <2>1. q.call.target \in Users
    BY <1>5, CallOf DEF ChangeRoleWrite, At
  <2> QED BY <1>5, <2>1, SerialSetStatus, SerialRefuse DEF ChangeRoleWrite
<1>6. CASE DissolveDelete(r)
  <2>1. club'.phase = "dissolved" /\ \A x \in Reqs : req'[x] = NULL
    BY <1>6 DEF DissolveDelete, NoClub, Answer, Serial, IInv, TypeOK
  <2> QED BY <2>1 DEF SerialInv, OwnerPresent, SerialFacts
<1>7. CASE TransferCommit(r)
  <2>1. q # NULL /\ q.call.op = "transfer"
    BY <1>7 DEF TransferCommit, At
  <2>2. q.call.target \in Users
    BY <2>1, CallOf DEF TargetedOps
  <2> QED BY <1>7, <2>2, SerialSwap, SerialRefuse DEF TransferCommit
<1>8. CASE ReclaimCommit(r)
  <2>1. q # NULL
    BY <1>8 DEF ReclaimCommit, At
  <2>2. q.call.caller \in Users
    BY <2>1, CallOf
  <2> QED BY <1>8, <2>2, SerialSwap, SerialRefuse DEF ReclaimCommit
<1>9. CASE SettingsWrite(r)
  <2>1. CASE ~Refuse(r)
    <3>1. /\ club' = [club EXCEPT !.policy = q.call.arg] /\ UNCHANGED status
          /\ req' = [req EXCEPT ![r] = NULL]
      BY <1>9, <2>1 DEF SettingsWrite, Answer
    <3>2. club'.phase = club.phase /\ \A x \in Reqs : req'[x] = NULL
      BY <3>1 DEF IInv, TypeOK, Clubs, Serial
    <3> QED BY <3>1, <3>2 DEF SerialInv, OwnerPresent, SerialFacts
  <2> QED BY <2>1, SerialRefuse
<1> QED
  BY <1>1, <1>2, <1>3, <1>4, <1>5, <1>6, <1>7, <1>8, <1>9 DEF WriteStep

(* Every step of a serial server keeps an owner.                           *)
LEMMA SerialNext == Serial /\ IInv /\ SerialInv /\ [Next]_vars => SerialInv'
<1> SUFFICES ASSUME Serial, IInv, SerialInv, [Next]_vars PROVE SerialInv'
  OBVIOUS
<1>1. CASE UNCHANGED vars
  BY <1>1 DEF vars, SerialInv, OwnerPresent, SerialFacts, Overwrites
<1>2. ASSUME NEW u \in Users, CreateClub(u)
      PROVE  SerialInv'
  <2>1. club.phase = "absent" /\ status' = [status EXCEPT ![u] = "OWNER"] /\ UNCHANGED req
    BY <1>2 DEF CreateClub
  <2>2. \A x \in Reqs : req'[x] = NULL
    BY <2>1 DEF SerialInv, SerialFacts
  <2>3. status'[u] = "OWNER"
    BY <2>1 DEF IInv, TypeOK
  <2> QED BY <2>2, <2>3 DEF SerialInv, OwnerPresent, SerialFacts
<1>3. ASSUME NEW r \in Reqs, NEW call \in Calls, LoadClub(r, call)
      PROVE  SerialInv'
  <2> DEFINE q == [call |-> call,
                   pc |-> IF call.op = "transfer" THEN "resolve" ELSE "caller",
                   club |-> club, seen |-> NULL, at |-> 0]
  <2>1. CASE club.phase = "live" /\ Continue(r, q)
    <3>1. q.call.op = "remove" => q.pc = "caller"
      OBVIOUS
    <3>2. \A u \in Users : ~Overwrites(q, u)
      BY DEF Overwrites, OwnRowOps, OtherRowOps
    <3> HIDE DEF q
    <3> QED BY <2>1, <3>1, <3>2, SerialContinue
  <2> QED BY <1>1, <1>3, <2>1 DEF LoadClub
<1>4. CASE Tick
  BY <1>4 DEF Tick, SerialInv, OwnerPresent, SerialFacts, Overwrites
<1> QED
  BY <1>1, <1>2, <1>3, <1>4, SerialRead, SerialWrite DEF Next

(* With at most one request in flight at a time, a live club always has    *)
(* exactly one owner: no sequence of admissions, reviews, removals, role   *)
(* changes, departures, transfers and reclaims leaves it without one.      *)
THEOREM SerialOneOwner == Serial => (Spec => []OneOwner)
<1> SUFFICES ASSUME Serial PROVE Spec => []OneOwner
  OBVIOUS
<1>1. Init => SerialInv
  BY DEF Init, NoClub, SerialInv, OwnerPresent, SerialFacts
<1>2. IInv /\ SerialInv /\ [Next]_vars => SerialInv'
  BY SerialNext
<1>3. IInv /\ SerialInv => OneOwner
  BY DEF IInv, SerialInv, OwnerPresent, OneOwner
<1> QED BY <1>1, <1>2, <1>3, Invariance, PTL DEF Spec
-----------------------------------------------------------------------------
(***************************************************************************)
(* Proofs about what the endpoints of one club promise its owners, its     *)
(* banned users and its applicants: for any set of users and any windows.  *)
(* That a late admission overwrites no row holds for any number of         *)
(* requests; the other promises are those of a server whose requests do    *)
(* not overlap, because the writes do not ask again for what was read.     *)
(***************************************************************************)

(* The club is created once, without rows, and while its former owner is   *)
(* protected, the former owner has an ADMIN's seat in it.                  *)
AbsentEmpty == club.phase = "absent" => \A u \in Users : status[u] = "NONE"
ProtectedSeat ==
    club.protectedId # NULL => /\ club.phase = "live"
                               /\ InCooldown(club, now) => status[club.protectedId] = "ADMIN"

(* What the checks a request has passed say of the club and of the rows it *)
(* is about to write, as long as nobody else writes.                       *)
Decided(q) ==
    /\ q.club = club /\ club.phase = "live"
    /\ q.call.op \in {"admit", "admitDirect"} /\ q.pc # "caller" =>
          status[q.call.caller] \notin MemberRole
    /\ q.call.op = "admit" /\ q.pc \in {"write", "insert", "pending"} =>
          status[q.call.caller] # "BANNED"
    /\ q.call.op \in {"approve", "reject"} /\ q.pc = "write" => status[q.call.target] = "PENDING"
    /\ q.call.op = "remove" /\ q.pc = "write" =>
          status[q.call.target] \in {"ADMIN", "MEMBER"} /\ ~Protected(club, q.call.target, now)
    /\ q.call.op = "changeRole" /\ q.pc = "write" => ~Protected(club, q.call.target, now)
    /\ q.call.op = "leave" /\ q.pc = "write" =>
          status[q.call.caller] \in {"ADMIN", "MEMBER"} /\ ~Protected(club, q.call.caller, now)
    /\ q.call.op = "dissolve" /\ q.pc = "write" =>
          ~(club.protectedId # NULL /\ InCooldown(club, now))
    /\ q.call.op = "transfer" /\ q.pc # "resolve" /\ club.transferredAt # NULL =>
          club.transferredAt =< q.at
    /\ q.call.op = "transfer" /\ q.pc = "write" =>
          q.call.target = club.protectedId \/ ~InCooldown(club, q.at)

DecidedAll == \A r \in Reqs : req[r] # NULL => Decided(req[r])

SnapshotInv == AbsentEmpty /\ ProtectedSeat /\ DecidedAll
-----------------------------------------------------------------------------
(* Only the insert of an admission stores PENDING, into a missing row.     *)
LEMMA WritePending ==
    ASSUME IInv, NEW r \in Reqs, WriteStep(r), NEW u \in Users, status'[u] = "PENDING"
    PROVE  status[u] \in {"NONE", "PENDING"}
<1>1. ASSUME NEW v, NEW s, SetStatus(r, v, s), s # "PENDING"
      PROVE  status[u] = "PENDING"
  BY <1>1 DEF SetStatus, IInv, TypeOK
<1>2. ASSUME NEW v, UpsertMember(r, v)
      PROVE  status[u] = "PENDING"
  BY <1>1, <1>2 DEF UpsertMember, Continue
<1>3. ASSUME NEW v, NEW s, InsertRow(r, v, s)
      PROVE  status[u] \in {"NONE", "PENDING"}
  BY <1>3 DEF InsertRow, SetStatus, Refuse, IInv, TypeOK
<1>4. CASE AdmitUpsert(r) \/ ApproveUpsert(r)
  BY <1>2, <1>4 DEF AdmitUpsert, ApproveUpsert
<1>5. CASE AdmitInsert(r) \/ AdmitPending(r) \/ ApproveInsert(r)
  BY <1>3, <1>5 DEF AdmitInsert, AdmitPending, ApproveInsert
<1>6. CASE RejectDelete(r) \/ LeaveDelete(r)
  BY <1>1, <1>6 DEF RejectDelete, LeaveDelete
<1>7. CASE BanMember(r)
  BY <1>1, <1>7 DEF BanMember
<1>8. CASE ChangeRoleWrite(r)
  <2>1. req[r].call.arg # "PENDING"
    BY <1>8, CallOf DEF ChangeRoleWrite, At, MemberRole
  <2> QED BY <1>1, <1>8, <2>1 DEF ChangeRoleWrite, Refuse
<1>9. CASE DissolveDelete(r)
  BY <1>9 DEF DissolveDelete
<1>10. CASE SettingsWrite(r)
  BY <1>10 DEF SettingsWrite, Refuse
<1>11. CASE TransferCommit(r) \/ ReclaimCommit(r)
  BY <1>11 DEF TransferCommit, ReclaimCommit, Refuse, IInv, TypeOK
<1> QED
  BY <1>4, <1>5, <1>6, <1>7, <1>8, <1>9, <1>10, <1>11 DEF WriteStep

(* However many admissions, approvals, removals and settings changes       *)
(* overtake one another, a seat or a ban is never overwritten by a         *)
(* request to join.                                                        *)
THEOREM NoRowBecomesPending == Spec => PendingOnlyFromNoRow
<1>1. ASSUME IInv, [Next]_vars
      PROVE  [\A u \in Users : status'[u] = "PENDING" => status[u] \in {"NONE", "PENDING"}]_vars
  <2> SUFFICES ASSUME Next, NEW u \in Users, status'[u] = "PENDING"
               PROVE  status[u] \in {"NONE", "PENDING"}
    BY <1>1
  <2>1. CASE \E v \in Users : CreateClub(v)
    BY <1>1, <2>1 DEF CreateClub, IInv, TypeOK
  <2>2. CASE UNCHANGED status
    BY <2>2
  <2>3. CASE \E r \in Reqs : WriteStep(r)
    BY <1>1, <2>3, WritePending
  <2> QED BY <2>1, <2>2, <2>3, ReadKeeps DEF Next, Tick, LoadClub, Continue, vars
<1> QED BY <1>1, Invariance, PTL DEF Spec, PendingOnlyFromNoRow
-----------------------------------------------------------------------------
(* Requests that do not overlap.  Every lemma below is about them.         *)
SerialState == Serial /\ IInv /\ SerialInv /\ SnapshotInv

(* What a request under way says, and where its call points.               *)
LEMMA Deciding ==
    ASSUME SerialState, NEW r \in Reqs, req[r] # NULL
    PROVE  /\ Decided(req[r]) /\ req[r].call.caller \in Users /\ req[r].at \in Nat
           /\ req[r].call.op \in TargetedOps \cup {"changeRole"} => req[r].call.target \in Users
           /\ req[r].at =< now /\ club.phase # "absent"
<1>1. req[r].at \in Nat /\ req[r].at =< now
  BY RequestType DEF SerialState, IInv, TypeOK, RequestFacts
<1> QED BY <1>1, CallOf DEF SerialState, SnapshotInv, DecidedAll, SerialInv, SerialFacts

(* Protection only runs out.                                               *)
LEMMA CooldownEnds ==
    ASSUME IInv, NEW t \in Nat, t =< now, ~InCooldown(club, t)
    PROVE  ~InCooldown(club, now)
BY WindowAssumption DEF IInv, TypeOK, Clubs, InCooldown

(* Nothing but the request moves: the state stays as its checks found it.  *)
LEMMA SnapshotContinue ==
    ASSUME SerialState, NEW r \in Reqs, NEW q, Continue(r, q), Decided(q)
    PROVE  SnapshotInv'
<1>1. UNCHANGED <<club, status, now>> /\ \A x \in Reqs : req'[x] = q
  BY DEF Continue, SerialState, Serial, IInv, TypeOK
<1>2. DecidedAll'
  BY <1>1 DEF DecidedAll, Decided, Protected, InCooldown
<1> QED BY <1>1, <1>2 DEF SerialState, SnapshotInv, AbsentEmpty, ProtectedSeat, InCooldown

(* A refused request writes nothing and leaves its slot empty.             *)
LEMMA SnapshotRefuse ==
    ASSUME SerialState, NEW r \in Reqs, Refuse(r)
    PROVE  SnapshotInv'
<1>1. UNCHANGED <<club, status, now>> /\ \A x \in Reqs : req'[x] = NULL
  BY DEF Refuse, Answer, SerialState, Serial, IInv, TypeOK
<1> QED BY <1>1 DEF SerialState, SnapshotInv, AbsentEmpty, ProtectedSeat, InCooldown, DecidedAll

(* A check lets the request go on with what it established, or refuses.    *)
LEMMA ResumeFieldsToo ==
    ASSUME NEW q, NEW p, NEW s, NEW t
    PROVE  /\ Resume(q, p, s, t).club = q.club /\ Resume(q, p, s, t).at = t
           /\ GoTo(q, p).club = q.club /\ GoTo(q, p).at = q.at
BY DEF Resume, GoTo

(* Going on to p with nothing new is the request itself, at p.             *)
LEMMA GoesOn ==
    ASSUME SerialState, NEW r \in Reqs, req[r] # NULL, NEW p
    PROVE  \E g : /\ g = GoTo(req[r], p) /\ Decided(req[r])
                  /\ g.call = req[r].call /\ g.pc = p /\ g.club = req[r].club /\ g.at = req[r].at
<1>1. PICK g : g = GoTo(req[r], p)
  OBVIOUS
<1>2. g.call = req[r].call /\ g.pc = p /\ g.club = req[r].club /\ g.at = req[r].at
  BY <1>1, ResumeFields, ResumeFieldsToo
<1>3. Decided(req[r])
  BY Deciding
<1>4. QED
  BY <1>1, <1>2, <1>3

(* A step that only reads, and goes on if what it read allows it.          *)
LEMMA SnapshotContinueIf ==
    ASSUME SerialState, NEW r \in Reqs, NEW ok, NEW q, ContinueIf(ok, r, q), ok => Decided(q)
    PROVE  SnapshotInv'
BY SnapshotContinue, SnapshotRefuse DEF ContinueIf

(* Read steps.                                                             *)
LEMMA SnapshotRead ==
    ASSUME SerialState, NEW r \in Reqs, ReadStep(r)
    PROVE  SnapshotInv'
<1> DEFINE q == req[r]
<1>1. CASE AdmitReadSeat(r)
  <2>0. PICK p : p = IF q.call.op = "admitDirect" THEN "write" ELSE "target"
    OBVIOUS
  <2>1. /\ q # NULL /\ q.call.op \in {"admit", "admitDirect"}
        /\ ContinueIf(Role(q.call.caller) = NULL, r, GoTo(q, p))
    BY <1>1, <2>0 DEF AdmitReadSeat, At
  <2>2. ASSUME Role(q.call.caller) = NULL
        PROVE  status[q.call.caller] \notin MemberRole
    BY <2>2, NullAssumption DEF Role
  <2>3. Role(q.call.caller) = NULL => Decided(GoTo(q, p))
    BY <2>0, <2>1, <2>2, GoesOn DEF Decided
  <2> QED BY <2>1, <2>3, SnapshotContinueIf
<1>2. CASE AdmitReadBan(r)
  <2>0. PICK p : p = IF q.club.policy = "PUBLIC" THEN "write" ELSE "pending"
    OBVIOUS
  <2>1. /\ q # NULL /\ q.call.op = "admit" /\ q.pc = "target"
        /\ ContinueIf(status[q.call.caller] # "BANNED", r, GoTo(q, p))
    BY <1>2, <2>0 DEF AdmitReadBan, At
  <2>2. status[q.call.caller] # "BANNED" => Decided(GoTo(q, p))
    BY <2>1, GoesOn DEF Decided
  <2> QED BY <2>1, <2>2, SnapshotContinueIf
<1>3. CASE ReviewReadReviewer(r)
  <2>1. q # NULL /\ q.call.op \in {"approve", "reject"}
    BY <1>3 DEF ReviewReadReviewer, At
  <2>2. Decided(GoTo(q, "target"))
    BY <2>1, GoesOn DEF Decided
  <2> QED BY <1>3, <2>2, SnapshotContinueIf DEF ReviewReadReviewer
<1>4. CASE ReviewReadTarget(r)
  <2>1. q # NULL /\ q.call.op \in {"approve", "reject"}
    BY <1>4 DEF ReviewReadTarget, At
  <2>2. status[q.call.target] = "PENDING" => Decided(GoTo(q, "write"))
    BY <2>1, GoesOn DEF Decided
  <2> QED BY <1>4, <2>2, SnapshotContinueIf DEF ReviewReadTarget
<1>5. CASE RemoveReadRemover(r)
  <2>1. q # NULL /\ q.call.op = "remove"
    BY <1>5 DEF RemoveReadRemover, At
  <2>2. Decided(Resume(q, "target", Role(q.call.caller), q.at))
    BY <2>1, Deciding, ResumeFields, ResumeFieldsToo DEF Decided
  <2> QED BY <1>5, <2>2, SnapshotContinueIf DEF RemoveReadRemover
<1>6. CASE RemoveReadTarget(r)
  <2> DEFINE role == Role(q.call.target)
             ok == /\ role # NULL
                   /\ Outranks(q.seen, role)
                   /\ ~Protected(q.club, q.call.target, now)
  <2>1. q # NULL /\ q.call.op = "remove" /\ q.pc = "target" /\ ContinueIf(ok, r, GoTo(q, "write"))
    BY <1>6 DEF RemoveReadTarget, At
  <2>2. q.seen \in {"OWNER", "ADMIN"}
    BY <2>1 DEF SerialState, SerialInv, SerialFacts
  <2>3. ok => status[q.call.target] \in {"ADMIN", "MEMBER"}
    BY <2>2 DEF Role, Outranks, Rank, MemberRole
  <2>4. ok => Decided(GoTo(q, "write"))
    BY <2>1, <2>3, GoesOn DEF Decided
  <2> QED BY <2>1, <2>4, SnapshotContinueIf
<1>7. CASE ChangeRoleReadCaller(r)
  <2>1. q # NULL /\ q.call.op = "changeRole"
    BY <1>7 DEF ChangeRoleReadCaller, At
  <2>2. Decided(Resume(q, "target", Role(q.call.caller), q.at))
    BY <2>1, Deciding, ResumeFields, ResumeFieldsToo DEF Decided
  <2> QED BY <1>7, <2>2, SnapshotContinueIf DEF ChangeRoleReadCaller
<1>8. CASE ChangeRoleReadTarget(r)
  <2>1. q # NULL /\ q.call.op = "changeRole"
    BY <1>8 DEF ChangeRoleReadTarget, At
  <2>2. ~Protected(q.club, q.call.target, now) => Decided(GoTo(q, "write"))
    BY <2>1, GoesOn DEF Decided
  <2> QED BY <1>8, <2>2, SnapshotContinueIf DEF ChangeRoleReadTarget
<1>9. CASE LeaveReadRole(r)
  <2>1. q # NULL /\ q.call.op = "leave"
    BY <1>9 DEF LeaveReadRole, At
  <2>2. Role(q.call.caller) \notin {NULL, "OWNER"} => status[q.call.caller] \in {"ADMIN", "MEMBER"}
    BY DEF Role, MemberRole
  <2>3. Role(q.call.caller) \notin {NULL, "OWNER"} /\ ~Protected(q.club, q.call.caller, now) =>
           Decided(GoTo(q, "write"))
    BY <2>1, <2>2, GoesOn DEF Decided
  <2> QED BY <1>9, <2>3, SnapshotContinueIf DEF LeaveReadRole
<1>10. CASE DissolveReadRole(r)
  <2>1. q # NULL /\ q.call.op = "dissolve"
    BY <1>10 DEF DissolveReadRole, At
  <2>2. ~(q.club.protectedId # NULL /\ InCooldown(q.club, now)) => Decided(GoTo(q, "write"))
    BY <2>1, GoesOn DEF Decided
  <2> QED BY <1>10, <2>2, SnapshotContinueIf DEF DissolveReadRole
<1>11. CASE TransferResolve(r)
  <2>1. q # NULL /\ q.call.op = "transfer"
    BY <1>11 DEF TransferResolve, At
  <2>2. club.transferredAt # NULL => club.transferredAt =< now
    BY DEF SerialState, IInv, OwnershipRecord
  <2>3. Decided(Resume(q, "caller", q.seen, now))
    BY <2>1, <2>2, Deciding, ResumeFields, ResumeFieldsToo DEF Decided
  <2> QED BY <1>11, <2>3, SnapshotContinueIf DEF TransferResolve
<1>12. CASE TransferReadCaller(r)
  <2>1. q # NULL /\ q.call.op = "transfer" /\ q.pc = "caller"
    BY <1>12 DEF TransferReadCaller, At
  <2>2. Decided(GoTo(q, "target"))
    BY <2>1, GoesOn DEF Decided
  <2> QED BY <1>12, <2>2, SnapshotContinueIf DEF TransferReadCaller
<1>13. CASE TransferReadTarget(r)
  <2> DEFINE ok == /\ Role(q.call.target) # NULL
                   /\ q.call.target = q.club.protectedId \/ ~InCooldown(q.club, q.at)
  <2>1. q # NULL /\ q.call.op = "transfer" /\ q.pc = "target" /\ ContinueIf(ok, r, GoTo(q, "write"))
    BY <1>13 DEF TransferReadTarget, At
  <2>2. ok => Decided(GoTo(q, "write"))
    BY <2>1, GoesOn DEF Decided
  <2> QED BY <2>1, <2>2, SnapshotContinueIf
<1>14. CASE ReclaimReadOwner(r)
  <2>1. ASSUME NEW owner \in Users, Continue(r, Resume(q, "write", owner, q.at))
        PROVE  SnapshotInv'
    <3>1. q # NULL /\ q.call.op = "reclaim"
      BY <1>14 DEF ReclaimReadOwner, At
    <3>2. Decided(Resume(q, "write", owner, q.at))
      BY <3>1, Deciding, ResumeFields, ResumeFieldsToo DEF Decided
    <3> QED BY <2>1, <3>2, SnapshotContinue
  <2> QED BY <1>14, <2>1, SnapshotRefuse DEF ReclaimReadOwner
<1>15. CASE SettingsReadRole(r)
  <2>1. q # NULL /\ q.call.op = "settings"
    BY <1>15 DEF SettingsReadRole, At
  <2>2. Decided(GoTo(q, "write"))
    BY <2>1, GoesOn DEF Decided
  <2> QED BY <1>15, <2>2, SnapshotContinueIf DEF SettingsReadRole
<1> QED
  BY <1>1, <1>2, <1>3, <1>4, <1>5, <1>6, <1>7, <1>8, <1>9, <1>10, <1>11, <1>12, <1>13, <1>14, <1>15
     DEF ReadStep
-----------------------------------------------------------------------------
(* What a write does.  One row changes, which is not the owner's nor that  *)
(* of a former owner still protected, and lifts no ban unless it seats     *)
(* somebody on a direct invitation;                                        *)
RowChanges(r, u, s) ==
    /\ UNCHANGED <<club, now>> /\ status' = [status EXCEPT ![u] = s]
    /\ status[u] # "OWNER" /\ s # "OWNER"
    /\ ~Protected(club, u, now)
    /\ status[u] = "BANNED" =>
          s = "BANNED" \/ (At(r, {"admitDirect"}, "write") /\ req[r].call.caller = u)

(* or the club goes, which no former owner's protection forbids;           *)
Dissolves ==
    /\ club.phase = "live" /\ ~(club.protectedId # NULL /\ InCooldown(club, now))
    /\ club' = NoClub("dissolved") /\ status' = [u \in Users |-> "NONE"] /\ UNCHANGED now

(* or the owner hands the club over, after the cooldown or back to the     *)
(* former owner;                                                           *)
HandsOver(u, w, t) ==
    /\ u # w /\ status[w] = "OWNER" /\ status[u] \in {"ADMIN", "MEMBER"}
    /\ status' = [status EXCEPT ![u] = "OWNER", ![w] = "ADMIN"]
    /\ club.phase = "live" /\ club' \in Clubs /\ club'.phase = "live"
    /\ club'.protectedId = w /\ club'.transferredAt = t
    /\ t =< now /\ (club.transferredAt # NULL => club.transferredAt =< t)
    /\ u = club.protectedId \/ ~InCooldown(club, now)
    /\ UNCHANGED now

(* or the former owner takes the club back;                                *)
TakesBack(u, w) ==
    /\ u # w /\ status[w] = "OWNER" /\ status[u] = "ADMIN"
    /\ status' = [status EXCEPT ![u] = "OWNER", ![w] = "ADMIN"]
    /\ club.phase = "live" /\ club' \in Clubs /\ club'.phase = "live"
    /\ club.protectedId = u /\ club'.protectedId = NULL /\ club'.transferredAt = NULL
    /\ UNCHANGED now

(* or the club document changes in what is not about its ownership.        *)
OwnershipStays ==
    /\ club'.phase = club.phase /\ club'.protectedId = club.protectedId
    /\ club'.transferredAt = club.transferredAt
    /\ UNCHANGED <<status, now>>

Effect(r) ==
    \/ \E u \in Users, s \in MembershipStatus \cup {"NONE"} : RowChanges(r, u, s)
    \/ Dissolves
    \/ \E u, w \in Users, t \in Nat : HandsOver(u, w, t)
    \/ \E u, w \in Users : TakesBack(u, w)
    \/ OwnershipStays

(* The row of somebody without a seat is safe to overwrite.                *)
LEMMA NotProtected ==
    ASSUME SerialState, NEW u \in Users, status[u] \notin {"ADMIN"}
    PROVE  ~Protected(club, u, now)
BY NullAssumption DEF Protected, SerialState, SnapshotInv, ProtectedSeat

(* upsert_member writes the one row it names, and not a ban that only a    *)
(* direct invitation lifts.                                                *)
LEMMA UpsertShape ==
    ASSUME SerialState, NEW r \in Reqs, NEW u \in Users, UpsertMember(r, u),
           status[u] \notin MemberRole,
           status[u] # "BANNED" \/ (At(r, {"admitDirect"}, "write") /\ req[r].call.caller = u)
    PROVE  Effect(r)
<1>1. CASE SetStatus(r, u, "MEMBER")
  <2>1. RowChanges(r, u, "MEMBER")
    BY <1>1, NotProtected DEF RowChanges, SetStatus, Answer, MemberRole
  <2> QED BY <2>1 DEF Effect, MembershipStatus, MemberRole
<1>2. CASE Continue(r, GoTo(req[r], "insert"))
  BY <1>2 DEF Continue, Effect, OwnershipStays
<1> QED BY <1>1, <1>2 DEF UpsertMember

(* The insert of a row that is not there yet writes that row only.         *)
LEMMA InsertShape ==
    ASSUME SerialState, NEW r \in Reqs, NEW u \in Users, NEW s \in {"MEMBER", "PENDING"},
           InsertRow(r, u, s)
    PROVE  Effect(r)
<1>1. CASE status[u] = "NONE" /\ SetStatus(r, u, s)
  <2>1. RowChanges(r, u, s)
    BY <1>1, NotProtected DEF RowChanges, SetStatus, Answer
  <2> QED BY <2>1 DEF Effect, MembershipStatus, MemberRole
<1>2. CASE Refuse(r)
  BY <1>2 DEF Refuse, Answer, Effect, OwnershipStays
<1> QED BY <1>1, <1>2 DEF InsertRow

(* Every write does one of these.                                          *)
LEMMA WriteShape ==
    ASSUME SerialState, NEW r \in Reqs, WriteStep(r)
    PROVE  Effect(r)
<1> DEFINE q == req[r]
<1>0. ASSUME Refuse(r) PROVE Effect(r)
  BY <1>0 DEF Refuse, Answer, Effect, OwnershipStays
<1>1. CASE AdmitUpsert(r)
  <2>1. q # NULL /\ q.call.op \in {"admit", "admitDirect"} /\ q.pc = "write"
    BY <1>1 DEF AdmitUpsert, At
  <2>2. /\ q.call.caller \in Users /\ status[q.call.caller] \notin MemberRole
        /\ q.call.op = "admit" => status[q.call.caller] # "BANNED"
    BY <2>1, Deciding DEF Decided
  <2> QED BY <1>1, <2>1, <2>2, UpsertShape DEF AdmitUpsert, At
<1>2. CASE AdmitInsert(r) \/ AdmitPending(r)
  <2>1. q # NULL
    BY <1>2 DEF AdmitInsert, AdmitPending, At
  <2> QED BY <1>2, <2>1, Deciding, InsertShape DEF AdmitInsert, AdmitPending
<1>3. CASE ApproveUpsert(r)
  <2>1. q # NULL /\ q.call.op = "approve" /\ q.pc = "write"
    BY <1>3 DEF ApproveUpsert, At
  <2>2. q.call.target \in Users /\ status[q.call.target] = "PENDING"
    BY <2>1, Deciding DEF Decided, TargetedOps
  <2> QED BY <1>3, <2>2, UpsertShape DEF ApproveUpsert, MemberRole
<1>4. CASE ApproveInsert(r)
  <2>1. q # NULL /\ q.call.op = "approve"
    BY <1>4 DEF ApproveInsert, At
  <2>2. q.call.target \in Users
    BY <2>1, Deciding DEF TargetedOps
  <2> QED BY <1>4, <2>2, InsertShape DEF ApproveInsert
<1>5. CASE RejectDelete(r)
  <2>1. q # NULL /\ q.call.op = "reject" /\ q.pc = "write" /\ SetStatus(r, q.call.target, "NONE")
    BY <1>5 DEF RejectDelete, At
  <2>2. q.call.target \in Users /\ status[q.call.target] = "PENDING"
    BY <2>1, Deciding DEF Decided, TargetedOps
  <2>3. RowChanges(r, q.call.target, "NONE")
    BY <2>1, <2>2, NotProtected DEF RowChanges, SetStatus, Answer
  <2> QED BY <2>2, <2>3 DEF Effect
<1>6. CASE BanMember(r)
  <2>1. q # NULL /\ q.call.op = "remove" /\ q.pc = "write"
    BY <1>6 DEF BanMember, At
  <2>2. /\ q.call.target \in Users /\ status[q.call.target] \in {"ADMIN", "MEMBER"}
        /\ ~Protected(club, q.call.target, now)
    BY <2>1, Deciding DEF Decided, TargetedOps
  <2>3. SetStatus(r, q.call.target, "BANNED")
    BY <1>6, <2>2 DEF BanMember
  <2>4. RowChanges(r, q.call.target, "BANNED")
    BY <2>2, <2>3 DEF RowChanges, SetStatus, Answer
  <2> QED BY <2>2, <2>4 DEF Effect, MembershipStatus
<1>7. CASE ChangeRoleWrite(r)
  <2>1. q # NULL /\ q.call.op = "changeRole" /\ q.pc = "write"
    BY <1>7 DEF ChangeRoleWrite, At
  <2>2. /\ q.call.target \in Users /\ q.call.arg \in MemberRole \ {"OWNER"}
        /\ ~Protected(club, q.call.target, now)
    BY <2>1, Deciding, CallOf DEF Decided, SerialState, IInv, RequestFacts
  <2>3. CASE status[q.call.target] \in {"ADMIN", "MEMBER"} /\ SetStatus(r, q.call.target, q.call.arg)
    <3>1. RowChanges(r, q.call.target, q.call.arg)
      BY <2>2, <2>3 DEF RowChanges, SetStatus, Answer
    <3> QED BY <2>2, <3>1 DEF Effect, MembershipStatus
  <2> QED BY <1>0, <1>7, <2>3 DEF ChangeRoleWrite
<1>8. CASE LeaveDelete(r)
  <2>1. q # NULL /\ q.call.op = "leave" /\ q.pc = "write" /\ SetStatus(r, q.call.caller, "NONE")
    BY <1>8 DEF LeaveDelete, At
  <2>2. /\ q.call.caller \in Users /\ status[q.call.caller] \in {"ADMIN", "MEMBER"}
        /\ ~Protected(club, q.call.caller, now)
    BY <2>1, Deciding DEF Decided
  <2>3. RowChanges(r, q.call.caller, "NONE")
    BY <2>1, <2>2 DEF RowChanges, SetStatus, Answer
  <2> QED BY <2>2, <2>3 DEF Effect
<1>9. CASE DissolveDelete(r)
  <2>1. q # NULL /\ q.call.op = "dissolve" /\ q.pc = "write"
    BY <1>9 DEF DissolveDelete, At
  <2>2. club.phase = "live" /\ ~(club.protectedId # NULL /\ InCooldown(club, now))
    BY <2>1, Deciding DEF Decided
  <2> QED BY <1>9, <2>2 DEF DissolveDelete, Answer, Effect, Dissolves
<1>10. CASE TransferCommit(r) /\ ~Refuse(r)
  <2>1. /\ q # NULL /\ q.call.op = "transfer" /\ q.pc = "write"
        /\ status[q.call.target] \in {"ADMIN", "MEMBER"} /\ status[q.call.caller] = "OWNER"
        /\ club.phase = "live" /\ UNCHANGED now
        /\ status' = [status EXCEPT ![q.call.target] = "OWNER", ![q.call.caller] = "ADMIN"]
        /\ club' = [club EXCEPT !.transferredAt = q.at, !.protectedId = q.call.caller]
    BY <1>10 DEF TransferCommit, At, Answer
  <2>2. /\ Decided(q) /\ q.call.caller \in Users /\ q.at \in Nat /\ q.at =< now
        /\ q.call.target \in Users
    BY <2>1, Deciding DEF TargetedOps
  <2>3. PICK u \in Users, w \in Users, t \in Nat : u = q.call.target /\ w = q.call.caller /\ t = q.at
    BY <2>2
  <2>4. club \in Clubs
    BY DEF SerialState, IInv, TypeOK
  <2>5. /\ club' \in Clubs /\ club'.phase = club.phase
        /\ club'.protectedId = w /\ club'.transferredAt = t
    BY <2>1, <2>3, <2>4 DEF Clubs
  <2>6. u = club.protectedId \/ ~InCooldown(club, now)
    BY <2>1, <2>2, <2>3, CooldownEnds DEF Decided, SerialState
  <2>7. club.transferredAt # NULL => club.transferredAt =< t
    BY <2>1, <2>2, <2>3 DEF Decided
  <2>8. HandsOver(u, w, t)
    BY <2>1, <2>2, <2>3, <2>5, <2>6, <2>7 DEF HandsOver
  <2> QED BY <2>8 DEF Effect
<1>11. CASE ReclaimCommit(r) /\ ~Refuse(r)
  <2>1. /\ q # NULL /\ q.call.op = "reclaim" /\ q.pc = "write"
        /\ status[q.call.caller] = "ADMIN" /\ status[q.seen] = "OWNER"
        /\ club.phase = "live" /\ club.protectedId = q.call.caller /\ UNCHANGED now
        /\ status' = [status EXCEPT ![q.call.caller] = "OWNER", ![q.seen] = "ADMIN"]
        /\ club' = [club EXCEPT !.transferredAt = NULL, !.protectedId = NULL]
    BY <1>11 DEF ReclaimCommit, At, Answer
  <2>2. q.call.caller \in Users /\ q.seen \in Users
    BY <2>1, CallOf DEF SerialState, IInv, RequestFacts
  <2>3. /\ club' \in Clubs /\ club'.phase = club.phase
        /\ club'.protectedId = NULL /\ club'.transferredAt = NULL
    BY <2>1 DEF SerialState, IInv, TypeOK, Clubs
  <2>4. TakesBack(q.call.caller, q.seen)
    BY <2>1, <2>2, <2>3 DEF TakesBack
  <2> QED BY <2>2, <2>4 DEF Effect
<1>12. CASE SettingsWrite(r) /\ ~Refuse(r)
  <2>1. club' = [club EXCEPT !.policy = q.call.arg] /\ UNCHANGED <<status, now>>
    BY <1>12 DEF SettingsWrite, Answer
  <2>2. club \in Clubs
    BY DEF SerialState, IInv, TypeOK
  <2> QED BY <2>1, <2>2 DEF Clubs, Effect, OwnershipStays
<1> QED
  BY <1>0, <1>1, <1>2, <1>3, <1>4, <1>5, <1>6, <1>7, <1>8, <1>9, <1>10, <1>11, <1>12 DEF WriteStep

(* A write answers, or is the update of an upsert that found no row.       *)
LEMMA WriteAnswers ==
    ASSUME SerialState, NEW r \in Reqs, WriteStep(r)
    PROVE  \/ \A x \in Reqs : req'[x] = NULL
           \/ /\ req[r] # NULL /\ req[r].pc = "write"
              /\ req[r].call.op \in {"admit", "admitDirect", "approve"}
              /\ Continue(r, GoTo(req[r], "insert"))
<1>1. Answer(r) => \A x \in Reqs : req'[x] = NULL
  BY DEF Answer, SerialState, Serial, IInv, TypeOK
<1>2. CASE AdmitUpsert(r) \/ ApproveUpsert(r)
  BY <1>1, <1>2 DEF AdmitUpsert, ApproveUpsert, UpsertMember, SetStatus, At
<1> QED
  BY <1>1, <1>2 DEF WriteStep, AdmitInsert, AdmitPending, ApproveInsert, InsertRow, SetStatus, Refuse,
     RejectDelete, BanMember, ChangeRoleWrite, LeaveDelete, DissolveDelete, TransferCommit,
     ReclaimCommit, SettingsWrite

(* None of the effects leaves a protected former owner without a seat.     *)
LEMMA SnapshotWrite ==
    ASSUME SerialState, NEW r \in Reqs, WriteStep(r)
    PROVE  SnapshotInv'
<1>1. CASE /\ req[r] # NULL /\ req[r].pc = "write"
           /\ req[r].call.op \in {"admit", "admitDirect", "approve"}
           /\ Continue(r, GoTo(req[r], "insert"))
  <2>1. Decided(GoTo(req[r], "insert"))
    BY <1>1, GoesOn DEF Decided
  <2> QED BY <1>1, <2>1, SnapshotContinue
<1>2. CASE \A x \in Reqs : req'[x] = NULL
  <2>1. req[r] # NULL
    BY DEF WriteStep, AdmitUpsert, AdmitInsert, AdmitPending, ApproveUpsert, ApproveInsert,
       RejectDelete, BanMember, ChangeRoleWrite, LeaveDelete, DissolveDelete, TransferCommit,
       ReclaimCommit, SettingsWrite, At
  <2>2. club.phase = "live" /\ AbsentEmpty /\ ProtectedSeat /\ TypeOK
    BY <2>1, Deciding DEF Decided, SerialState, SnapshotInv, IInv
  <2>3. DecidedAll'
    BY <1>2 DEF DecidedAll
  <2>4. ASSUME NEW u \in Users, NEW s, RowChanges(r, u, s)
        PROVE  AbsentEmpty' /\ ProtectedSeat'
    <3>1. club.protectedId # NULL /\ InCooldown(club, now) => u # club.protectedId
      BY <2>4 DEF RowChanges, Protected
    <3> QED BY <2>2, <2>4, <3>1 DEF RowChanges, AbsentEmpty, ProtectedSeat, TypeOK, InCooldown, Clubs
  <2>5. ASSUME Dissolves
        PROVE  AbsentEmpty' /\ ProtectedSeat'
    BY <2>5 DEF Dissolves, NoClub, AbsentEmpty, ProtectedSeat
  <2>6. ASSUME NEW u \in Users, NEW w \in Users, NEW t \in Nat, HandsOver(u, w, t)
        PROVE  AbsentEmpty' /\ ProtectedSeat'
    BY <2>2, <2>6 DEF HandsOver, AbsentEmpty, ProtectedSeat, TypeOK
  <2>7. ASSUME NEW u \in Users, NEW w \in Users, TakesBack(u, w)
        PROVE  AbsentEmpty' /\ ProtectedSeat'
    BY <2>2, <2>7 DEF TakesBack, AbsentEmpty, ProtectedSeat
  <2>8. ASSUME OwnershipStays
        PROVE  AbsentEmpty' /\ ProtectedSeat'
    BY <2>2, <2>8 DEF OwnershipStays, AbsentEmpty, ProtectedSeat, InCooldown
  <2> QED BY <2>3, <2>4, <2>5, <2>6, <2>7, <2>8, WriteShape DEF SnapshotInv, Effect
<1> QED BY <1>1, <1>2, WriteAnswers

(* Time takes a protection away, never gives one.                          *)
LEMMA TickEnds ==
    ASSUME SerialState, Tick
    PROVE  /\ InCooldown(club, now') => InCooldown(club, now)
           /\ \A u : Protected(club, u, now') => Protected(club, u, now)
<1>1. now \in Nat /\ now' = now + 1 /\ club.transferredAt \in Nat \cup {NULL}
  BY DEF Tick, SerialState, IInv, TypeOK, Clubs
<1> QED BY <1>1, WindowAssumption DEF InCooldown, Protected

(* What a request has read is still true when only the clock moves.        *)
LEMMA SnapshotTick ==
    ASSUME SerialState, Tick
    PROVE  SnapshotInv'
<1>1. UNCHANGED <<club, status, req>>
  BY DEF Tick
<1>2. ASSUME NEW r \in Reqs, req[r] # NULL
      PROVE  Decided(req[r])'
  BY <1>1, <1>2, TickEnds, Deciding DEF Decided
<1>3. DecidedAll'
  BY <1>1, <1>2 DEF DecidedAll
<1> QED BY <1>1, <1>3, TickEnds DEF SerialState, SnapshotInv, AbsentEmpty, ProtectedSeat

(* The first step of the club, and of a request.                           *)
LEMMA SnapshotCreate ==
    ASSUME SerialState, NEW u \in Users, CreateClub(u)
    PROVE  SnapshotInv'
<1>1. club'.phase = "live" /\ club'.protectedId = NULL /\ UNCHANGED req
  BY DEF CreateClub, NoClub
<1>2. \A x \in Reqs : req'[x] = NULL
  BY <1>1 DEF CreateClub, SerialState, SerialInv, SerialFacts
<1> QED BY <1>1, <1>2 DEF SnapshotInv, AbsentEmpty, ProtectedSeat, DecidedAll

(* A request that has just loaded the club holds the club as it is.        *)
LEMMA SnapshotLoad ==
    ASSUME SerialState, NEW r \in Reqs, NEW call \in Calls, LoadClub(r, call)
    PROVE  SnapshotInv'
<1> DEFINE q == [call |-> call,
                 pc |-> IF call.op = "transfer" THEN "resolve" ELSE "caller",
                 club |-> club, seen |-> NULL, at |-> 0]
<1>1. CASE UNCHANGED vars
  BY <1>1 DEF vars, SerialState, SnapshotInv, AbsentEmpty, ProtectedSeat, InCooldown, Protected,
              DecidedAll, Decided
<1>2. CASE club.phase = "live" /\ Continue(r, q)
  <2>1. Decided(q)
    BY <1>2 DEF Decided
  <2> HIDE DEF q
  <2> QED BY <1>2, <2>1, SnapshotContinue
<1> QED BY <1>1, <1>2 DEF LoadClub

(* With one slot a request's snapshot stays true over every step.          *)
LEMMA SnapshotNext == SerialState /\ [Next]_vars => SnapshotInv'
<1> SUFFICES ASSUME SerialState, [Next]_vars PROVE SnapshotInv'
  OBVIOUS
<1>1. CASE UNCHANGED vars
  BY <1>1 DEF vars, SerialState, SnapshotInv, AbsentEmpty, ProtectedSeat, InCooldown, Protected,
              DecidedAll, Decided
<1> QED
  BY <1>1, SnapshotCreate, SnapshotLoad, SnapshotRead, SnapshotWrite, SnapshotTick DEF Next

(* So a server whose requests do not overlap is always in such a state.    *)
LEMMA SerialInvariance ==
    ASSUME Serial
    PROVE  Spec => []SerialState
<1>1. Init => SerialInv /\ SnapshotInv
  BY DEF Init, NoClub, SerialInv, OwnerPresent, SerialFacts, SnapshotInv, AbsentEmpty, ProtectedSeat,
         DecidedAll
<1>2. IInv /\ SerialInv /\ SnapshotInv /\ [Next]_vars => SerialInv' /\ SnapshotInv'
  BY SerialNext, SnapshotNext DEF SerialState
<1>3. IInv /\ SerialInv /\ SnapshotInv => SerialState
  BY DEF SerialState
<1> QED BY <1>1, <1>2, <1>3, Invariance, PTL DEF Spec
-----------------------------------------------------------------------------
(* What any step of such a server does.                                    *)
LEMMA StepShape ==
    ASSUME SerialState, [Next]_vars
    PROVE  \/ \E r \in Reqs : Effect(r)
           \/ \E u \in Users : CreateClub(u)
           \/ Tick
           \/ UNCHANGED <<club, status, now>>
BY WriteShape, ReadKeeps DEF Next, LoadClub, Continue, vars

(* A former owner under protection keeps an ADMIN's seat or takes the club *)
(* back, and the club is not dissolved.                                    *)
THEOREM FormerOwnerProtected == Serial => (Spec => ProtectionHonoured)
<1> SUFFICES ASSUME Serial PROVE Spec => ProtectionHonoured
  OBVIOUS
<1> DEFINE Honoured == club.protectedId # NULL /\ InCooldown(club, now) =>
                           /\ status'[club.protectedId] \in {"OWNER", "ADMIN"}
                           /\ club'.phase = "live"
<1>1. ASSUME SerialState, [Next]_vars
      PROVE  [Honoured]_vars
  <2> SUFFICES ASSUME club.protectedId # NULL, InCooldown(club, now)
               PROVE  /\ status'[club.protectedId] \in {"OWNER", "ADMIN"}
                      /\ club'.phase = "live"
    OBVIOUS
  <2> DEFINE f == club.protectedId
  <2>1. /\ f \in Users /\ club.phase = "live" /\ status[f] = "ADMIN" /\ TypeOK
    BY <1>1 DEF SerialState, SnapshotInv, ProtectedSeat, IInv, TypeOK, Clubs
  <2>2. ASSUME NEW r \in Reqs, NEW u \in Users, NEW s, RowChanges(r, u, s)
        PROVE  status'[f] = "ADMIN" /\ club'.phase = "live"
    <3>1. u # f
      BY <2>2 DEF RowChanges, Protected
    <3> QED BY <2>1, <2>2, <3>1 DEF RowChanges, TypeOK
  <2>3. ASSUME NEW u \in Users, NEW w \in Users, NEW t \in Nat, HandsOver(u, w, t)
        PROVE  status'[f] \in {"OWNER", "ADMIN"} /\ club'.phase = "live"
    BY <2>1, <2>3 DEF HandsOver, TypeOK
  <2>4. ASSUME NEW u \in Users, NEW w \in Users, TakesBack(u, w)
        PROVE  status'[f] \in {"OWNER", "ADMIN"} /\ club'.phase = "live"
    BY <2>1, <2>4 DEF TakesBack, TypeOK
  <2>5. ~Dissolves /\ \A u \in Users : ~CreateClub(u)
    BY <2>1 DEF Dissolves, CreateClub
  <2>6. ASSUME OwnershipStays \/ Tick \/ UNCHANGED <<club, status, now>>
        PROVE  status'[f] = "ADMIN" /\ club'.phase = "live"
    BY <2>1, <2>6 DEF OwnershipStays, Tick
  <2> QED BY <1>1, <2>2, <2>3, <2>4, <2>5, <2>6, StepShape DEF Effect
<1> QED BY <1>1, SerialInvariance, PTL DEF Spec, ProtectionHonoured

(* A ban is lifted by a direct invitation and by nothing else.             *)
THEOREM BansLast == Serial => (Spec => BanHonoured)
<1> SUFFICES ASSUME Serial PROVE Spec => BanHonoured
  OBVIOUS
<1>1. ASSUME SerialState, [Next]_vars, NEW u \in Users, status[u] = "BANNED", status'[u] # "BANNED"
      PROVE  \/ club'.phase = "dissolved"
             \/ \E r \in Reqs : At(r, {"admitDirect"}, "write") /\ req[r].call.caller = u
  <2>1. ASSUME NEW r \in Reqs, NEW v \in Users, NEW s, RowChanges(r, v, s)
        PROVE  At(r, {"admitDirect"}, "write") /\ req[r].call.caller = u
    BY <1>1, <2>1 DEF RowChanges, SerialState, IInv, TypeOK
  <2>2. CASE Dissolves
    BY <2>2 DEF Dissolves, NoClub
  <2>3. ASSUME NEW v \in Users, NEW w \in Users
        PROVE  ~TakesBack(v, w) /\ \A t \in Nat : ~HandsOver(v, w, t)
    BY <1>1 DEF TakesBack, HandsOver, SerialState, IInv, TypeOK
  <2>4. ~OwnershipStays /\ ~Tick
    BY <1>1 DEF OwnershipStays, Tick
  <2>5. ASSUME NEW v \in Users
        PROVE  ~CreateClub(v)
    BY <1>1 DEF CreateClub, SerialState, SnapshotInv, AbsentEmpty
  <2> QED BY <1>1, <2>1, <2>2, <2>3, <2>4, <2>5, StepShape DEF Effect
<1>2. SerialState /\ [Next]_vars =>
        [\A u \in Users : status[u] = "BANNED" /\ status'[u] # "BANNED" =>
           \/ club'.phase = "dissolved"
           \/ \E r \in Reqs : At(r, {"admitDirect"}, "write") /\ req[r].call.caller = u]_vars
  BY <1>1
<1> QED BY <1>2, SerialInvariance, PTL DEF Spec, BanHonoured
-----------------------------------------------------------------------------
(* The owner the roster names.                                             *)
LEMMA OwnerIs ==
    ASSUME AtMostOneOwner, NEW u \in Users, status[u] = "OWNER"
    PROVE  OwnerOf = u
BY Zenon DEF AtMostOneOwner, OwnerOf

(* The owner of the next state is whoever has the owner's row in it.       *)
LEMMA OwnerIsNext ==
    ASSUME AtMostOneOwner', NEW u \in Users, status'[u] = "OWNER"
    PROVE  OwnerOf' = u
BY Zenon DEF AtMostOneOwner, OwnerOf

(* It changes when the set of owners does, and not else.                   *)
LEMMA OwnerKept ==
    ASSUME AtMostOneOwner, \A v \in Users : status'[v] = "OWNER" <=> status[v] = "OWNER"
    PROVE  OwnerOf' = OwnerOf
<1>1. AtMostOneOwner'
  BY DEF AtMostOneOwner
<1>2. CASE \E u \in Users : status[u] = "OWNER"
  BY <1>1, <1>2, OwnerIs, OwnerIsNext
<1>3. CASE ~\E u \in Users : status[u] = "OWNER"
  BY <1>3, Zenon DEF OwnerOf
<1> QED BY <1>2, <1>3

(* A swap makes the winner the owner.                                      *)
LEMMA OwnerSwaps ==
    ASSUME SerialState, AtMostOneOwner', NEW u \in Users, NEW w \in Users, u # w,
           status[w] = "OWNER", status' = [status EXCEPT ![u] = "OWNER", ![w] = "ADMIN"]
    PROVE  OwnerOf = w /\ OwnerOf' = u
<1>1. status'[u] = "OWNER"
  BY DEF SerialState, IInv, TypeOK
<1> QED BY <1>1, OwnerIs, OwnerIsNext DEF SerialState, IInv

(* Every step of the requests is a step of the ownership, or none.         *)
LEMMA StepRefines ==
    ASSUME SerialState, IInv', [Next]_vars
    PROVE  [Ownership!Next]_(Ownership!vars)
<1>1. /\ AtMostOneOwner /\ AtMostOneOwner' /\ status \in [Users -> MembershipStatus \cup {"NONE"}]
      /\ now \in Nat /\ club \in Clubs
  BY DEF SerialState, IInv, TypeOK
<1>2. ASSUME NEW r \in Reqs, NEW u \in Users, NEW s, RowChanges(r, u, s)
      PROVE  UNCHANGED Ownership!vars
  <2>1. \A v \in Users : status'[v] = "OWNER" <=> status[v] = "OWNER"
    BY <1>1, <1>2 DEF RowChanges
  <2> QED BY <1>1, <1>2, <2>1, OwnerKept DEF RowChanges, Ownership!vars
<1>3. ASSUME Dissolves
      PROVE  Ownership!Dissolve
  <2>1. OwnerOf' = NULL
    BY <1>3, Zenon DEF Dissolves, OwnerOf
  <2>2. club.transferredAt = NULL <=> club.protectedId = NULL
    BY DEF SerialState, IInv, OwnershipRecord
  <2> QED BY <1>3, <2>1, <2>2 DEF Dissolves, NoClub, InCooldown, Ownership!Dissolve, Ownership!CoolingDown
<1>4. ASSUME NEW u \in Users, NEW w \in Users, NEW t \in Nat, HandsOver(u, w, t)
      PROVE  Ownership!HandOver(u)
  <2>1. OwnerOf = w /\ OwnerOf' = u
    BY <1>1, <1>4, OwnerSwaps DEF HandsOver
  <2>2. t \in 0..now
    BY <1>1, <1>4 DEF HandsOver
  <2> QED BY <1>4, <2>1, <2>2
          DEF HandsOver, InCooldown, Ownership!HandOver, Ownership!CoolingDown
<1>5. ASSUME NEW u \in Users, NEW w \in Users, TakesBack(u, w)
      PROVE  Ownership!TakeBack
  <2>1. OwnerOf' = u
    BY <1>1, <1>5, OwnerSwaps DEF TakesBack
  <2>2. u # NULL
    BY NullAssumption
  <2> QED BY <1>5, <2>1, <2>2 DEF TakesBack, Ownership!TakeBack
<1>6. ASSUME OwnershipStays \/ UNCHANGED <<club, status, now>>
      PROVE  UNCHANGED Ownership!vars
  BY <1>1, <1>6, OwnerKept DEF OwnershipStays, Ownership!vars
<1>7. ASSUME Tick
      PROVE  Ownership!Pass
  BY <1>1, <1>7, OwnerKept DEF Tick, Ownership!Pass
<1>8. ASSUME NEW u \in Users, CreateClub(u)
      PROVE  Ownership!Create(u)
  <2>1. club.phase = "absent" /\ status'[u] = "OWNER" /\ UNCHANGED now
    BY <1>1, <1>8 DEF CreateClub
  <2>2. club'.phase = "live" /\ club'.protectedId = NULL /\ club'.transferredAt = NULL
    BY <1>8 DEF CreateClub, NoClub
  <2>3. club.protectedId = NULL /\ club.transferredAt = NULL
    BY <2>1 DEF SerialState, SnapshotInv, ProtectedSeat, IInv, OwnershipRecord
  <2>4. OwnerOf' = u
    BY <1>1, <2>1, OwnerIsNext
  <2> QED BY <2>1, <2>2, <2>3, <2>4 DEF Ownership!Create
<1> QED
  BY <1>2, <1>3, <1>4, <1>5, <1>6, <1>7, <1>8, StepShape DEF Effect, Ownership!Next

(* Requests that do not overlap implement the ownership that ClubOwnership *)
(* promises: one owner from creation to dissolution, atomic hand-overs, a  *)
(* cooldown, and the former owner's way back.                              *)
THEOREM OwnershipImplemented == Serial => (Spec => ImplementsOwnership)
<1> SUFFICES ASSUME Serial PROVE Spec => Ownership!Spec
  BY DEF ImplementsOwnership
<1>1. Init => Ownership!Init
  <2> SUFFICES ASSUME Init PROVE Ownership!Init
    OBVIOUS
  <2>1. OwnerOf = NULL
    BY Zenon DEF Init, OwnerOf
  <2> QED BY <2>1 DEF Init, NoClub, Ownership!Init
<1>2. SerialState /\ SerialState' /\ [Next]_vars => [Ownership!Next]_(Ownership!vars)
  BY StepRefines DEF SerialState
<1> QED BY <1>1, <1>2, SerialInvariance, PTL DEF Spec, Ownership!Spec
=============================================================================
