---------------------------- MODULE InvitesProofs ----------------------------
(***************************************************************************)
(* Proofs about Invites, for any people, any number of invitations and of  *)
(* requests that overtake one another, and any bound on acceptances.       *)
(***************************************************************************)
EXTENDS Invites, FiniteSetTheorems, TLAPS

UseOps == {"accept", "register"}
UseSteps == {"name", "save", "club", "seat", "upsert", "ban", "pending", "usage", "count", "burn"}
IssueSteps == {"found", "role", "registered", "deactivate", "insert"}

(* An invitation that only ages: it may be removed, deactivated, expire or *)
(* be counted, and keeps its type and its target.                          *)
Ages(i) ==
    \/ invites'[i] = invites[i]
    \/ i \in Issued /\ invites'[i] = Gone
    \/ /\ i \in Issued /\ invites'[i] \in Documents
       /\ invites'[i].type = invites[i].type /\ invites'[i].target = invites[i].target
       /\ invites'[i].active => invites[i].active
       /\ invites[i].lapsed => invites'[i].lapsed

(* What holds of a request under way.  A request that uses an invitation   *)
(* names one that was issued, and once it has validated it, one that may   *)
(* seat its caller; it goes no further than the validation if it came too  *)
(* late.  A request about to insert has, unless it was overtaken, left no  *)
(* active invitation to the target.                                        *)
MeantFor(i, u) == i \in Issued /\ invites[i].type = "DIRECT" => invites[i].target.who = u
Cleared(t) == \A i \in Issued : invites[i].active => invites[i].target # t

RequestOK(q) ==
    /\ q.call.op \in UseOps =>
          /\ q.pc \in UseSteps \cup {"validate"}
          /\ invites[q.call.invite] # NULL
          /\ q.pc \in UseSteps => MeantFor(q.call.invite, q.call.user)
          /\ q.late => q.pc = "validate" /\ ~Working(q.call.invite)
    /\ q.call.op \notin UseOps => q.pc \in IssueSteps /\ ~q.late
    /\ q.pc = "insert" /\ ~q.raced => Cleared(q.call.target)

RequestsOK == \A r \in Reqs : req[r] # NULL => RequestOK(req[r])

(* An invitation nobody has issued has seated nobody, and the public links *)
(* are those without a target.                                             *)
Unused == \A i \in Unissued : through[i] = {}
Targeted == \A i \in Issued : invites[i].type = "PUBLIC" <=> invites[i].target = NULL

(* The inductive invariant: the two properties need what the requests in   *)
(* flight have found out, because an invitation may be counted, rotated,   *)
(* burnt or removed between the validation and the seat.                   *)
IInv == /\ TypeOK
        /\ RequestsOK
        /\ Unused
        /\ Targeted
        /\ ForItsTarget
        /\ OneWorkingLink
-----------------------------------------------------------------------------
(* Who is asking, for what.                                                *)
LEMMA CallType ==
    ASSUME NEW c \in Calls
    PROVE  /\ c.user \in Users
           /\ c.op \in UseOps => c.invite \in Ids
           /\ c.op \notin UseOps => c.target \in Targets
BY DEF Calls, IssueCalls, UseCalls, UseOps, Targets

(* The fields of a request.                                                *)
LEMMA RequestType ==
    ASSUME NEW q \in Requests
    PROVE  /\ q.call \in Calls /\ q.late \in BOOLEAN /\ q.raced \in BOOLEAN /\ q.direct \in BOOLEAN
           /\ q.policy \in {"PUBLIC", "RESTRICTED", NULL}
BY DEF Requests

(* A request goes on as a request.                                         *)
LEMMA ThenType ==
    ASSUME NEW q \in Requests, NEW d \in BOOLEAN, NEW p \in {"PUBLIC", "RESTRICTED", NULL},
           NEW pc \in UseSteps \cup IssueSteps \cup {"validate"}
    PROVE  /\ [q EXCEPT !.pc = pc] \in Requests
           /\ [[q EXCEPT !.pc = pc] EXCEPT !.direct = d] \in Requests
           /\ [[q EXCEPT !.pc = pc] EXCEPT !.policy = p] \in Requests
           /\ [q EXCEPT !.raced = TRUE] \in Requests
BY DEF Requests, UseSteps, IssueSteps

(* Issued invitations are documents, and the others are not.               *)
LEMMA IssuedType ==
    ASSUME TypeOK, NEW i \in Ids
    PROVE  /\ i \in Issued <=> invites[i] \in Documents
           /\ i \in Unissued <=> invites[i] = NULL
           /\ invites[i] \in Documents \cup {NULL, Gone}
BY InvitesAssumption DEF TypeOK, Issued, Unissued

(* The fields of an invitation, and the documents the updates make of it.  *)
LEMMA DocumentType ==
    ASSUME NEW d \in Documents
    PROVE  /\ d.type \in InviteType /\ d.target \in Targets /\ d.uses \in Nat
           /\ d.active \in BOOLEAN /\ d.lapsed \in BOOLEAN
           /\ [d EXCEPT !.uses = @ + 1] \in Documents
           /\ [d EXCEPT !.active = FALSE] \in Documents
           /\ [d EXCEPT !.lapsed = TRUE] \in Documents
<1>1. /\ d.type \in InviteType /\ d.target \in Targets /\ d.uses \in Nat
      /\ d.active \in BOOLEAN /\ d.lapsed \in BOOLEAN
  BY DEF Documents
<1>2. [d EXCEPT !.uses = d.uses + 1] \in Documents
  BY <1>1 DEF Documents
<1>3. [d EXCEPT !.active = FALSE] \in Documents
  BY <1>1 DEF Documents
<1>4. [d EXCEPT !.lapsed = TRUE] \in Documents
  BY <1>1 DEF Documents
<1> QED BY <1>1, <1>2, <1>3, <1>4

(* What a request has found out survives everything that can happen to an  *)
(* issued invitation.                                                      *)
LEMMA AgingKeepsRequests ==
    ASSUME TypeOK, NEW q \in Requests, RequestOK(q), \A i \in Ids : Ages(i)
    PROVE  RequestOK(q)'
<1>1. \A i \in Ids : i \in Issued' => /\ i \in Issued
                                      /\ invites'[i].type = invites[i].type
                                      /\ invites'[i].target = invites[i].target
                                      /\ invites'[i].active => invites[i].active
                                      /\ invites[i].lapsed => invites'[i].lapsed
  BY DEF Ages, Issued
<1>2. \A i \in Ids : invites[i] # NULL => invites'[i] # NULL
  BY InvitesAssumption DEF Ages
<1>3. \A i \in Ids : Working(i)' => Working(i)
  BY <1>1 DEF Working, Issued
<1>4. \A i \in Ids, u \in Users : MeantFor(i, u) => MeantFor(i, u)'
  BY <1>1 DEF MeantFor
<1>5. \A t \in Targets : Cleared(t) => Cleared(t)'
  BY <1>1 DEF Cleared, Issued
<1>6. q.call \in Calls
  BY RequestType
<1>7. q.pc = "insert" => q.call.target \in Targets
  BY <1>6, CallType DEF RequestOK, UseSteps
<1> QED BY <1>2, <1>3, <1>4, <1>5, <1>6, <1>7, CallType DEF RequestOK

(* Being overtaken leaves a request as it is otherwise.                    *)
LEMMA RacedOK ==
    ASSUME NEW q \in Requests, RequestOK(q)
    PROVE  [q EXCEPT !.raced = TRUE] \in Requests /\ RequestOK([q EXCEPT !.raced = TRUE])
<1>1. [q EXCEPT !.raced = TRUE] \in Requests
  BY DEF Requests
<1>2. LET p == [q EXCEPT !.raced = TRUE]
      IN  p.call = q.call /\ p.pc = q.pc /\ p.late = q.late /\ p.raced = TRUE
  BY DEF Requests
<1> QED BY <1>1, <1>2 DEF RequestOK

(* The invitations stay coherent when they only age.                       *)
LEMMA AgingKeepsInvites ==
    ASSUME TypeOK, Unused, Targeted, ForItsTarget, OneWorkingLink,
           \A i \in Ids : Ages(i), UNCHANGED through, serial' => serial
    PROVE  Unused' /\ Targeted' /\ ForItsTarget' /\ OneWorkingLink'
<1>1. \A i \in Ids : i \in Issued' => /\ i \in Issued
                                      /\ invites'[i].type = invites[i].type
                                      /\ invites'[i].target = invites[i].target
                                      /\ invites'[i].active => invites[i].active
  BY DEF Ages, Issued
<1>2. \A i \in Ids : i \in Unissued' => i \in Unissued
  BY InvitesAssumption DEF Ages, Unissued
<1>3. Issued' \subseteq Ids /\ Unissued' \subseteq Ids
  BY DEF Issued, Unissued
<1>4. Unused'
  BY <1>2, <1>3 DEF Unused
<1>5. Targeted' /\ ForItsTarget'
  BY <1>1, <1>3 DEF Targeted, ForItsTarget
<1>6. OneWorkingLink'
  BY <1>1, <1>3 DEF OneWorkingLink
<1> QED BY <1>4, <1>5, <1>6

(* Going on to the next call, or answering, without a write.               *)
LEMMA ContinueEffect ==
    ASSUME IInv, NEW r \in Reqs, NEW q, q # NULL => q \in Requests /\ RequestOK(q), Continue(r, q)
    PROVE  IInv'
<1>1. /\ req' = [req EXCEPT ![r] = q]
      /\ UNCHANGED <<club, seat, accounts, invites, through, grants, workload, serial>>
  BY DEF Continue, data
<1>2. TypeOK'
  BY <1>1 DEF IInv, TypeOK
<1>3. \A p : RequestOK(p) => RequestOK(p)'
  BY <1>1 DEF RequestOK, MeantFor, Cleared, Working, Issued
<1>4. RequestsOK'
  BY <1>1, <1>3 DEF IInv, TypeOK, RequestsOK
<1>5. \A i \in Ids : Ages(i)
  BY <1>1 DEF Ages
<1> QED BY <1>1, <1>2, <1>4, <1>5, AgingKeepsInvites DEF IInv

(* The requests after a write that leaves the invitations or ages them.    *)
LEMMA WroteRequests ==
    ASSUME IInv, NEW r \in Reqs, NEW q, Wrote(r, q), \A i \in Ids : Ages(i),
           q # NULL => q \in Requests /\ (RequestOK(q) \/ RequestOK(q)')
    PROVE  /\ req' \in [Reqs -> Requests \cup {NULL}] /\ RequestsOK'
           /\ serial' \in BOOLEAN /\ (serial' => serial) /\ UNCHANGED workload
<1> DEFINE raced(s) == [req[s] EXCEPT !.raced = TRUE]
<1>1. \A s \in Reqs : req'[s] = IF s = r THEN q ELSE IF req[s] = NULL THEN NULL ELSE raced(s)
  BY DEF Wrote
<1>2. ASSUME NEW s \in Reqs, s # r, req[s] # NULL
      PROVE  raced(s) \in Requests /\ RequestOK(raced(s))
  BY <1>2, RacedOK DEF IInv, TypeOK, RequestsOK
<1>3. \A s \in Reqs : req'[s] # NULL => req'[s] \in Requests
  BY <1>1, <1>2
<1>4. req' \in [Reqs -> Requests \cup {NULL}]
  <2>1. req' = [s \in Reqs |-> req'[s]]
    BY DEF Wrote
  <2> QED BY <1>3, <2>1
<1>5. RequestsOK'
  <2> SUFFICES ASSUME NEW s \in Reqs, req'[s] # NULL PROVE RequestOK(req[s])'
    BY DEF RequestsOK
  <2>1. PICK p \in Requests : p = req'[s]
    BY <1>3
  <2>2. RequestOK(p) \/ RequestOK(p)'
    BY <1>1, <1>2, <2>1
  <2>3. RequestOK(p)'
    BY <2>2, AgingKeepsRequests DEF IInv
  <2> QED BY <2>1, <2>3 DEF RequestOK, MeantFor, Cleared, Working, Issued
<1> QED BY <1>4, <1>5, RequestType DEF Wrote, IInv, TypeOK

(* A write to the invitations that only ages them.                         *)
LEMMA WroteInvitesEffect ==
    ASSUME IInv, NEW r \in Reqs, NEW q, WroteInvites(r, q), \A i \in Ids : Ages(i),
           DOMAIN invites' = Ids, invites' = [i \in Ids |-> invites'[i]],
           q # NULL => q \in Requests /\ (RequestOK(q) \/ RequestOK(q)')
    PROVE  IInv'
<1>1. Wrote(r, q) /\ UNCHANGED <<club, seat, accounts, through, grants>>
  BY DEF WroteInvites, histories
<1>2. /\ req' \in [Reqs -> Requests \cup {NULL}] /\ RequestsOK'
      /\ serial' \in BOOLEAN /\ (serial' => serial) /\ UNCHANGED workload
  BY <1>1, WroteRequests
<1>3. \A i \in Ids : invites'[i] \in Documents \cup {NULL, Gone}
  BY IssuedType DEF Ages, IInv
<1>4. invites' \in [Ids -> Documents \cup {NULL, Gone}]
  BY <1>3
<1>5. TypeOK'
  BY <1>1, <1>2, <1>4 DEF IInv, TypeOK
<1> QED BY <1>1, <1>2, <1>5, AgingKeepsInvites DEF IInv

(* A write that leaves the invitations alone: accounts, the club, seats.   *)
LEMMA WroteOthersEffect ==
    ASSUME IInv, NEW r \in Reqs, NEW q, Wrote(r, q),
           UNCHANGED <<invites, through, grants>>,
           club' \in [phase : {"absent", "live", "dissolved"}, policy : {"PUBLIC", "RESTRICTED"}],
           seat' \in [Users -> Seats], accounts' \subseteq Users,
           q # NULL => q \in Requests /\ RequestOK(q)
    PROVE  IInv'
<1>1. \A i \in Ids : Ages(i)
  BY DEF Ages
<1>2. /\ req' \in [Reqs -> Requests \cup {NULL}] /\ RequestsOK'
      /\ serial' \in BOOLEAN /\ (serial' => serial) /\ UNCHANGED workload
  BY <1>1, WroteRequests
<1>3. TypeOK'
  BY <1>2 DEF IInv, TypeOK
<1> QED BY <1>1, <1>2, <1>3, AgingKeepsInvites DEF IInv

(* What the steps know of the request they serve.                          *)
LEMMA Serves ==
    ASSUME IInv, NEW r \in Reqs, req[r] # NULL
    PROVE  /\ req[r] \in Requests /\ RequestOK(req[r])
           /\ Caller(r) \in Users
           /\ req[r].call.op \in UseOps => Invite(r) \in Ids
           /\ req[r].call.op \notin UseOps => req[r].call.target \in Targets
           /\ req[r].pc \in IssueSteps => req[r].call.op \notin UseOps
           /\ req[r].pc \in UseSteps \cup {"validate"} => req[r].call.op \in UseOps
<1>1. req[r] \in Requests /\ RequestOK(req[r])
  BY DEF IInv, TypeOK, RequestsOK
<1> QED BY <1>1, RequestType, CallType DEF Caller, Invite, RequestOK, UseSteps, IssueSteps

(* Going on to the next step of the use of an invitation, or of its issue. *)
LEMMA ThenOK ==
    ASSUME IInv, NEW r \in Reqs, req[r] # NULL, NEW pc,
           NEW d \in BOOLEAN, NEW p \in {"PUBLIC", "RESTRICTED", NULL},
           \/ req[r].pc \in UseSteps /\ pc \in UseSteps
           \/ req[r].pc \in IssueSteps /\ pc \in IssueSteps \ {"insert"}
    PROVE  /\ Then(r, pc) \in Requests /\ RequestOK(Then(r, pc))
           /\ [Then(r, pc) EXCEPT !.direct = d] \in Requests
           /\ RequestOK([Then(r, pc) EXCEPT !.direct = d])
           /\ [Then(r, pc) EXCEPT !.policy = p] \in Requests
           /\ RequestOK([Then(r, pc) EXCEPT !.policy = p])
<1>1. /\ Then(r, pc) \in Requests /\ [Then(r, pc) EXCEPT !.direct = d] \in Requests
      /\ [Then(r, pc) EXCEPT !.policy = p] \in Requests
  BY Serves, ThenType DEF Then
<1>2. \A q \in {Then(r, pc), [Then(r, pc) EXCEPT !.direct = d], [Then(r, pc) EXCEPT !.policy = p]} :
         q.call = req[r].call /\ q.pc = pc /\ q.late = req[r].late /\ q.raced = req[r].raced
  BY Serves DEF Then, Requests
<1>3. RequestOK(req[r])
  BY Serves
<1>4. \A q \in {Then(r, pc), [Then(r, pc) EXCEPT !.direct = d], [Then(r, pc) EXCEPT !.policy = p]} :
         RequestOK(q)
  BY <1>2, <1>3 DEF RequestOK, UseSteps, IssueSteps
<1> QED BY <1>1, <1>4

(* Answering, and going on after a check.                                  *)
LEMMA AnswerEffect ==
    ASSUME IInv, NEW r \in Reqs, Answer(r)
    PROVE  IInv'
BY ContinueEffect DEF Answer

(* Going on if a check allows it.                                          *)
LEMMA GoToIfEffect ==
    ASSUME IInv, NEW r \in Reqs, req[r] # NULL, NEW ok, NEW pc, GoToIf(ok, r, pc),
           \/ req[r].pc \in UseSteps /\ pc \in UseSteps
           \/ req[r].pc \in IssueSteps /\ pc \in IssueSteps \ {"insert"}
    PROVE  IInv'
<1>1. Then(r, pc) \in Requests /\ RequestOK(Then(r, pc))
  BY ThenOK
<1>2. CASE GoTo(r, pc)
  BY <1>1, <1>2, ContinueEffect DEF GoTo, Then
<1> QED BY <1>2, AnswerEffect DEF GoToIf

(* The validation lets a request go on that came in time and whose caller  *)
(* the invitation is for.                                                  *)
LEMMA ValidateEffect ==
    ASSUME IInv, NEW r \in Reqs, ValidateInvite(r)
    PROVE  IInv'
<1> DEFINE i == Invite(r)
           q == [Then(r, "name") EXCEPT !.direct = invites[i].type = "DIRECT"]
<1>1. req[r] # NULL /\ req[r].pc = "validate"
  BY DEF ValidateInvite, At
<1>2. CASE Answer(r)
  BY <1>2, AnswerEffect
<1>3. CASE Working(i) /\ IdentityMatches(invites[i], req[r].call) /\ Continue(r, q)
  <2>1. req[r] \in Requests /\ RequestOK(req[r]) /\ req[r].call.op \in UseOps
    BY <1>1, Serves
  <2>2. q \in Requests
    <3>1. (invites[i].type = "DIRECT") \in BOOLEAN
      OBVIOUS
    <3> QED BY <2>1, <3>1, ThenType DEF Then, UseSteps
  <2>3. q.call = req[r].call /\ q.pc = "name" /\ q.late = req[r].late
    BY <2>1 DEF Then, Requests
  <2>4. MeantFor(i, req[r].call.user)
    BY <1>3 DEF MeantFor, IdentityMatches, Identities
  <2>5. ~req[r].late
    BY <1>3, <2>1 DEF RequestOK, Invite
  <2>6. RequestOK(q)
    BY <2>1, <2>3, <2>4, <2>5 DEF RequestOK, UseSteps, Invite
  <2> QED BY <1>3, <2>2, <2>6, ContinueEffect
<1> QED BY <1>2, <1>3 DEF ValidateInvite

(* The other steps that only read.                                         *)
LEMMA ReadEffect ==
    ASSUME IInv, NEW r \in Reqs,
           \/ VerifyPrivilegedRole(r) \/ ExistsByEmail(r) \/ FindClubName(r) \/ FindClub(r)
           \/ ExistsMember(r) \/ ExistsBanned(r) \/ FindUsed(r)
    PROVE  IInv'
<1>1. CASE ExistsByEmail(r)
  BY <1>1, GoToIfEffect DEF ExistsByEmail, At, IssueSteps
<1>2. CASE FindClubName(r)
  BY <1>2, GoToIfEffect DEF FindClubName, At, UseSteps
<1>3. CASE FindClub(r)
  <2>1. req[r] # NULL /\ req[r].pc = "club"
    BY <1>3 DEF FindClub, At
  <2>2. PICK p \in {"PUBLIC", "RESTRICTED", NULL} : p = IF req[r].direct THEN NULL ELSE club.policy
    BY DEF IInv, TypeOK
  <2>3. CASE Continue(r, [Then(r, "seat") EXCEPT !.policy = p])
    BY <2>1, <2>3, ThenOK, ContinueEffect DEF UseSteps
  <2> QED BY <1>3, <2>2, <2>3, AnswerEffect DEF FindClub
<1>4. CASE ExistsMember(r)
  BY <1>4, GoToIfEffect DEF ExistsMember, At, UseSteps
<1>5. CASE ExistsBanned(r)
  BY <1>5, GoToIfEffect DEF ExistsBanned, At, UseSteps
<1>6. CASE FindUsed(r)
  BY <1>6, GoToIfEffect DEF FindUsed, At, UseSteps
<1>7. CASE VerifyPrivilegedRole(r)
  BY <1>7, GoToIfEffect DEF VerifyPrivilegedRole, At, IssueSteps
<1> QED BY <1>1, <1>2, <1>3, <1>4, <1>5, <1>6, <1>7

(* The club's creation and the account of a registration.                  *)
LEMMA CreateEffect ==
    ASSUME IInv, NEW r \in Reqs, CreateClub(r)
    PROVE  IInv'
<1>1. /\ req[r] # NULL /\ req[r].pc = "found"
      /\ club' = [club EXCEPT !.phase = "live"]
      /\ seat' = [seat EXCEPT ![Caller(r)] = "OWNER"]
      /\ Wrote(r, Then(r, "role")) /\ UNCHANGED <<accounts, invites, through, grants>>
  BY DEF CreateClub, At, histories
<1>2. Then(r, "role") \in Requests /\ RequestOK(Then(r, "role"))
  BY <1>1, ThenOK DEF IssueSteps
<1>3. /\ club' \in [phase : {"absent", "live", "dissolved"}, policy : {"PUBLIC", "RESTRICTED"}]
      /\ seat' \in [Users -> Seats] /\ accounts' \subseteq Users
  BY <1>1 DEF IInv, TypeOK, Seats, Members, Staff
<1> QED BY <1>1, <1>2, <1>3, WroteOthersEffect

(* The account a registration makes.                                       *)
LEMMA SaveEffect ==
    ASSUME IInv, NEW r \in Reqs, SaveAccount(r)
    PROVE  IInv'
<1>1. req[r] # NULL /\ req[r].pc = "save"
  BY DEF SaveAccount, At
<1>2. CASE Answer(r)
  BY <1>2, AnswerEffect
<1>3. CASE ~Answer(r)
  <2>1. /\ accounts' = accounts \cup {Caller(r)} /\ Wrote(r, Then(r, "club"))
        /\ UNCHANGED <<club, seat, invites, through, grants>>
    BY <1>3 DEF SaveAccount, histories
  <2>2. Then(r, "club") \in Requests /\ RequestOK(Then(r, "club"))
    BY <1>1, ThenOK DEF UseSteps
  <2>3. /\ club' \in [phase : {"absent", "live", "dissolved"}, policy : {"PUBLIC", "RESTRICTED"}]
        /\ seat' \in [Users -> Seats] /\ accounts' \subseteq Users
    BY <1>1, <2>1, Serves DEF IInv, TypeOK
  <2> QED BY <2>1, <2>2, <2>3, WroteOthersEffect
<1> QED BY <1>2, <1>3

(* A seat, or a place on the waiting list, given by an invitation that the *)
(* request has validated.                                                  *)
LEMMA GrantsEffect ==
    ASSUME IInv, NEW r \in Reqs, req[r] # NULL, req[r].pc \in {"upsert", "pending"},
           NEW s \in {"MEMBER", "PENDING"}, Grants(r, s)
    PROVE  IInv'
<1> DEFINE u == Caller(r)  i == Invite(r)
           q == [Then(r, "usage") EXCEPT !.policy = NULL]
<1>1. /\ seat' = [seat EXCEPT ![u] = s]
      /\ through' = [through EXCEPT ![i] = @ \cup {u}] /\ grants' = [grants EXCEPT ![i] = @ + 1]
      /\ Wrote(r, q) /\ UNCHANGED <<club, accounts, invites>>
  BY DEF Grants
<1>2. /\ u \in Users /\ i \in Ids /\ invites[i] # NULL /\ MeantFor(i, u)
  BY Serves DEF UseSteps, RequestOK, Invite, Caller
<1>3. q \in Requests /\ RequestOK(q)
  BY ThenOK DEF UseSteps
<1>4. \A j \in Ids : Ages(j)
  BY <1>1 DEF Ages
<1> HIDE DEF q, u, i
<1>5. /\ req' \in [Reqs -> Requests \cup {NULL}] /\ RequestsOK'
      /\ serial' \in BOOLEAN /\ (serial' => serial) /\ UNCHANGED workload
  BY <1>1, <1>3, <1>4, WroteRequests
<1>6. TypeOK'
  BY <1>1, <1>2, <1>5 DEF IInv, TypeOK, Seats, Members, Staff
<1>7. Unused'
  BY <1>1, <1>2 DEF IInv, TypeOK, Unused, Unissued
<1>8. Targeted' /\ OneWorkingLink'
  BY <1>1, <1>5 DEF IInv, Targeted, OneWorkingLink, Issued
<1>9. ForItsTarget'
  BY <1>1, <1>2 DEF IInv, TypeOK, ForItsTarget, MeantFor, Issued
<1> QED BY <1>5, <1>6, <1>7, <1>8, <1>9 DEF IInv

(* One invitation is counted, deactivated or found to have expired.        *)
LEMMA UpdateAges ==
    ASSUME TypeOK, NEW j \in Ids,
           \/ UNCHANGED invites
           \/ /\ j \in Issued
              /\ \/ invites' = [invites EXCEPT ![j] = [invites[j] EXCEPT !.uses = @ + 1]]
                 \/ invites' = [invites EXCEPT ![j] = [invites[j] EXCEPT !.active = FALSE]]
                 \/ invites' = [invites EXCEPT ![j] = [invites[j] EXCEPT !.lapsed = TRUE]]
                 \/ invites' = [invites EXCEPT ![j] = Gone]
    PROVE  (\A i \in Ids : Ages(i)) /\ invites' = [i \in Ids |-> invites'[i]] /\ DOMAIN invites' = Ids
<1>1. invites' = [i \in Ids |-> invites'[i]] /\ DOMAIN invites' = Ids
  BY DEF TypeOK
<1>2. ASSUME j \in Issued
      PROVE  /\ invites[j] \in Documents
             /\ \A d \in {[invites[j] EXCEPT !.uses = @ + 1], [invites[j] EXCEPT !.active = FALSE],
                          [invites[j] EXCEPT !.lapsed = TRUE]} :
                   /\ d \in Documents /\ d.type = invites[j].type /\ d.target = invites[j].target
                   /\ d.active => invites[j].active
                   /\ invites[j].lapsed => d.lapsed
  <2>1. invites[j] \in Documents
    BY <1>2, IssuedType
  <2> QED BY <2>1, DocumentType DEF Documents
<1>3. \A i \in Ids \ {j} : invites'[i] = invites[i]
  BY DEF TypeOK
<1>4. Ages(j)
  BY <1>2 DEF TypeOK, Ages
<1> QED BY <1>1, <1>3, <1>4 DEF Ages

(* Counting a use, and burning a direct invitation.                        *)
LEMMA UsageAges ==
    ASSUME IInv, NEW r \in Reqs, IncrementUses(r) \/ DeactivateUsed(r)
    PROVE  (\A i \in Ids : Ages(i)) /\ invites' = [i \in Ids |-> invites'[i]] /\ DOMAIN invites' = Ids
<1>1. Invite(r) \in Ids
  BY Serves DEF IncrementUses, DeactivateUsed, At, UseSteps
<1>2. \/ UNCHANGED invites
      \/ /\ Invite(r) \in Issued
         /\ \/ invites' = [invites EXCEPT ![Invite(r)] = [invites[Invite(r)] EXCEPT !.uses = @ + 1]]
            \/ invites' = [invites EXCEPT ![Invite(r)] = [invites[Invite(r)] EXCEPT !.active = FALSE]]
  BY DEF IncrementUses, DeactivateUsed, IInv, TypeOK
<1> QED BY <1>1, <1>2, UpdateAges DEF IInv

(* Neither does more than age an invitation, so the invariant stays.       *)
LEMMA UsageEffect ==
    ASSUME IInv, NEW r \in Reqs, IncrementUses(r) \/ DeactivateUsed(r)
    PROVE  IInv'
<1>1. CASE IncrementUses(r)
  <2>1. req[r] # NULL /\ req[r].pc = "count"
    BY <1>1 DEF IncrementUses, At
  <2>2. PICK q : /\ q = IF req[r].direct THEN Then(r, "burn") ELSE NULL
                 /\ WroteInvites(r, q)
    BY <1>1 DEF IncrementUses
  <2>3. q # NULL => q \in Requests /\ RequestOK(q)
    BY <2>1, <2>2, ThenOK DEF UseSteps
  <2> QED BY <1>1, <2>2, <2>3, UsageAges, WroteInvitesEffect
<1>2. CASE DeactivateUsed(r)
  BY <1>2, UsageAges, WroteInvitesEffect DEF DeactivateUsed
<1> QED BY <1>1, <1>2

(* A rotation deactivates the invitations to its target.                   *)
LEMMA DeactivateAges ==
    ASSUME IInv, NEW r \in Reqs, DeactivateAll(r), NEW i \in Ids
    PROVE  /\ Ages(i)
           /\ IF i \in Issued /\ SameTarget(invites[i], req[r].call)
              THEN invites'[i].active = FALSE ELSE invites'[i] = invites[i]
<1> DEFINE of == i \in Issued /\ SameTarget(invites[i], req[r].call)
<1>1. invites'[i] = IF of THEN [invites[i] EXCEPT !.active = FALSE] ELSE invites[i]
  BY DEF DeactivateAll
<1>2. CASE ~of
  BY <1>1, <1>2 DEF Ages
<1>3. CASE of
  <2>1. PICK d \in Documents : d = invites[i]
    BY <1>3, IssuedType DEF IInv
  <2>2. invites'[i] = [d EXCEPT !.active = FALSE]
    BY <1>1, <1>3, <2>1
  <2>3. invites'[i] \in Documents
    BY <2>2, DocumentType
  <2>4. /\ invites'[i].active = FALSE /\ invites'[i].type = d.type
        /\ invites'[i].target = d.target /\ invites'[i].lapsed = d.lapsed
    BY <2>2 DEF Documents
  <2> QED BY <1>3, <2>1, <2>3, <2>4 DEF Ages
<1> QED BY <1>2, <1>3

(* So a request that is not overtaken inserts where nothing is active.     *)
LEMMA DeactivateEffect ==
    ASSUME IInv, NEW r \in Reqs, DeactivateAll(r)
    PROVE  IInv'
<1>1. req[r] # NULL /\ req[r].pc = "deactivate" /\ WroteInvites(r, Then(r, "insert"))
  BY DEF DeactivateAll, At
<1>2. /\ req[r] \in Requests /\ RequestOK(req[r]) /\ req[r].call.op \notin UseOps
      /\ req[r].call.target \in Targets
  BY <1>1, Serves DEF IssueSteps
<1>4. \A i \in Ids : Ages(i)
  BY DeactivateAges
<1>5. DOMAIN invites' = Ids /\ invites' = [i \in Ids |-> invites'[i]]
  BY DEF DeactivateAll
<1>6. PICK q \in Requests : q = Then(r, "insert")
  BY <1>2, ThenType DEF Then, IssueSteps
<1>7. q.call = req[r].call /\ q.pc = "insert" /\ q.late = req[r].late /\ q.raced = req[r].raced
  BY <1>2, <1>6 DEF Then, Requests
<1>8. Cleared(q.call.target)'
  <2> SUFFICES ASSUME NEW i \in Ids, i \in Issued', invites'[i].active
               PROVE  invites'[i].target # q.call.target
    BY DEF Cleared, Issued
  <2>1. i \in Issued
    BY <1>4 DEF Ages, Issued
  <2>2. invites[i] \in Documents /\ (invites[i].type = "PUBLIC" <=> invites[i].target = NULL)
    BY <2>1, IssuedType DEF IInv, Targeted
  <2>3. invites'[i] = invites[i]
    BY <2>1, DeactivateAges
  <2>4. ~SameTarget(invites[i], req[r].call)
    BY <2>1, DeactivateAges
  <2>5. invites[i].type \in {"PUBLIC", "DIRECT"}
    BY <2>2, DocumentType DEF InviteType
  <2>6. invites[i].target # req[r].call.target
    BY <2>2, <2>4, <2>5 DEF SameTarget
  <2> QED BY <1>7, <2>3, <2>6
<1>9. RequestOK(q)'
  BY <1>2, <1>7, <1>8 DEF RequestOK, IssueSteps
<1> QED BY <1>1, <1>4, <1>5, <1>6, <1>9, WroteInvitesEffect

(* The insert: of a request that was not overtaken, it is the only active  *)
(* invitation to its target; nobody has used it yet.                       *)
LEMMA InsertEffect ==
    ASSUME IInv, NEW r \in Reqs, InsertInvite(r)
    PROVE  IInv'
<1>1. /\ req[r] # NULL /\ req[r].pc = "insert" /\ Wrote(r, NULL)
      /\ UNCHANGED <<club, seat, accounts, through, grants>>
  BY DEF InsertInvite, At, WroteInvites, histories
<1>2. /\ req[r] \in Requests /\ RequestOK(req[r]) /\ req[r].call.target \in Targets
  BY <1>1, Serves DEF IssueSteps
<1> DEFINE t == req[r].call.target
           doc == [type |-> IF t = NULL THEN "PUBLIC" ELSE "DIRECT", target |-> t, uses |-> 0,
                   active |-> TRUE, lapsed |-> FALSE]
<1>3. PICK k \in Ids : k \in Unissued /\ invites' = [invites EXCEPT ![k] = doc]
  BY DEF InsertInvite, Unissued
<1>4. doc \in Documents
  BY <1>2 DEF Documents, InviteType
<1>5. invites[k] = NULL /\ through[k] = {}
  BY <1>3 DEF Unissued, IInv, Unused
<1>6. /\ invites' \in [Ids -> Documents \cup {NULL, Gone}] /\ invites'[k] = doc
      /\ \A i \in Ids \ {k} : invites'[i] = invites[i]
  BY <1>3, <1>4 DEF IInv, TypeOK
<1>7. doc.type = (IF t = NULL THEN "PUBLIC" ELSE "DIRECT") /\ doc.target = t /\ doc.active
  OBVIOUS
<1> HIDE DEF doc
<1>8. \A i \in Ids : i \in Issued' <=> i \in Issued \/ i = k
  BY <1>4, <1>5, <1>6, InvitesAssumption DEF Issued
<1>9. ASSUME NEW s \in Reqs, s # r, req[s] # NULL
      PROVE  req'[s] \in Requests /\ RequestOK(req[s])'
  <2>1. req'[s] = [req[s] EXCEPT !.raced = TRUE]
    BY <1>1, <1>9 DEF Wrote
  <2>2. req[s] \in Requests /\ RequestOK(req[s])
    BY <1>9, Serves
  <2>3. req'[s] \in Requests /\ RequestOK(req'[s]) /\ req'[s].raced
    BY <2>1, <2>2, RacedOK DEF Requests
  <2>4. PICK p \in Requests : p = req'[s] /\ RequestOK(p) /\ p.raced
    BY <2>3
  <2>5. p.call.op \in UseOps => p.call.invite \in Ids \ {k} /\ p.call.user \in Users
    BY <1>5, <2>4, RequestType, CallType DEF RequestOK
  <2>6. \A i \in Ids \ {k}, u \in Users :
            /\ MeantFor(i, u) => MeantFor(i, u)'
            /\ Working(i)' => Working(i)
    BY <1>6, <1>8 DEF MeantFor, Working
  <2>7. RequestOK(p)'
    BY <1>6, <2>4, <2>5, <2>6 DEF RequestOK
  <2> QED BY <2>3, <2>4, <2>7 DEF RequestOK, MeantFor, Cleared, Working, Issued
<1>10. RequestsOK' /\ req' \in [Reqs -> Requests \cup {NULL}]
  <2>1. \A s \in Reqs : req'[s] = NULL \/ (req'[s] \in Requests /\ RequestOK(req[s])')
    BY <1>1, <1>9 DEF Wrote
  <2>2. req' = [s \in Reqs |-> req'[s]]
    BY <1>1 DEF Wrote
  <2> QED BY <2>1, <2>2 DEF RequestsOK
<1>11. serial' = (serial /\ ~req[r].raced) /\ UNCHANGED workload
  BY <1>1 DEF Wrote
<1>12. TypeOK'
  BY <1>1, <1>6, <1>10, <1>11 DEF IInv, TypeOK
<1>13. Unused' /\ Targeted' /\ ForItsTarget'
  <2>1. Unused'
    BY <1>1, <1>5, <1>6 DEF IInv, Unused, Unissued
  <2>2. Targeted'
    BY <1>6, <1>7, <1>8 DEF IInv, Targeted, Issued
  <2>3. ForItsTarget'
    BY <1>1, <1>5, <1>6, <1>8 DEF IInv, ForItsTarget, Issued
  <2> QED BY <2>1, <2>2, <2>3
<1>14. OneWorkingLink'
  <2>1. CASE serial /\ ~req[r].raced
    <3>1. Cleared(t)
      BY <1>1, <1>2, <2>1 DEF RequestOK
    <3> QED BY <1>6, <1>7, <1>8, <2>1, <3>1 DEF IInv, OneWorkingLink, Cleared, Issued
  <2> QED BY <1>11, <2>1 DEF OneWorkingLink
<1> QED BY <1>10, <1>12, <1>13, <1>14 DEF IInv

(* A request that arrives for a working invitation is in time; one that    *)
(* arrives for another is late, and stays so.                              *)
LEMMA ArriveEffect ==
    ASSUME IInv, NEW r \in Reqs, NEW call \in Calls, Arrive(r, call)
    PROVE  IInv'
<1>1. PICK pc, late, q :
         /\ pc = CASE call.op = "createClub" -> "found"
                   [] call.op \in UseOps -> "validate"
                   [] OTHER -> "role"
         /\ late = (call.op \in UseOps /\ ~Working(call.invite))
         /\ q = [call |-> call, pc |-> pc, direct |-> FALSE, policy |-> NULL, raced |-> FALSE,
                 late |-> late]
         /\ Continue(r, q)
  BY DEF Arrive, UseOps
<1>2. late \in BOOLEAN
  BY <1>1
<1>3. pc = IF call.op = "createClub" THEN "found" ELSE IF call.op \in UseOps THEN "validate" ELSE "role"
  BY <1>1 DEF UseOps
<1>4. q \in Requests
  BY <1>1, <1>2, <1>3 DEF Requests
<1>5. call.op \in UseOps => invites[call.invite] # NULL
  BY DEF Arrive, UseOps
<1>6. RequestOK(q)
  BY <1>1, <1>3, <1>5 DEF RequestOK, UseOps, UseSteps, IssueSteps
<1> QED BY <1>1, <1>4, <1>6, ContinueEffect

(* The environment: it ages invitations and changes seats.                 *)
Environment ==
    \/ \E i \in Ids : Lapse(i) \/ Expire(i)
    \/ \E u \in Users, s \in Seats : Moderate(u, s)
    \/ Dissolve
    \/ UNCHANGED vars

(* The clock, the TTL index, moderators and the club's dissolution only    *)
(* age invitations: none comes back.                                       *)
LEMMA EnvironmentAges ==
    ASSUME IInv, Environment
    PROVE  (\A j \in Ids : Ages(j)) /\ invites' = [j \in Ids |-> invites'[j]]
<1>1. CASE UNCHANGED invites
  BY <1>1 DEF Ages, IInv, TypeOK
<1>2. ASSUME NEW i \in Ids, Lapse(i) \/ Expire(i)
      PROVE  (\A j \in Ids : Ages(j)) /\ invites' = [j \in Ids |-> invites'[j]]
  <2>1. /\ i \in Issued
        /\ \/ invites' = [invites EXCEPT ![i] = [invites[i] EXCEPT !.lapsed = TRUE]]
           \/ invites' = [invites EXCEPT ![i] = Gone]
    BY <1>2 DEF Lapse, Expire
  <2> QED BY <2>1, UpdateAges DEF IInv
<1> QED BY <1>1, <1>2 DEF Environment, Moderate, Dissolve, vars

(* The environment leaves the requests alone, and they stay good.          *)
LEMMA EnvironmentEffect ==
    ASSUME IInv, Environment
    PROVE  IInv'
<1>1. UNCHANGED <<accounts, req, through, grants, workload, serial>>
  BY DEF Environment, Lapse, Expire, Moderate, Dissolve, vars, histories
<1>2. (\A j \in Ids : Ages(j)) /\ invites' = [j \in Ids |-> invites'[j]]
  BY EnvironmentAges
<1>3. \A j \in Ids : invites'[j] \in Documents \cup {NULL, Gone}
  BY <1>2, IssuedType DEF Ages, IInv
<1>4. /\ club' \in [phase : {"absent", "live", "dissolved"}, policy : {"PUBLIC", "RESTRICTED"}]
      /\ seat' \in [Users -> Seats]
  BY DEF IInv, TypeOK, Environment, Lapse, Expire, Moderate, Dissolve, vars, Seats
<1>5. TypeOK'
  BY <1>1, <1>2, <1>3, <1>4 DEF IInv, TypeOK
<1>6. RequestsOK'
  <2> SUFFICES ASSUME NEW r \in Reqs, req[r] # NULL PROVE RequestOK(req[r])'
    BY <1>1 DEF RequestsOK
  <2>1. PICK p \in Requests : p = req[r] /\ RequestOK(p)
    BY Serves
  <2>2. RequestOK(p)'
    BY <1>2, <2>1, AgingKeepsRequests DEF IInv
  <2> QED BY <1>1, <2>1, <2>2 DEF RequestOK, MeantFor, Cleared, Working, Issued
<1> QED BY <1>1, <1>2, <1>5, <1>6, AgingKeepsInvites DEF IInv

(* Every step of a request keeps the invariant.                            *)
LEMMA StepEffect ==
    ASSUME IInv, NEW r \in Reqs, Step(r)
    PROVE  IInv'
<1>1. CASE UpsertMember(r) \/ CreatePendingRequest(r)
  BY <1>1, GrantsEffect, AnswerEffect DEF UpsertMember, CreatePendingRequest, At
<1> QED
  BY <1>1, CreateEffect, ReadEffect, DeactivateEffect, InsertEffect, ValidateEffect, SaveEffect,
     UsageEffect DEF Step

(* Every step keeps the invariant.                                         *)
LEMMA NextIInv == IInv /\ [Next]_vars => IInv'
BY ArriveEffect, StepEffect, AnswerEffect, EnvironmentEffect DEF Next, Abort, Environment

(* The invariant holds when nothing has been issued.                       *)
LEMMA InitIInv == Init => IInv
<1> SUFFICES ASSUME Init PROVE IInv
  OBVIOUS
<1>1. Issued = {}
  BY DEF Init, Issued
<1>2. PICK u \in Users, p \in {"PUBLIC", "RESTRICTED"}, new \in BOOLEAN :
         /\ accounts = {u}
         /\ club = [phase |-> IF new THEN "absent" ELSE "live", policy |-> p]
         /\ seat = [v \in Users |-> IF v = u /\ ~new THEN "OWNER" ELSE "NONE"]
  BY DEF Init
<1>3. TypeOK
  BY <1>2 DEF Init, TypeOK, Seats, Members, Staff
<1> QED
  BY <1>1, <1>3 DEF Init, IInv, RequestsOK, Unused, Unissued, Targeted, ForItsTarget, OneWorkingLink

(* So it holds in every reachable state.                                   *)
LEMMA Invariance == Spec => []IInv
BY InitIInv, NextIInv, PTL DEF Spec

(* However registrations, acceptances and changes of seats race, a direct  *)
(* invitation has seated, or put on the waiting list, nobody but the       *)
(* person it was issued to.                                                *)
THEOREM DirectForItsTarget == Spec => []ForItsTarget
<1>1. IInv => ForItsTarget
  BY DEF IInv
<1> QED BY <1>1, Invariance, PTL

(* As long as no request has overtaken another, a rotation leaves one      *)
(* working public link and one direct invitation to each target.           *)
THEOREM RotationLeavesOne == Spec => []OneWorkingLink
<1>1. IInv => OneWorkingLink
  BY DEF IInv
<1> QED BY <1>1, Invariance, PTL

(* Every reachable state of the invitations is well typed.                 *)
THEOREM InvitesTypeCorrect == Spec => []TypeOK
<1>1. IInv => TypeOK
  BY DEF IInv
<1> QED BY <1>1, Invariance, PTL
-----------------------------------------------------------------------------
(* The steps that write invitations.                                       *)
LEMMA OthersKeepInvites ==
    ASSUME NEW r \in Reqs,
           Step(r) \/ Abort(r) \/ \E call \in Calls : Arrive(r, call),
           ~DeactivateAll(r), ~InsertInvite(r), ~IncrementUses(r), ~DeactivateUsed(r)
    PROVE  UNCHANGED invites
<1>1. ASSUME NEW q, Continue(r, q)
      PROVE  UNCHANGED invites
  BY <1>1 DEF Continue, data
<1>2. ASSUME NEW ok, NEW pc, GoToIf(ok, r, pc)
      PROVE  UNCHANGED invites
  BY <1>1, <1>2 DEF GoToIf, GoTo, Answer
<1>3. ASSUME NEW s, Grants(r, s)
      PROVE  UNCHANGED invites
  BY <1>3 DEF Grants
<1>4. CASE CreateClub(r) \/ VerifyPrivilegedRole(r) \/ ExistsByEmail(r) \/ ValidateInvite(r)
  BY <1>1, <1>2, <1>4 DEF CreateClub, VerifyPrivilegedRole, ExistsByEmail, ValidateInvite, Answer
<1>5. CASE FindClubName(r) \/ SaveAccount(r) \/ FindClub(r) \/ ExistsMember(r) \/ ExistsBanned(r)
  BY <1>1, <1>2, <1>5 DEF FindClubName, SaveAccount, FindClub, ExistsMember, ExistsBanned, Answer
<1>6. CASE UpsertMember(r) \/ CreatePendingRequest(r) \/ FindUsed(r)
  BY <1>1, <1>2, <1>3, <1>6 DEF UpsertMember, CreatePendingRequest, FindUsed, Answer
<1>7. ASSUME NEW call \in Calls, Arrive(r, call)
      PROVE  UNCHANGED invites
  BY <1>1, <1>7 DEF Arrive
<1>8. CASE Abort(r)
  BY <1>1, <1>8 DEF Abort, Answer
<1> QED BY <1>4, <1>5, <1>6, <1>7, <1>8 DEF Step

(* No step brings an invitation back: it ages, unless it is issued now.    *)
LEMMA InvitesAge ==
    ASSUME IInv, [Next]_vars, NEW i \in Ids
    PROVE  Ages(i) \/ i \in Unissued
<1>1. ASSUME NEW r \in Reqs, Step(r) \/ Abort(r) \/ \E call \in Calls : Arrive(r, call)
      PROVE  Ages(i) \/ i \in Unissued
  <2>1. CASE UNCHANGED invites
    BY <2>1 DEF Ages
  <2>2. CASE InsertInvite(r)
    BY <2>2 DEF InsertInvite, Ages, Unissued, IInv, TypeOK
  <2> QED BY <1>1, <2>1, <2>2, DeactivateAges, UsageAges, OthersKeepInvites
<1>2. CASE Environment
  BY <1>2, EnvironmentAges
<1> QED BY <1>1, <1>2 DEF Next, Environment

(* No step reactivates an invitation, and a request that came late is      *)
(* still waiting for its validation.                                       *)
LEMMA StepKeepsDead ==
    ASSUME IInv, [Next]_vars
    PROVE  /\ \A i \in Issued : ~invites[i].active /\ invites'[i] # Gone => ~invites'[i].active
           /\ \A r \in Reqs : req[r] # NULL /\ req[r].late => ~(seat'[Caller(r)] # seat[Caller(r)] /\
                                   (At(r, "upsert") \/ At(r, "pending")) /\ req'[r] # req[r])
<1>1. ASSUME NEW i \in Issued, ~invites[i].active, invites'[i] # Gone
      PROVE  ~invites'[i].active
  <2>1. i \in Ids /\ i \notin Unissued
    BY DEF Issued, Unissued
  <2> QED BY <1>1, <2>1, InvitesAge DEF Ages
<1>2. ASSUME NEW r \in Reqs, req[r] # NULL, req[r].late
      PROVE  ~At(r, "upsert") /\ ~At(r, "pending")
  BY <1>2, Serves DEF RequestOK, At
<1> QED BY <1>1, <1>2

(* A link that was rotated, burnt or has expired admits nobody who comes   *)
(* later, and no race of rotations and acceptances brings it back.         *)
THEOREM DeadLinks == Spec => DeadLinksStayDead
<1>1. IInv /\ [Next]_vars =>
        [/\ \A i \in Issued : ~invites[i].active /\ invites'[i] # Gone => ~invites'[i].active
         /\ \A r \in Reqs : req[r] # NULL /\ req[r].late => ~(seat'[Caller(r)] # seat[Caller(r)] /\
                                 (At(r, "upsert") \/ At(r, "pending")) /\ req'[r] # req[r])]_vars
  BY StepKeepsDead
<1> QED BY <1>1, Invariance, PTL DEF Spec, DeadLinksStayDead
-----------------------------------------------------------------------------
(* The requests that are about to be counted.                              *)
Waits(q) == q # NULL /\ q.pc \in {"usage", "count"}

(* Those of an invitation, before and after a step.                        *)
LEMMA CountingOf ==
    ASSUME NEW i, NEW s \in Reqs
    PROVE  /\ s \in Counting(i) <=> Waits(req[s]) /\ req[s].call.invite = i
           /\ s \in Counting(i)' <=> Waits(req'[s]) /\ req'[s].call.invite = i
BY DEF Counting, At, Waits, Invite

(* A request that goes on, or ends, is not counted unless it was about to  *)
(* be already.                                                             *)
LEMMA ContinueCounts ==
    ASSUME IInv, NEW r \in Reqs, NEW q, Continue(r, q), NEW i,
           Waits(q) => Waits(req[r]) /\ q.call = req[r].call
    PROVE  Counting(i)' \subseteq Counting(i) /\ UNCHANGED <<invites, grants>>
<1>1. \A s \in Reqs : req'[s] = IF s = r THEN q ELSE req[s]
  BY DEF Continue, IInv, TypeOK
<1>2. Counting(i)' \subseteq Reqs
  BY DEF Counting
<1> QED BY <1>1, <1>2, CountingOf DEF Continue, data

(* Nor is one that writes, which overtakes the others but no more.         *)
LEMMA WroteCounts ==
    ASSUME IInv, NEW r \in Reqs, NEW q, Wrote(r, q), NEW i,
           Waits(q) => q.call = req[r].call
    PROVE  /\ Counting(i)' \subseteq Counting(i) \cup IF Invite(r) = i THEN {r} ELSE {}
           /\ ~Waits(q) => Counting(i)' \subseteq Counting(i) \ {r}
<1>1. \A s \in Reqs \ {r} : req'[s] = IF req[s] = NULL THEN NULL ELSE [req[s] EXCEPT !.raced = TRUE]
  BY DEF Wrote
<1>2. ASSUME NEW s \in Reqs, req[s] # NULL
      PROVE  [req[s] EXCEPT !.raced = TRUE].pc = req[s].pc
             /\ [req[s] EXCEPT !.raced = TRUE].call = req[s].call
  BY <1>2, Serves DEF Requests
<1>3. req'[r] = q
  BY DEF Wrote
<1>4. Counting(i)' \subseteq Reqs
  BY DEF Counting
<1>5. ASSUME NEW s \in Reqs \ {r}, s \in Counting(i)'
      PROVE  s \in Counting(i)
  <2>1. Waits(req'[s]) /\ req'[s].call.invite = i
    BY <1>5, CountingOf
  <2>2. req[s] # NULL /\ req'[s] = [req[s] EXCEPT !.raced = TRUE]
    BY <1>1, <2>1 DEF Waits
  <2>3. req[s].pc = req'[s].pc /\ req[s].call = req'[s].call
    BY <1>2, <2>2
  <2> QED BY <2>1, <2>2, <2>3, CountingOf DEF Waits
<1>6. r \in Counting(i)' <=> Waits(q) /\ q.call.invite = i
  BY <1>3, CountingOf
<1> QED BY <1>4, <1>5, <1>6 DEF Invite

(* The step a request goes on with, whatever it noted down.                *)
LEMMA ThenPc ==
    ASSUME IInv, NEW r \in Reqs, req[r] # NULL, NEW pc, NEW d
    PROVE  /\ Then(r, pc).pc = pc /\ Then(r, pc).call = req[r].call
           /\ [Then(r, pc) EXCEPT !.direct = d].pc = pc
           /\ [Then(r, pc) EXCEPT !.policy = d].pc = pc
           /\ [Then(r, pc) EXCEPT !.policy = d].call = req[r].call
BY Serves DEF Then, Requests

(* A step that answers, or goes on with a step that comes before the count *)
(* or follows the first of its two.                                        *)
LEMMA GoToIfCounts ==
    ASSUME IInv, NEW r \in Reqs, NEW ok, NEW pc, GoToIf(ok, r, pc), req[r] # NULL, NEW i,
           pc \in {"usage", "count"} => req[r].pc \in {"usage", "count"}
    PROVE  Counting(i)' \subseteq Counting(i) /\ UNCHANGED <<invites, grants>>
<1>1. CASE Continue(r, Then(r, pc))
  <2>1. Waits(Then(r, pc)) => Waits(req[r]) /\ Then(r, pc).call = req[r].call
    BY ThenPc DEF Waits
  <2> QED BY <1>1, <2>1, ContinueCounts
<1>2. CASE Continue(r, NULL)
  BY <1>2, ContinueCounts DEF Waits
<1> QED BY <1>1, <1>2 DEF GoToIf, GoTo, Answer, Then

(* What the property says of one invitation, and when it stays so: with no *)
(* more requests about to be counted and no use more.                      *)
Backed(i) == i \in Issued => invites[i].uses + Cardinality(Counting(i)) <= grants[i]

(* So few are about to be counted that they can be counted themselves.     *)
LEMMA CountingFinite ==
    ASSUME NEW i
    PROVE  /\ IsFiniteSet(Counting(i)) /\ Cardinality(Counting(i)) \in Nat
           /\ IsFiniteSet(Counting(i)') /\ Cardinality(Counting(i)') \in Nat
<1>1. Counting(i) \subseteq Reqs /\ Counting(i)' \subseteq Reqs /\ IsFiniteSet(Reqs)
  BY InvitesAssumption DEF Counting
<1> QED BY <1>1, FS_Subset, FS_CardinalityType

(* An invitation whose count of uses did not grow stays backed when        *)
(* requests still counting it only become fewer.                           *)
LEMMA FewerBacked ==
    ASSUME IInv, NEW i \in Ids, Backed(i), Counting(i)' \subseteq Counting(i),
           grants'[i] = grants[i],
           i \in Issued' => i \in Issued /\ invites'[i].uses = invites[i].uses
    PROVE  Backed(i)'
<1>1. Cardinality(Counting(i)') <= Cardinality(Counting(i))
  BY CountingFinite, FS_Subset
<1>2. i \in Issued => invites[i].uses \in Nat /\ grants[i] \in Nat
  BY IssuedType, DocumentType DEF IInv, TypeOK
<1> QED BY <1>1, <1>2, CountingFinite DEF Backed

(* A step that reads, whatever it finds.                                   *)
LEMMA ReadBacked ==
    ASSUME IInv, UsesBacked, NEW r \in Reqs,
           \/ VerifyPrivilegedRole(r) \/ ExistsByEmail(r) \/ FindClubName(r) \/ FindClub(r)
           \/ ExistsMember(r) \/ ExistsBanned(r) \/ FindUsed(r) \/ ValidateInvite(r)
           \/ Answer(r) \/ \E call \in Calls : Arrive(r, call)
    PROVE  UsesBacked'
<1> SUFFICES ASSUME NEW i \in Ids
             PROVE  Counting(i)' \subseteq Counting(i) /\ UNCHANGED <<invites, grants>>
  BY FewerBacked DEF UsesBacked, Backed, Issued
<1>1. CASE VerifyPrivilegedRole(r)
  BY <1>1, GoToIfCounts DEF VerifyPrivilegedRole, At
<1>2. CASE ExistsByEmail(r)
  BY <1>2, GoToIfCounts DEF ExistsByEmail, At
<1>3. CASE FindClubName(r)
  BY <1>3, GoToIfCounts DEF FindClubName, At
<1>4. CASE ExistsMember(r)
  BY <1>4, GoToIfCounts DEF ExistsMember, At
<1>5. CASE ExistsBanned(r)
  BY <1>5, GoToIfCounts DEF ExistsBanned, At
<1>6. CASE FindUsed(r)
  BY <1>6, GoToIfCounts DEF FindUsed, At
<1>7. CASE Answer(r)
  BY <1>7, ContinueCounts DEF Answer, Waits
<1>8. CASE FindClub(r)
  <2>1. PICK p : \/ req[r] # NULL /\ Continue(r, [Then(r, "seat") EXCEPT !.policy = p])
                 \/ Answer(r)
    BY <1>8 DEF FindClub, At
  <2>2. req[r] # NULL => ~Waits([Then(r, "seat") EXCEPT !.policy = p])
    BY ThenPc DEF Waits
  <2> QED BY <1>7, <2>1, <2>2, ContinueCounts
<1>9. CASE ValidateInvite(r)
  <2>1. PICK d : \/ req[r] # NULL /\ Continue(r, [Then(r, "name") EXCEPT !.direct = d])
                 \/ Answer(r)
    BY <1>9 DEF ValidateInvite, At
  <2>2. req[r] # NULL => ~Waits([Then(r, "name") EXCEPT !.direct = d])
    BY ThenPc DEF Waits
  <2> QED BY <1>7, <2>1, <2>2, ContinueCounts
<1>10. ASSUME NEW call \in Calls, Arrive(r, call)
       PROVE  Counting(i)' \subseteq Counting(i) /\ UNCHANGED <<invites, grants>>
  <2>1. PICK q, pc, late :
          /\ pc = CASE call.op = "createClub" -> "found"
                    [] call.op \in {"accept", "register"} -> "validate"
                    [] OTHER -> "role"
          /\ q = [call |-> call, pc |-> pc, direct |-> FALSE, policy |-> NULL, raced |-> FALSE,
                  late |-> late]
          /\ Continue(r, q)
    BY <1>10 DEF Arrive
  <2>2. pc = IF call.op = "createClub" THEN "found"
             ELSE IF call.op \in {"accept", "register"} THEN "validate" ELSE "role"
    BY <2>1
  <2>3. ~Waits(q)
    BY <2>1, <2>2 DEF Waits
  <2> QED BY <2>1, <2>3, ContinueCounts
<1> QED BY <1>1, <1>2, <1>3, <1>4, <1>5, <1>6, <1>7, <1>8, <1>9, <1>10

(* A step that writes and gives no seat.                                   *)
LEMMA WriteBacked ==
    ASSUME IInv, UsesBacked, NEW r \in Reqs, NEW q, Wrote(r, q), ~Waits(q), UNCHANGED grants,
           \A i \in Ids : i \in Issued' => i \in Issued /\ invites'[i].uses = invites[i].uses
    PROVE  UsesBacked'
<1>1. ASSUME NEW i \in Ids
      PROVE  Backed(i)'
  BY WroteCounts, FewerBacked DEF UsesBacked, Backed
<1> QED BY <1>1 DEF UsesBacked, Backed, Issued

(* Nobody is about to be counted for an invitation not issued yet.         *)
LEMMA UnissuedUncounted ==
    ASSUME IInv, NEW i \in Unissued
    PROVE  Counting(i) = {}
BY Serves DEF Counting, At, RequestOK, Unissued, Invite, UseSteps, IssueSteps

(* The invitation just inserted has no use, and nobody is about to be      *)
(* counted for it.                                                         *)
LEMMA InsertBacked ==
    ASSUME IInv, UsesBacked, NEW r \in Reqs, InsertInvite(r)
    PROVE  UsesBacked'
<1>1. PICK k, d : /\ k \in Unissued /\ invites' = [invites EXCEPT ![k] = d] /\ d.uses = 0
                  /\ Wrote(r, NULL) /\ UNCHANGED grants
  <2> DEFINE doc == [type |-> IF req[r].call.target = NULL THEN "PUBLIC" ELSE "DIRECT",
                     target |-> req[r].call.target, uses |-> 0, active |-> TRUE, lapsed |-> FALSE]
  <2>1. \E k \in Unissued : invites' = [invites EXCEPT ![k] = doc]
    BY DEF InsertInvite
  <2>2. doc.uses = 0 /\ Wrote(r, NULL) /\ UNCHANGED grants
    BY DEF InsertInvite, WroteInvites, histories
  <2> HIDE DEF doc
  <2> QED BY <2>1, <2>2
<1>2. \A i \in Ids \ {k} : invites'[i] = invites[i]
  BY <1>1 DEF IInv, TypeOK
<1>3. ASSUME NEW i \in Ids, i # k
      PROVE  Backed(i)'
  <2>1. Counting(i)' \subseteq Counting(i)
    BY <1>1, WroteCounts DEF Waits
  <2> QED BY <1>1, <1>2, <1>3, <2>1, FewerBacked DEF UsesBacked, Backed, Issued
<1>4. Backed(k)'
  <2>1. Counting(k)' = {}
    BY <1>1, UnissuedUncounted, WroteCounts DEF Waits, Unissued
  <2>2. invites'[k].uses = 0 /\ grants'[k] \in Nat
    BY <1>1 DEF IInv, TypeOK, Unissued
  <2> QED BY <2>1, <2>2, FS_EmptySet DEF Backed
<1> QED BY <1>3, <1>4 DEF UsesBacked, Backed, Issued

(* A seat given is one more that may be counted.                           *)
LEMMA GrantsBacked ==
    ASSUME IInv, UsesBacked, NEW r \in Reqs, req[r] # NULL, NEW s, Grants(r, s)
    PROVE  UsesBacked'
<1> DEFINE q == [Then(r, "usage") EXCEPT !.policy = NULL]
<1>1. /\ Wrote(r, q) /\ UNCHANGED invites /\ grants' = [grants EXCEPT ![Invite(r)] = @ + 1]
      /\ q.call = req[r].call
  BY ThenPc DEF Grants
<1> HIDE DEF q
<1>2. ASSUME NEW i \in Ids
      PROVE  Backed(i)'
  <2>1. i \in Issued => Backed(i) /\ invites[i].uses \in Nat /\ grants[i] \in Nat
    BY IssuedType, DocumentType DEF IInv, TypeOK, UsesBacked, Backed
  <2>2. CASE Invite(r) = i
    <3>1. Counting(i)' \subseteq Counting(i) \cup {r}
      BY <1>1, <2>2, WroteCounts
    <3>2. /\ IsFiniteSet(Counting(i) \cup {r})
          /\ Cardinality(Counting(i) \cup {r}) <= Cardinality(Counting(i)) + 1
      <4>1. IsFiniteSet(Counting(i)) /\ Cardinality(Counting(i)) \in Nat
        BY CountingFinite
      <4>2. /\ IsFiniteSet(Counting(i) \cup {r})
            /\ \/ Cardinality(Counting(i) \cup {r}) = Cardinality(Counting(i))
               \/ Cardinality(Counting(i) \cup {r}) = Cardinality(Counting(i)) + 1
        BY <4>1, FS_AddElement, Zenon
      <4> QED BY <4>1, <4>2
    <3>3. Cardinality(Counting(i)') <= Cardinality(Counting(i)) + 1
      BY <3>1, <3>2, CountingFinite, FS_Subset, FS_CardinalityType
    <3>4. grants'[i] = grants[i] + 1
      BY <1>1, <2>2 DEF IInv, TypeOK
    <3> QED BY <1>1, <2>1, <3>3, <3>4, CountingFinite DEF Backed, Issued
  <2>3. CASE Invite(r) # i
    <3>1. Counting(i)' \subseteq Counting(i) /\ grants'[i] = grants[i]
      BY <1>1, <2>3, WroteCounts DEF IInv, TypeOK
    <3> QED BY <1>1, <2>1, <3>1, FewerBacked DEF Backed, Issued
  <2> QED BY <2>2, <2>3
<1> QED BY <1>2 DEF UsesBacked, Backed, Issued

(* A use counted is no longer about to be.                                 *)
LEMMA IncrementBacked ==
    ASSUME IInv, UsesBacked, NEW r \in Reqs, IncrementUses(r)
    PROVE  UsesBacked'
<1>1. PICK q : q = (IF req[r].direct THEN Then(r, "burn") ELSE NULL) /\ WroteInvites(r, q)
  BY DEF IncrementUses
<1>2. req[r] # NULL /\ req[r].pc = "count" /\ ~Waits(q) /\ Wrote(r, q) /\ UNCHANGED grants
  BY <1>1, ThenPc DEF IncrementUses, At, Waits, WroteInvites, histories
<1>3. Invite(r) \in Ids
  BY <1>2, Serves DEF UseSteps
<1>4. CASE Invite(r) \notin Issued
  <2>1. invites' = invites
    BY <1>3, <1>4 DEF IncrementUses, IInv, TypeOK
  <2> QED BY <1>2, <2>1, WriteBacked DEF Issued
<1>5. CASE Invite(r) \in Issued
  <2>0. PICK k \in Issued : k = Invite(r)
    BY <1>5
  <2>1. invites' = [invites EXCEPT ![k] = [invites[k] EXCEPT !.uses = @ + 1]]
    BY <1>5, <2>0 DEF IncrementUses
  <2>2. /\ k \in Ids /\ invites[k].uses \in Nat /\ grants[k] \in Nat
        /\ [invites[k] EXCEPT !.uses = @ + 1].uses = invites[k].uses + 1
    BY <1>3, <2>0, IssuedType DEF IInv, TypeOK, Documents
  <2>3. invites'[k].uses = invites[k].uses + 1
    BY <2>1, <2>2 DEF IInv, TypeOK
  <2>4. r \in Counting(k)
    BY <1>2, <2>0 DEF Counting, At
  <2>5. Counting(k)' \subseteq Counting(k) \ {r}
    BY <1>2, WroteCounts
  <2>6. Cardinality(Counting(k)') <= Cardinality(Counting(k)) - 1
    <3>1. /\ IsFiniteSet(Counting(k) \ {r})
          /\ Cardinality(Counting(k) \ {r}) = Cardinality(Counting(k)) - 1
      BY <2>4, CountingFinite, FS_RemoveElement
    <3> QED BY <2>5, <3>1, FS_Subset
  <2>7. Backed(k)'
    BY <1>2, <2>2, <2>3, <2>6, CountingFinite DEF UsesBacked, Backed
  <2>8. ASSUME NEW i \in Ids, i # k
        PROVE  Backed(i)'
    <3>1. invites'[i] = invites[i]
      BY <2>1, <2>8 DEF IInv, TypeOK
    <3>2. Counting(i)' \subseteq Counting(i)
      BY <1>2, WroteCounts
    <3> QED BY <1>2, <3>1, <3>2, FewerBacked DEF UsesBacked, Backed, Issued
  <2> QED BY <2>7, <2>8 DEF UsesBacked, Backed, Issued
<1> QED BY <1>4, <1>5

(* The club's creation, an account saved, and invitations deactivated.     *)
LEMMA OtherWritesBacked ==
    ASSUME IInv, UsesBacked, NEW r \in Reqs,
           CreateClub(r) \/ SaveAccount(r) \/ DeactivateAll(r) \/ DeactivateUsed(r)
    PROVE  UsesBacked'
<1>1. CASE CreateClub(r)
  BY <1>1, ThenPc, WriteBacked DEF CreateClub, At, Waits, histories, Issued
<1>2. CASE SaveAccount(r)
  <2>1. CASE Answer(r)
    BY <2>1, ReadBacked
  <2>2. CASE Wrote(r, Then(r, "club")) /\ UNCHANGED <<club, seat, invites, histories>>
    BY <1>2, <2>2, ThenPc, WriteBacked DEF SaveAccount, At, Waits, histories, Issued
  <2> QED BY <1>2, <2>1, <2>2 DEF SaveAccount
<1>3. CASE DeactivateAll(r)
  <2>1. \A i \in Ids : i \in Issued' => i \in Issued /\ invites'[i].uses = invites[i].uses
    <3> SUFFICES ASSUME NEW i \in Ids, i \in Issued'
                 PROVE  i \in Issued /\ invites'[i].uses = invites[i].uses
      OBVIOUS
    <3>1. \/ i \in Issued /\ invites'[i] = [invites[i] EXCEPT !.active = FALSE]
          \/ invites'[i] = invites[i]
      BY <1>3 DEF DeactivateAll
    <3>2. i \in Issued => invites[i] \in Documents
      BY IssuedType DEF IInv
    <3> QED BY <3>1, <3>2 DEF Documents, Issued
  <2> QED BY <1>3, <2>1, ThenPc, WriteBacked DEF DeactivateAll, WroteInvites, At, Waits, histories
<1>4. CASE DeactivateUsed(r)
  <2>1. Invite(r) \in Ids
    BY <1>4, Serves DEF DeactivateUsed, At, UseSteps
  <2>2. \A i \in Ids : i \in Issued' => i \in Issued /\ invites'[i].uses = invites[i].uses
    BY <1>4, <2>1, IssuedType DEF DeactivateUsed, IInv, TypeOK, Documents, Issued
  <2> QED BY <1>4, <2>2, WriteBacked DEF DeactivateUsed, WroteInvites, Waits, histories
<1> QED BY <1>1, <1>2, <1>3, <1>4

(* What the environment does to an invitation changes no count.            *)
LEMMA EnvironmentBacked ==
    ASSUME IInv, UsesBacked, Environment
    PROVE  UsesBacked'
<1>1. UNCHANGED <<req, grants>>
  BY DEF Environment, Lapse, Expire, Moderate, Dissolve, vars, histories
<1>2. \A i \in Ids : i \in Issued' => i \in Issued /\ invites'[i].uses = invites[i].uses
  <2> SUFFICES ASSUME NEW i \in Ids, i \in Issued'
               PROVE  i \in Issued /\ invites'[i].uses = invites[i].uses
    OBVIOUS
  <2>1. CASE \E j \in Ids : Lapse(j)
    BY <2>1, IssuedType DEF Lapse, IInv, TypeOK, Documents, Issued
  <2>2. CASE \E j \in Ids : Expire(j)
    BY <2>2 DEF Expire, IInv, TypeOK, Issued
  <2>3. CASE UNCHANGED invites
    BY <2>3 DEF Issued
  <2> QED BY <2>1, <2>2, <2>3 DEF Environment, Moderate, Dissolve, vars
<1>3. \A i \in Ids : Counting(i)' = Counting(i)
  BY <1>1 DEF Counting, At, Invite
<1>4. ASSUME NEW i \in Ids
      PROVE  Backed(i)'
  BY <1>1, <1>2, <1>3, FewerBacked DEF UsesBacked, Backed
<1> QED BY <1>4 DEF UsesBacked, Backed, Issued

(* However acceptances race, every use counted, or about to be, is a seat  *)
(* or a place on the waiting list the invitation gave.                     *)
THEOREM UsesAreBacked == Spec => []UsesBacked
<1>1. Init => UsesBacked
  BY DEF Init, UsesBacked, Issued
<1>2. ASSUME IInv, UsesBacked, [Next]_vars PROVE UsesBacked'
  <2>1. CASE \E r \in Reqs : UpsertMember(r) \/ CreatePendingRequest(r)
    BY <1>2, <2>1, GrantsBacked, ReadBacked DEF UpsertMember, CreatePendingRequest, At
  <2>2. CASE \E r \in Reqs : Step(r)
    BY <1>2, <2>1, <2>2, ReadBacked, InsertBacked, IncrementBacked, OtherWritesBacked DEF Step
  <2>3. CASE \E r \in Reqs : Abort(r) \/ \E call \in Calls : Arrive(r, call)
    BY <1>2, <2>3, ReadBacked DEF Abort
  <2>4. CASE Environment
    BY <1>2, <2>4, EnvironmentBacked
  <2> QED BY <1>2, <2>2, <2>3, <2>4 DEF Next, Environment
<1> QED BY <1>1, <1>2, Invariance, PTL DEF Spec
=============================================================================
