-------------------------- MODULE MCEmailPipeline --------------------------
(* Instances of EmailPipeline for TLC.                                     *)
EXTENDS EmailPipeline

CONSTANTS ann, bob, club, w1

Workload(dispatches, events, unsubs, registered, workers) ==
    [dispatches |-> dispatches, events |-> events, unsubs |-> unsubs,
     registered |-> registered, registers |-> {bob}, workers |-> workers]

(* Every use case once, on its own.                                        *)
UseCases ==
    {CreateSession(ann), RegisterUser(ann), RequestEmailVerification(ann),
     RequestPasswordReset(ann), ResetPassword(ann), ChangePassword(ann), CreatePassword(ann),
     LinkAuthProvider(ann), DisconnectAuthProvider(ann), RevokeAuthProvider(ann),
     CreateExternalInvite(bob, club), CreateInternalInvite(ann, club),
     ApprovePendingMember(ann, club), ChangeMemberRole(ann, club), RemoveClubMember(ann, club),
     ReclaimOwnershipTransfer(ann, club), TransferClubOwnership(bob, ann, club)}
Reminder(to) == {Task(SPIKE.reminder_t1, to, club)}

Event(type, to) == [type |-> type, to |-> to]
Link(mails, scope) == {[to |-> m.to, mail |-> m, scope |-> scope] : m \in mails}
Earlier(to, scope) == [to |-> to, mail |-> NULL, scope |-> scope]

(* And together: notices of one club with an unsubscription by the first's *)
(* link, reminders with failures and later deliveries, a password change   *)
(* that uses up the quota, an address that bounces before its owner        *)
(* registers, complaints, and an opt-out of the category.                  *)
MCWorkloads ==
    {Workload({d}, {}, {}, {ann}, {w1}) : d \in UseCases} \cup
    {Workload({DissolveClub({ann, bob}, club)}, {}, {}, {ann, bob}, Workers),
     Workload({ApprovePendingMember(ann, club), Reminder(ann)}, {},
              Link(ApprovePendingMember(ann, club), club), {ann}, Workers),
     Workload({Reminder(ann)}, {Event("FAILED", ann), Event("DELIVERED", ann)}, {}, {ann}, {w1}),
     Workload({Reminder(ann), ResetPassword(ann)}, {}, {}, {ann}, Workers),
     Workload({RegisterUser(bob)}, {Event("BOUNCED", bob)}, {}, {ann}, {w1}),
     Workload({CreateExternalInvite(bob, club)}, {Event("SUPPRESSED", bob)}, {}, {ann}, {w1}),
     Workload({ApprovePendingMember(ann, club)}, {Event("COMPLAINED", ann)},
              {Earlier(ann, "engagement")}, {ann}, {w1})}
=============================================================================
