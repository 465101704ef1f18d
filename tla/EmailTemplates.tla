-------------------------- MODULE EmailTemplates --------------------------
(***************************************************************************)
(* The e-mail templates (emails/core/definitions.py), the contexts they    *)
(* are rendered with (emails/core/schemas.py), and the mails each use case *)
(* dispatches.  Of a context only the unsubscribe link matters here: the   *)
(* club one, when the context is built with it, or none.                   *)
(***************************************************************************)
EXTENDS FiniteSets

CONSTANT NULL  \* None

EmailPriority == {"high", "default", "low"}
EmailCategory == {"transactional", "engagement", "promotional"}
ClubLink == TRUE
NoLink == FALSE

(* Contexts, as from_domain builds them when the use cases call it.        *)
ClubActionContext == ClubLink
ClubActorActionContext == NoLink
AuthProviderContext == NoLink
InviteExternalContext == NoLink
InviteInternalContext == NoLink
EmailVerificationContext == NoLink
SpikeBaseContext == ClubLink
SpikeActionContext == ClubLink
SpikeBookContext == ClubLink
SpikeRoleContext == ClubLink
PasswordChangedContext == NoLink
PasswordResetValidationContext == NoLink
RecipientContext == NoLink
LunaProviderActionContext == NoLink

(* EmailTemplate.  scoped: its mails carry the club's id.                  *)
Template(priority, category, context, scoped) ==
    [priority |-> priority, category |-> category, link |-> context, scoped |-> scoped]
Templates == [priority : EmailPriority, category : EmailCategory, link : {ClubLink, NoLink},
              scoped : BOOLEAN]
ClubPreferenceEmailTemplate(priority, context) ==
    Template(priority, "engagement", context, TRUE)
GlobalEmailTemplate(priority, context) ==
    Template(priority, "transactional", context, FALSE)

(* class Templates, brand by brand.                                        *)
CELESTIA ==
    [oauth_welcome |-> GlobalEmailTemplate("high", AuthProviderContext),
     verify_email |-> GlobalEmailTemplate("high", EmailVerificationContext),
     verify_email_changed |-> GlobalEmailTemplate("high", EmailVerificationContext),
     invite_external |-> GlobalEmailTemplate("default", InviteExternalContext),
     invite_internal |-> GlobalEmailTemplate("default", InviteInternalContext),
     approved |-> ClubPreferenceEmailTemplate("default", ClubActionContext),
     ownership_received |-> GlobalEmailTemplate("default", ClubActorActionContext)]
SPIKE ==
    [book_decided |-> ClubPreferenceEmailTemplate("low", SpikeBookContext),
     voting_open |-> ClubPreferenceEmailTemplate("low", SpikeActionContext),
     reminder_t1 |-> ClubPreferenceEmailTemplate("low", SpikeBookContext),
     reminder_t0 |-> ClubPreferenceEmailTemplate("low", SpikeBookContext),
     role_changed |-> ClubPreferenceEmailTemplate("default", SpikeRoleContext),
     removed |-> GlobalEmailTemplate("default", SpikeBaseContext),
     club_dissolved |-> ClubPreferenceEmailTemplate("default", SpikeActionContext)]
LUNA ==
    [password_reset |-> GlobalEmailTemplate("high", PasswordResetValidationContext),
     locked_out |-> GlobalEmailTemplate("high", LunaProviderActionContext),
     password_changed |-> GlobalEmailTemplate("high", PasswordChangedContext),
     provider_linked |-> GlobalEmailTemplate("high", LunaProviderActionContext),
     provider_disconnected |-> GlobalEmailTemplate("high", AuthProviderContext),
     email_changed |-> GlobalEmailTemplate("high", RecipientContext),
     ownership_transferred |-> GlobalEmailTemplate("default", ClubActorActionContext),
     ownership_reclaimed |-> GlobalEmailTemplate("default", ClubActorActionContext)]
-----------------------------------------------------------------------------
(* EmailTaskPayload, and whether the use case hands the recipient's        *)
(* preferences to the dispatcher with it.  club: the one the context is    *)
(* about.                                                                  *)
Task(template, to, club) == [template |-> template, to |-> to, club |-> club, known |-> TRUE]

(* The mails of one dispatch, by use case.                                 *)
CreateSession(to) == {Task(CELESTIA.oauth_welcome, to, NULL)}
RegisterUser(to) == {Task(CELESTIA.verify_email, to, NULL)}
RequestEmailVerification(to) == {Task(CELESTIA.verify_email, to, NULL)}
RequestPasswordReset(to) == {Task(LUNA.password_reset, to, NULL)}
ResetPassword(to) == {Task(LUNA.password_changed, to, NULL)}
ChangePassword(to) == {Task(LUNA.password_changed, to, NULL)}
CreatePassword(to) == {Task(LUNA.password_changed, to, NULL)}
LinkAuthProvider(to) == {Task(LUNA.provider_linked, to, NULL)}
DisconnectAuthProvider(to) == {Task(LUNA.provider_disconnected, to, NULL)}
RevokeAuthProvider(to) == {Task(LUNA.locked_out, to, NULL)}
CreateExternalInvite(to, club) ==
    {[Task(CELESTIA.invite_external, to, club) EXCEPT !.known = FALSE]}
CreateInternalInvite(to, club) == {Task(CELESTIA.invite_internal, to, club)}
ApprovePendingMember(to, club) == {Task(CELESTIA.approved, to, club)}
ChangeMemberRole(to, club) == {Task(SPIKE.role_changed, to, club)}
RemoveClubMember(to, club) == {Task(SPIKE.removed, to, club)}
DissolveClub(members, club) == {Task(SPIKE.club_dissolved, to, club) : to \in members}
TransferClubOwnership(to, former, club) ==
    {Task(CELESTIA.ownership_received, to, club), Task(LUNA.ownership_transferred, former, club)}
ReclaimOwnershipTransfer(to, club) == {Task(LUNA.ownership_reclaimed, to, club)}
=============================================================================
