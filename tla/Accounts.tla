------------------------------ MODULE Accounts ------------------------------
(***************************************************************************)
(* Accounts, sign-in methods, sessions and verification codes: the routers *)
(* auth.py, users.py and webhooks.py, their use cases, AuthService,        *)
(* VerificationService and the account half of UserService, on top of the  *)
(* collections UserStore and VerificationStore.                            *)
(*                                                                         *)
(* A request is the list of steps it still has to take, each one call of   *)
(* the database, of an identity provider or of the mail queue; steps of    *)
(* different requests interleave.  A program below is the order in which   *)
(* a use case makes its calls.  A clock instant stands for a second: what  *)
(* is issued within one instant carries the same expiry.                   *)
(***************************************************************************)
EXTENDS VerificationStore, SequencesExt

CONSTANTS
    Reqs,          \* request slots
    Workloads,     \* what clients do: [ops : a set of operations, ids : bounds the ids at
                   \* the providers, clock : bounds the clock]
    MaxTime,       \* bound: the last second of the clock in any behaviour
    ResetLifetime  \* reset_token_expiry_minutes

VARIABLES
    now,       \* the clock
    resets,    \* the password reset JWTs handed out, <<user, expiry>>
    req,       \* req[r]: the request served in slot r, NULL if none
    workload,  \* the workload of this behaviour
    changed,   \* history: the second of the session that the last password of u began with
    ended,     \* history: the tokens of u whose session was ended after their second
    serial     \* history: no request has written after another one wrote during its life

vars == <<acct, codes, now, resets, req, workload, changed, ended, serial>>
history == <<changed, ended>>
data == <<acct, codes, now, resets, workload, changed, ended, serial>>

ASSUME AccountsAssumption ==
    /\ ResetLifetime \in Nat /\ MaxTime \in Nat
    /\ Workloads \subseteq [ops : SUBSET STRING, ids : SUBSET Externals, clock : 0 .. MaxTime]
-----------------------------------------------------------------------------
(* The programs: what each use case calls, in order.                       *)
IssueCode == <<"invalidate", "insertCode">>
RegisterUser == <<"nameFree", "emailFree", "saveUser", "push">> \o IssueCode \o <<"mail">>
CreateSession == [PASSWORD |-> <<"find", "push">>, OAUTH |-> <<"verify", "identity">>]
LinkAuthProvider == <<"load", "verify", "linkFind">>
DisconnectAuthProvider == <<"load", "unlink", "mail">>
RevokeAuthProvider == <<"linked", "forceUnlink", "mail">>
ChangePassword == <<"load", "writePassword", "mail">>
CreatePassword == <<"load", "writePassword", "mail">>
RequestPasswordReset == <<"identify">> \o IssueCode \o <<"mail">>
ValidatePasswordResetCode == <<"identify", "findCode", "useCode", "mintReset">>
ResetPassword == <<"load", "writePassword", "mail">>
RequestEmailVerification == <<"load">> \o IssueCode \o <<"mail">>
ConfirmEmailVerification == <<"load", "findCode", "useCode", "markVerified">>
UpdateProfile == <<"load", "nameTaken", "writeName">>
SyncPicture == <<"picture", "avatarRead">>

Program == [register |-> RegisterUser, login |-> CreateSession.PASSWORD,
            signIn |-> CreateSession.OAUTH, rotate |-> <<"pull", "push">>,
            logout |-> <<"logout">>, logoutAll |-> <<"clear">>,
            link |-> LinkAuthProvider, disconnect |-> DisconnectAuthProvider,
            revoke |-> RevokeAuthProvider, changePassword |-> ChangePassword,
            createPassword |-> CreatePassword, requestReset |-> RequestPasswordReset,
            validateReset |-> ValidatePasswordResetCode, resetPassword |-> ResetPassword,
            requestVerification |-> RequestEmailVerification,
            confirmVerification |-> ConfirmEmailVerification,
            updateProfile |-> UpdateProfile, setAvatar |-> <<"load", "writeAvatar">>,
            clearAvatar |-> <<"clearAvatar">>]

(* The endpoints and what clients may send them.  An access token names    *)
(* its user until it expires, whatever became of the session.              *)
RegisterCalls == [op : {"register"}, user : {NULL},
                  arg : [name : Names, email : Emails, password : Passwords]]
SessionCalls ==
    [op : {"login"}, user : {NULL}, arg : [name : Names, password : Passwords]]
        \cup [op : {"signIn"}, user : {NULL},
              arg : [provider : Providers, external : Externals, redirect : {FALSE}]]
RefreshCalls ==
    [op : {"rotate", "logout", "logoutAll"}, user : Users, arg : 0 .. MaxTime]
PasswordCalls ==
    [op : {"changePassword"}, user : Users, arg : [current : Passwords, new : Passwords]]
        \cup [op : {"createPassword"}, user : Users, arg : [new : Passwords]]
ResetCalls ==
    [op : {"requestReset"}, user : Users, arg : {NULL}]
        \cup [op : {"validateReset"}, user : Users, arg : CodeIds \cup {NULL}]
        \cup [op : {"resetPassword"}, user : Users, arg : [new : Passwords]]
VerificationCalls ==
    [op : {"requestVerification"}, user : Users, arg : {NULL}]
        \cup [op : {"confirmVerification"}, user : Users, arg : CodeIds \cup {NULL}]
ProviderCalls ==
    [op : {"link"}, user : Users,
     arg : [provider : Providers, external : Externals, redirect : BOOLEAN]]
        \cup [op : {"disconnect"}, user : Users, arg : Providers]
WebhookCalls ==
    [op : {"revoke"}, user : {NULL}, arg : [provider : {"GOOGLE"}, external : Externals]]
ProfileCalls ==
    [op : {"updateProfile"}, user : Users, arg : Names]
        \cup [op : {"setAvatar"}, user : Users, arg : Providers]
        \cup [op : {"clearAvatar"}, user : Users, arg : {NULL}]

Calls == RegisterCalls \cup SessionCalls \cup RefreshCalls \cup PasswordCalls \cup ResetCalls
            \cup VerificationCalls \cup ProviderCalls \cup WebhookCalls \cup ProfileCalls

(* A request that has just arrived, with its local variables: whose account *)
(* it is about, the document it loaded, the refresh token it made, the     *)
(* identity it verified and its address.  raced: another request has       *)
(* written since it arrived.                                               *)
Fresh(call) == [call |-> call, todo |-> Program[call.op], raced |-> FALSE, user |-> NULL,
                doc |-> NULL, token |-> NULL, link |-> NULL, email |-> NULL]

(* The calls of the programs, with those a step may put in.                *)
Steps == {"load", "nameFree", "emailFree", "saveUser", "find", "push", "pull", "logout", "clear",
          "writePassword", "mail", "verify", "identity", "emailTaken", "makeName", "create",
          "winner", "linkFind", "addLink", "picture", "avatarRead", "avatarSet", "unlink",
          "linked", "forceUnlink", "identify", "invalidate", "insertCode", "findCode",
          "countAttempt", "useCode", "mintReset", "markVerified", "nameTaken", "writeName",
          "writeAvatar", "clearAvatar"}

TypeOK ==
    /\ acct \in [Users -> Docs \cup {NULL}]
    /\ codes \in [CodeIds -> CodeDocs \cup {NULL, Expired}]
    /\ now \in 0 .. MaxTime
    /\ resets \in SUBSET (Users \X Nat)
    /\ workload \in Workloads
    /\ changed \in [Users -> 0 .. MaxTime] /\ ended \in [Users -> SUBSET (0 .. MaxTime)]
    /\ serial \in BOOLEAN
    /\ DOMAIN req = Reqs
    /\ \A r \in Reqs : req[r] # NULL =>
          /\ req[r].call \in Calls /\ req[r].raced \in BOOLEAN
          /\ req[r].todo # <<>> /\ Head(req[r].todo) \in Steps
          /\ req[r].user \in Users \cup {NULL} /\ req[r].doc \in Docs \cup {NULL}
          /\ req[r].token \in Nat \cup {NULL} /\ req[r].link \in Links \cup {NULL}
          /\ req[r].email \in Emails \cup {NULL}
-----------------------------------------------------------------------------
At(r, step) == req[r] # NULL /\ Head(req[r].todo) = step
Op(r) == req[r].call.op
Arg(r) == req[r].call.arg
Caller(r) == req[r].call.user

(* Request r goes on with the steps todo, or answers when none is left.    *)
Next1(r, todo, new) == IF todo = <<>> THEN NULL ELSE [new EXCEPT !.todo = todo]

(* A step of r that writes nothing.                                        *)
Goes(r, todo, new) ==
    /\ req' = [req EXCEPT ![r] = Next1(r, todo, new)]
    /\ UNCHANGED data
Reads(r, new) == Goes(r, Tail(req[r].todo), new)
Refuse(r) == Goes(r, <<>>, NULL)
ReadsIf(ok, r, new) == \/ ok /\ Reads(r, new)
                       \/ ~ok /\ Refuse(r)

(* A step of r that writes: the other requests have now been overtaken.    *)
Writes(r, todo, new) ==
    /\ req' = [s \in Reqs |-> CASE s = r -> Next1(r, todo, new)
                                [] s # r /\ req[s] = NULL -> NULL
                                [] s # r /\ req[s] # NULL -> [req[s] EXCEPT !.raced = TRUE]]
    /\ serial' = (serial /\ ~req[r].raced)
    /\ UNCHANGED <<now, workload>>
WritesAccount(r, new) ==
    /\ Writes(r, Tail(req[r].todo), new)
    /\ UNCHANGED <<codes, resets>>
WritesCodes(r, new) ==
    /\ Writes(r, Tail(req[r].todo), new)
    /\ UNCHANGED <<acct, history>>

(* The sessions of u with the tokens T are meant to be over, but for those *)
(* whose token has the second at of the step that ends them.               *)
End(u, T, at) == ended' = [ended EXCEPT ![u] = @ \cup {t \in T : t < at}]
-----------------------------------------------------------------------------
(* A request arrives.  The bound: a code is left for every one it issues.  *)
(* A reset needs a reset JWT that has not expired.                         *)
Arrive(r, call) ==
    /\ req[r] = NULL
    /\ call.op \in workload.ops
    /\ call.op \in {"signIn", "link", "revoke"} => call.arg.external \in workload.ids
    /\ call.op \in {"rotate", "logout", "logoutAll"} => call.arg <= now
    /\ call.op = "resetPassword" => \E e \in now + 1 .. MaxTime + ResetLifetime :
                                        <<call.user, e>> \in resets
    /\ call.op \in {"register", "requestReset", "requestVerification"} =>
          Cardinality(Unissued) > Cardinality({s \in Reqs :
              req[s] # NULL /\ Op(s) \in {"register", "requestReset", "requestVerification"}})
    /\ req' = [req EXCEPT ![r] = Fresh(call)]
    /\ UNCHANGED data

(* A provider, the database or the queue fails, a client has not accepted  *)
(* the current terms, or the process stops, between two steps.             *)
Abort(r) == req[r] # NULL /\ Refuse(r)

Tick ==
    /\ now < workload.clock
    /\ now' = now + 1
    /\ UNCHANGED <<acct, codes, resets, req, workload, changed, ended, serial>>

(* The TTL index removes a code some time after it expired.                *)
ExpireCode(c) ==
    /\ c \in Stored /\ codes[c].expires <= now
    /\ codes' = [codes EXCEPT ![c] = Expired]
    /\ UNCHANGED <<acct, now, resets, req, workload, changed, ended, serial>>
-----------------------------------------------------------------------------
(* What the services ask of the document a request has loaded.             *)
MayChangePassword(doc, current, new) == doc.password = current /\ new # doc.password
MayCreatePassword(doc) == doc.password = NULL
MayRequestVerification(doc) == ~doc.verified
MayUseAvatar(doc, p) == \E l \in doc.links : l.provider = p /\ l.picture

(* Mutant: the last method of an account may be disconnected.              *)
MayDisconnectAny(doc, p) == \E l \in doc.links : l.provider = p

MayDisconnect(doc, p) ==
    /\ \E l \in doc.links : l.provider = p
    /\ doc.password # NULL \/ \E l \in doc.links : l.provider # p

LoadGuard(r, doc) ==
    /\ Op(r) = "changePassword" => MayChangePassword(doc, Arg(r).current, Arg(r).new)
    /\ Op(r) = "createPassword" => MayCreatePassword(doc)
    /\ Op(r) = "disconnect" => MayDisconnect(doc, Arg(r))
    /\ Op(r) = "requestVerification" => MayRequestVerification(doc)
    /\ Op(r) = "setAvatar" => MayUseAvatar(doc, Arg(r))

(* The user an access token or a reset JWT names.  A document that its     *)
(* validator rejects cannot be loaded at all.  Of the document the later   *)
(* steps use what resetting a password and renaming still ask of it.       *)
Load(r) ==
    LET u == Caller(r) IN
    /\ At(r, "load")
    /\ ReadsIf(u \in Accounts /\ Loadable(acct[u]) /\ LoadGuard(r, acct[u]), r,
               [req[r] EXCEPT
                    !.user = u,
                    !.doc = IF Op(r) \in {"resetPassword", "updateProfile"} THEN acct[u] ELSE NULL,
                    !.token = IF "writePassword" \in ToSet(req[r].todo) THEN now ELSE NULL])

(* register_user.                                                          *)
NameFree(r) == At(r, "nameFree") /\ ReadsIf(ByName(Arg(r).name) = {}, r, req[r])
EmailFree(r) == At(r, "emailFree") /\ ReadsIf(ByEmail(Arg(r).email) = {}, r, req[r])

(* The insert of a document: the unique indexes decide between two.        *)
Inserts(r, u, doc) ==
    /\ u \notin Accounts /\ ~Clashes(u, doc)
    /\ acct' = [acct EXCEPT ![u] = doc]
    /\ UNCHANGED history
    /\ WritesAccount(r, [req[r] EXCEPT !.user = u, !.doc = doc, !.token = now])

NewDoc(name, email, password, links, avatar) ==
    [name |-> name, email |-> email, password |-> password, links |-> links,
     avatar |-> avatar, tokens |-> {}, verified |-> FALSE]

SaveUser(r) ==
    LET doc == NewDoc(Arg(r).name, Arg(r).email, Arg(r).password, {}, NULL) IN
    /\ At(r, "saveUser")
    /\ \/ \E u \in Users : Inserts(r, u, doc)
       \/ (\E u \in Users : Clashes(u, doc)) /\ Refuse(r)

(* login_user, up to the tokens it creates.                                *)
Find(r) ==
    /\ At(r, "find")
    /\ \/ \E u \in ByName(Arg(r).name) :
             ReadsIf(Loadable(acct[u]) /\ acct[u].password = Arg(r).password, r,
                     [req[r] EXCEPT !.user = u, !.token = now])
       \/ ByName(Arg(r).name) = {} /\ Refuse(r)

(* push_refresh_token_by_id, the end of every way to open a session.       *)
Push(r) ==
    /\ At(r, "push")
    /\ acct' = PushToken(req[r].user, req[r].token)
    /\ UNCHANGED history
    /\ WritesAccount(r, [req[r] EXCEPT !.token = NULL])

(* rotate_refresh_token, logout and logout_all.                            *)
Pull(r) ==
    LET u == Caller(r) IN
    /\ At(r, "pull")
    /\ \/ /\ u \in Accounts /\ Arg(r) \in acct[u].tokens
          /\ acct' = PullToken(u, Arg(r))
          /\ End(u, {Arg(r)}, now) /\ UNCHANGED changed
          /\ WritesAccount(r, [req[r] EXCEPT !.user = u, !.token = now])
       \/ ~(u \in Accounts /\ Arg(r) \in acct[u].tokens) /\ Refuse(r)

Logout(r) ==
    LET u == Caller(r) IN
    /\ At(r, "logout")
    /\ \/ /\ u \in Accounts /\ Arg(r) \in acct[u].tokens
          /\ acct' = PullToken(u, Arg(r))
          /\ End(u, {Arg(r)}, now) /\ UNCHANGED changed
          /\ WritesAccount(r, req[r])
       \/ ~(u \in Accounts /\ Arg(r) \in acct[u].tokens) /\ Refuse(r)

LogoutAll(r) ==
    LET u == Caller(r) IN
    /\ At(r, "clear")
    /\ \/ /\ u \in Accounts /\ Arg(r) \in acct[u].tokens
          /\ acct' = ClearTokens(u)
          /\ End(u, 0 .. now, now) /\ UNCHANGED changed
          /\ WritesAccount(r, req[r])
       \/ ~(u \in Accounts /\ Arg(r) \in acct[u].tokens) /\ Refuse(r)

(* change_password and set_password: decided on the loaded document.       *)
SetPassword(r) ==
    LET u == req[r].user IN
    /\ At(r, "writePassword")
    /\ acct' = WritePassword(u, Arg(r).new, req[r].token,
                             Op(r) = "resetPassword" /\ ~req[r].doc.verified)
    /\ End(u, 0 .. now, req[r].token)
    /\ changed' = [changed EXCEPT ![u] = req[r].token]
    /\ WritesAccount(r, [req[r] EXCEPT !.token = NULL])

(* The notice a use case ends with is put on the mail queue.               *)
SendMail(r) == At(r, "mail") /\ Reads(r, [req[r] EXCEPT !.doc = NULL])
-----------------------------------------------------------------------------
(* The provider vouches for an identity, its address and maybe a picture.  *)
(* Without a redirect URI Gravatar's code cannot be redeemed, and a        *)
(* sign-in never carries one.                                              *)
Verify(r) ==
    /\ At(r, "verify")
    /\ \/ /\ Arg(r).provider = "GRAVATAR" => Arg(r).redirect
          /\ \E picture \in BOOLEAN, e \in Emails :
                Reads(r, [req[r] EXCEPT
                    !.email = IF Op(r) = "signIn" THEN e ELSE NULL,
                    !.link = [provider |-> Arg(r).provider, external |-> Arg(r).external,
                              picture |-> picture]])
       \/ Arg(r).provider = "GRAVATAR" /\ ~Arg(r).redirect /\ Refuse(r)

Claimants(r) == ByIdentity(req[r].link.provider, req[r].link.external)

(* sign_in_with_provider.  Only a picture claim is synchronised.           *)
Identify(r) ==
    /\ At(r, "identity")
    /\ \/ \E u \in Claimants(r) :
             Goes(r, IF req[r].link.picture THEN SyncPicture \o <<"push">> ELSE <<"push">>,
                  [req[r] EXCEPT !.user = u, !.token = now])
       \/ Claimants(r) = {} /\ Goes(r, <<"emailTaken">>, req[r])

EmailTaken(r) ==
    /\ At(r, "emailTaken")
    /\ \/ ByEmail(req[r].email) = {} /\ Goes(r, <<"makeName">>, req[r])
       \/ ByEmail(req[r].email) # {} /\ Refuse(r)

(* make_username comes back with a name that was free when it looked.      *)
MakeName(r) ==
    /\ At(r, "makeName")
    /\ \/ \E n \in Names : /\ ByName(n) = {}
                           /\ Goes(r, <<"create", "push", "mail">>,
                                   [req[r] EXCEPT !.doc = NewDoc(n, req[r].email, NULL, {req[r].link},
                                        IF req[r].link.picture THEN req[r].link.provider ELSE NULL)])
       \/ (\A n \in Names : ByName(n) # {}) /\ Refuse(r)   \* bound: names run out

CreateAccount(r) ==
    /\ At(r, "create")
    /\ \/ \E u \in Users : Inserts(r, u, req[r].doc)
       \/ /\ \E u \in Users : Clashes(u, req[r].doc)
          /\ Goes(r, <<"winner", "push">>, [req[r] EXCEPT !.doc = NULL])

(* Mutant: the loser of a race signs in to whoever holds the address.      *)
FindAddressee(r) ==
    /\ At(r, "winner")
    /\ \/ \E u \in ByEmail(req[r].email) : Reads(r, [req[r] EXCEPT !.user = u, !.token = now])
       \/ ByEmail(req[r].email) = {} /\ Refuse(r)

FindWinner(r) ==
    /\ At(r, "winner")
    /\ \/ \E u \in Claimants(r) : Reads(r, [req[r] EXCEPT !.user = u, !.token = now])
       \/ Claimants(r) = {} /\ Refuse(r)

(* link_provider.                                                          *)
LinkFind(r) ==
    LET u == req[r].user IN
    /\ At(r, "linkFind")
    /\ \/ Claimants(r) = {} /\ Goes(r, <<"addLink", "mail">>, req[r])
       \/ /\ u \in Claimants(r)
          /\ Goes(r, IF req[r].link.picture THEN SyncPicture \o <<"mail">> ELSE <<"mail">>, req[r])
       \/ Claimants(r) \ {u} # {} /\ Refuse(r)

AddProvider(r) ==
    LET u == req[r].user
        doc == [acct[u] EXCEPT !.links = @ \cup {req[r].link}]
    IN
    /\ At(r, "addLink")
    /\ \/ /\ ~Clashes(u, doc)
          /\ acct' = AddLink(u, req[r].link)
          /\ UNCHANGED history
          /\ WritesAccount(r, req[r])
       \/ Clashes(u, doc) /\ Refuse(r)

(* __sync_oauth_picture_metadata: the stored picture, and the avatar again *)
(* if it was this provider's when read.                                    *)
WritePicture(r) ==
    /\ At(r, "picture")
    /\ acct' = SetPicture(req[r].user, req[r].link.provider)
    /\ UNCHANGED history
    /\ WritesAccount(r, req[r])

(* Mutant: a sign-in adopts the provider's picture whatever was chosen.    *)
ReadAvatarAlways(r) ==
    At(r, "avatarRead") /\ Goes(r, <<"avatarSet">> \o Tail(req[r].todo), req[r])

ReadAvatar(r) ==
    /\ At(r, "avatarRead")
    /\ Goes(r, IF acct[req[r].user].avatar = req[r].link.provider
               THEN <<"avatarSet">> \o Tail(req[r].todo) ELSE Tail(req[r].todo), req[r])

RefreshAvatar(r) ==
    /\ At(r, "avatarSet")
    /\ acct' = SetAvatar(req[r].user, req[r].link.provider)
    /\ UNCHANGED history
    /\ WritesAccount(r, req[r])

(* disconnect_provider, judged on the loaded document.                     *)
Unlink(r) ==
    /\ At(r, "unlink")
    /\ acct' = RemoveLinks(req[r].user, Arg(r))
    /\ UNCHANGED history
    /\ WritesAccount(r, req[r])

(* revoke_provider_link: whoever holds the identity loses the provider,    *)
(* and is written to if the document found had no other method.            *)
FindLinked(r) ==
    LET found == ByIdentity(Arg(r).provider, Arg(r).external) IN
    /\ At(r, "linked")
    /\ \/ \E u \in found : ReadsIf(Loadable(acct[u]), r, [req[r] EXCEPT !.user = u, !.doc = acct[u]])
       \/ found = {} /\ Refuse(r)

LockedOut(doc, p) == doc.password = NULL /\ \A l \in doc.links : l.provider = p

ForceUnlink(r) ==
    /\ At(r, "forceUnlink")
    /\ acct' = RemoveLinks(req[r].user, Arg(r).provider)
    /\ UNCHANGED <<history, codes, resets>>
    /\ Writes(r, IF LockedOut(req[r].doc, Arg(r).provider) THEN <<"mail">> ELSE <<>>, req[r])
-----------------------------------------------------------------------------
(* request_password_reset and validate_password_reset_code name an account *)
(* by its address or username.                                             *)
IdentifyUser(r) ==
    /\ At(r, "identify")
    /\ ReadsIf(Caller(r) \in Accounts, r, [req[r] EXCEPT !.user = Caller(r)])

Scope(r) == IF Op(r) \in {"requestReset", "validateReset"} THEN "PASSWORD_RESET" ELSE "EMAIL"

(* Mutant: the earlier codes stay valid.                                   *)
KeepCodes(r) ==
    /\ At(r, "invalidate")
    /\ codes' = codes /\ UNCHANGED resets
    /\ WritesCodes(r, req[r])

(* create_and_invalidate_previous, two database calls.                     *)
InvalidateCodes(r) ==
    /\ At(r, "invalidate")
    /\ codes' = Invalidate(req[r].user, Scope(r))
    /\ UNCHANGED resets
    /\ WritesCodes(r, req[r])

InsertCode(r) ==
    /\ At(r, "insertCode")
    /\ \E c \in Unissued : codes' = [codes EXCEPT ![c] = NewCode(req[r].user, Scope(r), now)]
    /\ UNCHANGED resets
    /\ WritesCodes(r, req[r])

(* validate_code: the client knows the code it was mailed, or guesses.     *)
FindCode(r) ==
    LET c == Arg(r)
        found == c \in Active(req[r].user, Scope(r))
    IN
    /\ At(r, "findCode")
    /\ \/ found /\ codes[c].expires > now /\ Reads(r, req[r])
       \/ found /\ codes[c].expires <= now /\ Refuse(r)
       \/ ~found /\ Goes(r, <<"countAttempt">>, req[r])

CountFailure(r) ==
    /\ At(r, "countAttempt")
    /\ codes' \in CountAttempt(req[r].user, Scope(r))
    /\ UNCHANGED resets
    /\ WritesCodes(r, req[r])

UseCode(r) ==
    /\ At(r, "useCode")
    /\ codes' = Deactivate(Arg(r))
    /\ UNCHANGED resets
    /\ WritesCodes(r, req[r])

(* The JWT that entitles to a reset goes to the client and is not stored.  *)
MintReset(r) ==
    /\ At(r, "mintReset")
    /\ req' = [req EXCEPT ![r] = NULL]
    /\ resets' = resets \cup {<<req[r].user, now + ResetLifetime>>}
    /\ UNCHANGED <<acct, codes, now, workload, changed, ended, serial>>

ConfirmVerified(r) ==
    /\ At(r, "markVerified")
    /\ acct' = MarkVerified(req[r].user)
    /\ UNCHANGED history
    /\ WritesAccount(r, req[r])

(* update_profile, set_avatar_source and clear_avatar.                     *)
NameTaken(r) ==
    At(r, "nameTaken") /\ ReadsIf(Arg(r) = req[r].doc.name \/ ByName(Arg(r)) = {}, r, req[r])

WriteName(r) ==
    LET u == req[r].user IN
    /\ At(r, "writeName")
    /\ \/ /\ ByName(Arg(r)) \subseteq {u}
          /\ acct' = SetName(u, Arg(r))
          /\ UNCHANGED history
          /\ WritesAccount(r, req[r])
       \/ ~(ByName(Arg(r)) \subseteq {u}) /\ Refuse(r)

ChooseAvatar(r) ==
    /\ At(r, "writeAvatar")
    /\ acct' = SetAvatar(req[r].user, Arg(r))
    /\ UNCHANGED history
    /\ WritesAccount(r, req[r])

ClearAvatar(r) ==
    /\ At(r, "clearAvatar")
    /\ \/ /\ Caller(r) \in Accounts
          /\ acct' = SetAvatar(Caller(r), NULL)
          /\ UNCHANGED history
          /\ WritesAccount(r, req[r])
       \/ Caller(r) \notin Accounts /\ Refuse(r)
-----------------------------------------------------------------------------
(* The service as it is first deployed, or with one account: registered,   *)
(* or created by a sign-in with Google and maybe linked to Gravatar since. *)
FirstLinks(ids) ==
    {L \in SUBSET [provider : Providers, external : ids, picture : {FALSE}] :
        /\ \E l \in L : l.provider = "GOOGLE"
        /\ \A l, m \in L : l.provider = m.provider => l = m}

Init ==
    /\ now = 0
    /\ workload \in Workloads
    /\ acct = [u \in Users |-> NULL] \/
       \E u \in Users, n \in Names, e \in Emails, p \in Passwords \cup {NULL},
          L \in {{}} \cup FirstLinks(workload.ids) :
             /\ p = NULL <=> L # {}
             /\ acct = [v \in Users |-> IF v # u THEN NULL ELSE NewDoc(n, e, p, L, NULL)]
    /\ codes = [c \in CodeIds |-> NULL]
    /\ resets = {}
    /\ req = [r \in Reqs |-> NULL]
    /\ changed = [u \in Users |-> 0]
    /\ ended = [u \in Users |-> {}]
    /\ serial = TRUE

Step(r) ==
    \/ Load(r) \/ NameFree(r) \/ EmailFree(r) \/ SaveUser(r) \/ Find(r) \/ Push(r)
    \/ Pull(r) \/ Logout(r) \/ LogoutAll(r) \/ SetPassword(r) \/ SendMail(r)
    \/ Verify(r) \/ Identify(r) \/ EmailTaken(r) \/ MakeName(r) \/ CreateAccount(r) \/ FindWinner(r)
    \/ LinkFind(r) \/ AddProvider(r) \/ WritePicture(r) \/ ReadAvatar(r) \/ RefreshAvatar(r)
    \/ Unlink(r) \/ FindLinked(r) \/ ForceUnlink(r)
    \/ IdentifyUser(r) \/ InvalidateCodes(r) \/ InsertCode(r) \/ FindCode(r) \/ CountFailure(r)
    \/ UseCode(r) \/ MintReset(r) \/ ConfirmVerified(r)
    \/ NameTaken(r) \/ WriteName(r) \/ ChooseAvatar(r) \/ ClearAvatar(r)

Next ==
    \/ \E r \in Reqs, call \in Calls : Arrive(r, call)
    \/ \E r \in Reqs : Step(r) \/ Abort(r)
    \/ Tick
    \/ \E c \in CodeIds : ExpireCode(c)

Spec == Init /\ [][Next]_vars
-----------------------------------------------------------------------------
(* An account with the provider under another id, and with the id at the   *)
(* other provider: the lookup of an identity finds it although it does not *)
(* hold the identity.                                                      *)
Crosses(doc, p, x) ==
    \E l, m \in doc.links : l.provider = p /\ m.external = x /\ l.external # x /\ m.provider # p

(* An identity, an address and a username belong to at most one account,   *)
(* and a sign-in or a revocation at the provider, also a sign-in that lost *)
(* the race to create its account, goes on with an account that holds the  *)
(* identity when it is looked up, or with one that merely crosses it.      *)
OneAccount ==
    /\ [](\A u, v \in Accounts : u # v => ~Clashes(u, acct[u]))
    /\ [][\A r \in Reqs :
            LET before == req[r]  after == req'[r] IN
            /\ before # NULL /\ after # NULL
            /\ before.call.op \in {"signIn", "revoke"} /\ before.user = NULL /\ after.user # NULL
            => \/ <<Arg(r).provider, Arg(r).external>> \in Identities(acct'[after.user])
               \/ Crosses(acct'[after.user], Arg(r).provider, Arg(r).external)]_vars

(* Requests that do not overtake one another never leave an account        *)
(* without a way to sign in, except by a revocation at the provider:       *)
(* "Cannot disconnect your only remaining way to sign in."                 *)
NeverLockedOut ==
    [][\A u \in Accounts :
        serial' /\ HasMethod(acct[u]) /\ ~HasMethod(acct'[u]) =>
            \E r \in Reqs : At(r, "forceUnlink") /\ req'[r] # req[r]]_vars

(* ... and keep ended sessions ended: after a password change or reset     *)
(* only sessions begun since are left, and a token that was rotated or     *)
(* logged out after the second it was issued in is never accepted again.   *)
SessionsEnd ==
    serial => \A u \in Accounts :
        /\ \A t \in acct[u].tokens : t >= changed[u]
        /\ acct[u].tokens \cap ended[u] = {}

(* A code that was used, replaced or burnt by failed attempts never works  *)
(* again, whatever attempts, validations and requests for codes race.      *)
CodesStayUsed ==
    [][\A c \in Stored : ~codes[c].active /\ codes'[c] # Expired => ~codes'[c].active]_vars

(* ... and of the codes mailed to a user for one purpose only the latest   *)
(* works, unless two requests for a code overtook one another.             *)
OneActiveCode ==
    serial => \A u \in Users, s \in Scopes : Cardinality(Active(u, s)) <= 1

(* Signing in or linking again never replaces the avatar the user chose,   *)
(* or brings back one the user has removed.                                *)
AvatarChoiceKept ==
    [][\A u \in Accounts : serial' /\ acct'[u].avatar # acct[u].avatar =>
        \E r \in Reqs : /\ At(r, "writeAvatar") \/ At(r, "clearAvatar")
                        /\ req'[r] # req[r]]_vars

(* No account has two entries of one provider: "The same provider          *)
(* credential cannot be linked twice on one account."                      *)
OneLinkPerProvider == \A u \in Accounts : Loadable(acct[u])
=============================================================================
