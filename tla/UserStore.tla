----------------------------- MODULE UserStore -----------------------------
(***************************************************************************)
(* The collection "users" as the services see it: the documents of         *)
(* models/user.py with their unique indexes, and the reads and writes of   *)
(* repositories/beanie/user.py, each of which is one database call.  A     *)
(* write is given as the new value of the collection.                      *)
(*                                                                         *)
(* A refresh token is a JWT over the user's id, its type and an expiry in  *)
(* whole seconds, so a token of a user is identified by the second it was  *)
(* issued in, and the list of tokens by its set: $pull removes every copy. *)
(***************************************************************************)
EXTENDS Naturals, FiniteSets

CONSTANTS
    Users,      \* the user ids the database can give out
    Names,      \* usernames
    Emails,     \* e-mail addresses
    Passwords,  \* passwords; a hash is its password
    Externals,  \* the ids accounts have at a provider
    NULL        \* None

VARIABLE acct   \* acct[u]: the document of user u, NULL if there is none

(* AuthProviderName.                                                       *)
Providers == {"GOOGLE", "GRAVATAR"}

(* An entry of linked_providers; picture: whether it carries a picture.    *)
Links == [provider : Providers, external : Externals, picture : BOOLEAN]

Docs == [name : Names, email : Emails, password : Passwords \cup {NULL},
         links : SUBSET Links, avatar : Providers \cup {NULL},
         tokens : SUBSET Nat, verified : BOOLEAN]

ASSUME UserAssumption == NULL \notin Users \cup Passwords \cup Links \cup Docs

Accounts == {u \in Users : acct[u] # NULL}

(* The identities of a document: the keys of unique_linked_provider_identity. *)
Identities(doc) == {<<l.provider, l.external>> : l \in doc.links}

(* The validator that runs whenever a whole document is loaded or saved.   *)
Loadable(doc) == \A l, m \in doc.links : l.provider = m.provider => l = m

(* The unique indexes: a document v other than u's own holds a key of doc. *)
Clashes(u, doc) ==
    \E v \in Accounts \ {u} :
        \/ acct[v].name = doc.name
        \/ acct[v].email = doc.email
        \/ Identities(acct[v]) \cap Identities(doc) # {}

ByName(n) == {u \in Accounts : acct[u].name = n}
ByEmail(e) == {u \in Accounts : acct[u].email = e}
(* The lookup compares the two fields separately, so that an account with  *)
(* an entry of the provider and another entry with the id is found too.    *)
ByIdentity(p, x) ==
    {u \in Accounts : (\E l \in acct[u].links : l.provider = p)
                      /\ (\E l \in acct[u].links : l.external = x)}

(* A sign-in method that still lets somebody into the account.             *)
HasMethod(doc) == doc.password # NULL \/ doc.links # {}
-----------------------------------------------------------------------------
PushToken(u, t) == [acct EXCEPT ![u].tokens = @ \cup {t}]
PullToken(u, t) == [acct EXCEPT ![u].tokens = @ \ {t}]
ClearTokens(u) == [acct EXCEPT ![u].tokens = {}]

AddLink(u, l) == [acct EXCEPT ![u].links = @ \cup {l}]
RemoveLinks(u, p) == [acct EXCEPT ![u].links = {l \in @ : l.provider # p}]
SetPicture(u, p) ==
    [acct EXCEPT ![u].links =
        {IF l.provider = p THEN [l EXCEPT !.picture = TRUE] ELSE l : l \in @}]

SetAvatar(u, p) == [acct EXCEPT ![u].avatar = p]
SetName(u, n) == [acct EXCEPT ![u].name = n]
MarkVerified(u) == [acct EXCEPT ![u].verified = TRUE]

(* Mutant: the sessions of the account stay when its password changes.     *)
WritePasswordOnly(u, p, t, verify) ==
    [acct EXCEPT ![u].password = p, ![u].tokens = @ \cup {t},
                 ![u].verified = @ \/ verify]

(* The new hash, the one remaining session and, with verify, the mark of a *)
(* confirmed address are one write.                                        *)
WritePassword(u, p, t, verify) ==
    [acct EXCEPT ![u].password = p, ![u].tokens = {t}, ![u].verified = @ \/ verify]
=============================================================================
