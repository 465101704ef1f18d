------------------------- MODULE VerificationStore -------------------------
(***************************************************************************)
(* The collection "verification_codes": models/verification.py and         *)
(* repositories/beanie/verification.py.  A code is known by its document:  *)
(* two codes of six random digits that happen to be equal are left out.    *)
(***************************************************************************)
EXTENDS UserStore

CONSTANTS
    CodeIds,      \* the ids of documents: bounds the codes ever issued
    MaxAttempts,  \* max_verification_attempts
    Lifetime,     \* the lifetime of a code, ttl_minutes
    Expired       \* stands for a document the TTL index has removed

VARIABLE codes    \* codes[c]: the document of code c; NULL before, Expired after it

Scopes == {"PASSWORD_RESET", "EMAIL"}

CodeDocs == [user : Users, scope : Scopes, attempts : 0 .. MaxAttempts,
             expires : Nat, active : BOOLEAN]

ASSUME VerificationAssumption ==
    /\ MaxAttempts \in Nat \ {0} /\ Lifetime \in Nat
    /\ NULL # Expired /\ NULL \notin CodeDocs /\ Expired \notin CodeDocs

Stored == {c \in CodeIds : codes[c] \notin {NULL, Expired}}

Active(u, s) ==
    {c \in Stored : codes[c].user = u /\ codes[c].scope = s /\ codes[c].active}

Unissued == {c \in CodeIds : codes[c] = NULL}

(* VerificationCodeModel.build                                             *)
NewCode(u, s, now) ==
    [user |-> u, scope |-> s, attempts |-> 0, expires |-> now + Lifetime, active |-> TRUE]

Invalidate(u, s) ==
    [c \in CodeIds |-> IF c \in Active(u, s) THEN [codes[c] EXCEPT !.active = FALSE]
                                             ELSE codes[c]]

Deactivate(c) ==
    [codes EXCEPT ![c] = IF c \in Stored THEN [codes[c] EXCEPT !.active = FALSE] ELSE codes[c]]

(* Mutant: the update of a failed attempt finds used codes as well.        *)
CountAttemptAny(u, s) ==
    LET all == {c \in Stored : codes[c].user = u /\ codes[c].scope = s} IN
    {[codes EXCEPT ![c] = [codes[c] EXCEPT !.attempts = @ + 1,
                                    !.active = codes[c].attempts + 1 < MaxAttempts]] :
        c \in {d \in all : codes[d].attempts < MaxAttempts}}
    \cup (IF all = {} THEN {codes} ELSE {})

(* Mutant: the code is burnt one failed attempt too late.                  *)
CountAttemptLate(u, s) ==
    {[codes EXCEPT ![c] = [codes[c] EXCEPT !.attempts = @ + 1,
                                    !.active = codes[c].attempts + 1 <= MaxAttempts]] :
        c \in Active(u, s)}
    \cup (IF Active(u, s) = {} THEN {codes} ELSE {})

(* increment_attempts_and_burn_if_exceeded: one pipeline update of any     *)
(* active code of the user and scope; the result is the set of outcomes.   *)
CountAttempt(u, s) ==
    {[codes EXCEPT ![c] = [codes[c] EXCEPT !.attempts = @ + 1,
                                    !.active = codes[c].attempts + 1 < MaxAttempts]] :
        c \in Active(u, s)}
    \cup (IF Active(u, s) = {} THEN {codes} ELSE {})
=============================================================================
