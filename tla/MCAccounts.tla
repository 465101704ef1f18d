----------------------------- MODULE MCAccounts -----------------------------
(* Instances of Accounts for TLC.                                          *)
EXTENDS Accounts, TLC

Work(ops, ids, clock) == [ops |-> ops, ids |-> ids, clock |-> clock]
One == {CHOOSE x \in Externals : TRUE}

(* Each behaviour has the clients of one of these workloads, and a clock   *)
(* that advances where sessions or codes can expire.  Two ids at the       *)
(* providers are there where they tell a lookup from an identity.          *)
MCWorkloads ==
    {Work({"login", "rotate", "logout", "logoutAll", "changePassword"}, One, 1),
     Work({"requestReset", "validateReset"}, {}, 1),
     Work({"requestReset", "validateReset", "resetPassword"}, One, 0),
     Work({"requestVerification", "confirmVerification", "requestReset"}, {}, 1),
     Work({"register", "signIn"}, One, 0),
     Work({"register", "updateProfile"}, {}, 0),
     Work({"signIn"}, Externals, 0),
     Work({"signIn", "link"}, One, 0),
     Work({"link", "disconnect"}, One, 0),
     Work({"link", "revoke"}, One, 0),
     Work({"createPassword", "disconnect", "revoke"}, Externals, 0),
     Work({"signIn", "setAvatar", "clearAvatar"}, One, 0)}

Linking == {Work({"link", "disconnect"}, Externals, 0)}

Symmetry == Permutations(Users) \cup Permutations(Names) \cup Permutations(Emails)
                \cup Permutations(Passwords) \cup Permutations(Reqs) \cup Permutations(CodeIds)
=============================================================================
