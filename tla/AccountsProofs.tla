--------------------------- MODULE AccountsProofs ---------------------------
(***************************************************************************)
(* Proofs about Accounts, for any number of users, codes and requests that *)
(* interleave.                                                             *)
(***************************************************************************)
EXTENDS Accounts, FiniteSetTheorems, TLAPS

PasswordOps == {"changePassword", "createPassword", "resetPassword"}
IssueOps == {"register", "requestReset", "requestVerification"}
CheckOps == {"validateReset", "confirmVerification"}

(* The programs read step by step: in an operation op, step s may be       *)
(* followed by t.                                                          *)
Leads(op, s, t) ==
    /\ s \in Steps
    /\ s = "load" => \/ op = "link" /\ t = "verify"
                     \/ op = "disconnect" /\ t = "unlink"
                     \/ op \in PasswordOps /\ t = "writePassword"
                     \/ op = "requestVerification" /\ t = "invalidate"
                     \/ op = "confirmVerification" /\ t = "findCode"
                     \/ op = "updateProfile" /\ t = "nameTaken"
                     \/ op = "setAvatar" /\ t = "writeAvatar"
    /\ s = "nameFree" => op = "register" /\ t = "emailFree"
    /\ s = "emailFree" => op = "register" /\ t = "saveUser"
    /\ s = "saveUser" => op = "register" /\ t = "push"
    /\ s = "find" => op = "login" /\ t = "push"
    /\ s = "push" => \/ op = "register" /\ t = "invalidate"
                     \/ op \in {"login", "rotate"} /\ t = "end"
                     \/ op = "signIn" /\ t \in {"mail", "end"}
    /\ s = "pull" => op = "rotate" /\ t = "push"
    /\ s = "logout" => op = "logout" /\ t = "end"
    /\ s = "clear" => op = "logoutAll" /\ t = "end"
    /\ s = "writePassword" => op \in PasswordOps /\ t = "mail"
    /\ s = "mail" => t = "end"
    /\ s = "verify" => \/ op = "signIn" /\ t = "identity"
                       \/ op = "link" /\ t = "linkFind"
    /\ s \in {"identity", "emailTaken", "makeName"} => op = "signIn" /\ t = "end"
    /\ s \in {"create", "winner"} => op = "signIn" /\ t = "push"
    /\ s = "linkFind" => op = "link" /\ t = "end"
    /\ s = "addLink" => op = "link" /\ t = "mail"
    /\ s = "picture" => op \in {"signIn", "link"} /\ t = "avatarRead"
    /\ s \in {"avatarRead", "avatarSet"} => \/ op = "signIn" /\ t = "push"
                                            \/ op = "link" /\ t = "mail"
    /\ s = "unlink" => op = "disconnect" /\ t = "mail"
    /\ s = "linked" => op = "revoke" /\ t = "forceUnlink"
    /\ s = "forceUnlink" => op = "revoke" /\ t = "mail"
    /\ s = "identify" => \/ op = "requestReset" /\ t = "invalidate"
                         \/ op = "validateReset" /\ t = "findCode"
    /\ s = "invalidate" => op \in IssueOps /\ t = "insertCode"
    /\ s = "insertCode" => op \in IssueOps /\ t = "mail"
    /\ s = "findCode" => op \in CheckOps /\ t = "useCode"
    /\ s = "countAttempt" => op \in CheckOps /\ t = "end"
    /\ s = "useCode" => \/ op = "validateReset" /\ t = "mintReset"
                        \/ op = "confirmVerification" /\ t = "markVerified"
    /\ s = "mintReset" => op = "validateReset" /\ t = "end"
    /\ s = "markVerified" => op = "confirmVerification" /\ t = "end"
    /\ s = "nameTaken" => op = "updateProfile" /\ t = "writeName"
    /\ s = "writeName" => op = "updateProfile" /\ t = "end"
    /\ s = "writeAvatar" => op = "setAvatar" /\ t = "end"
    /\ s = "clearAvatar" => op = "clearAvatar" /\ t = "end"

(* The steps todo, before next, are a part of the program of op.           *)
Chain(op, todo, next) ==
    /\ todo \in Seq(Steps) /\ Len(todo) # 0
    /\ \A i \in 1 .. Len(todo) - 1 : Leads(op, todo[i], todo[i + 1])
    /\ Leads(op, todo[Len(todo)], next)

Starts(todo, s) == Head(todo) = s

First == {"nameFree", "find", "verify", "pull", "logout", "clear", "load", "linked",
          "identify", "clearAvatar"}

(* What the next step of a request finds in its local variables.           *)
UserSteps == {"push", "writePassword", "linkFind", "addLink", "picture", "avatarRead",
              "avatarSet", "unlink", "forceUnlink", "invalidate", "insertCode", "findCode",
              "countAttempt", "useCode", "mintReset", "markVerified", "nameTaken", "writeName",
              "writeAvatar"}
LinkSteps == {"identity", "emailTaken", "makeName", "create", "winner", "linkFind", "addLink",
              "picture", "avatarRead", "avatarSet"}
HasToken(q) ==
    \/ Head(q.todo) \in {"push", "writePassword"}
    \/ Head(q.todo) \in {"picture", "avatarRead", "avatarSet"} /\ q.call.op = "signIn"

Requests == [call : Calls, todo : Seq(Steps), raced : BOOLEAN, user : Users \cup {NULL},
             doc : Docs \cup {NULL}, token : Nat \cup {NULL}, link : Links \cup {NULL},
             email : Emails \cup {NULL}]

Typed(q) ==
    /\ q \in Requests /\ Chain(q.call.op, q.todo, "end")
    /\ Head(q.todo) \in UserSteps \/ (Head(q.todo) = "verify" /\ q.call.op = "link") =>
          q.user \in Users
    /\ HasToken(q) => q.token \in Nat
    /\ Head(q.todo) \in {"create", "nameTaken", "forceUnlink"} => q.doc \in Docs
    /\ Head(q.todo) \in LinkSteps => q.link \in Links
    /\ Head(q.todo) \in {"identity", "emailTaken", "makeName"} => q.email \in Emails
    /\ q.link # NULL => q.link.provider = q.call.arg.provider /\ q.link.external = q.call.arg.external
    /\ Head(q.todo) = "create" => q.doc.links = {q.link} /\ q.doc.tokens = {}

(* An account, once there, stays, and so does the past.                    *)
Knows(q) ==
    /\ q.user # NULL => q.user \in Accounts
    /\ HasToken(q) => q.token <= now

ScopeOf(op) == IF op \in {"requestReset", "validateReset"} THEN "PASSWORD_RESET" ELSE "EMAIL"

(* What a request has read and no other request has written since.         *)
Unraced(q) ==
    ~q.raced =>
        /\ HasToken(q) => q.token >= changed[q.user] /\ q.token \notin ended[q.user]
        /\ Head(q.todo) = "insertCode" => Active(q.user, ScopeOf(q.call.op)) = {}
        /\ Head(q.todo) = "unlink" => MayDisconnect(acct[q.user], q.call.arg)
        /\ Head(q.todo) = "avatarSet" => acct[q.user].avatar = q.link.provider

RequestsOK ==
    /\ DOMAIN req = Reqs
    /\ \A r \in Reqs : req[r] # NULL => Typed(req[r]) /\ Knows(req[r]) /\ Unraced(req[r])

DataOK ==
    /\ acct \in [Users -> Docs \cup {NULL}]
    /\ codes \in [CodeIds -> CodeDocs \cup {NULL, Expired}]
    /\ \A c \in Stored : codes[c].active => codes[c].attempts < MaxAttempts
    /\ now \in 0 .. MaxTime /\ resets \in SUBSET (Users \X Nat)
    /\ workload \in Workloads /\ serial \in BOOLEAN
    /\ changed \in [Users -> 0 .. now]
    /\ ended \in [Users -> SUBSET (0 .. MaxTime)]
    /\ \A u \in Users : \A t \in ended[u] : t < now

(* An identity, an address and a username have one account.                *)
UniqueKeys == \A u, v \in Accounts : u # v => ~Clashes(u, acct[u])

LatestOnly ==
    serial => \A u \in Users, s \in Scopes : \A c, d \in Active(u, s) : c = d

IInv == DataOK /\ RequestsOK /\ UniqueKeys /\ SessionsEnd /\ LatestOnly

(* What a request may go on with.                                          *)
Fits(q) == Typed(q) /\ Knows(q) /\ Unraced(q)

(* What a step may never do: to take the last sign-in method of an account *)
(* or to change an avatar, but for the steps that are there for it, or to  *)
(* revive a code; and a sign-in finds the account of its identity.         *)
KeepsMethods ==
    \A u \in Accounts : serial' /\ HasMethod(acct[u]) /\ ~HasMethod(acct'[u]) =>
        \E r \in Reqs : At(r, "forceUnlink") /\ req'[r] # req[r]
KeepsAvatars ==
    \A u \in Accounts : serial' /\ acct'[u].avatar # acct[u].avatar =>
        \E r \in Reqs : (At(r, "writeAvatar") \/ At(r, "clearAvatar")) /\ req'[r] # req[r]
KeepsCodes == \A c \in Stored : ~codes[c].active /\ codes'[c] # Expired => ~codes'[c].active
Searches == {"signIn", "revoke"}
Answers(doc, p, x) == <<p, x>> \in Identities(doc) \/ Crosses(doc, p, x)
FindsIdentity ==
    \A r \in Reqs : req[r] # NULL /\ req'[r] # NULL /\ Op(r) \in Searches
                       /\ req[r].user = NULL /\ req'[r].user # NULL =>
        Answers(acct'[req'[r].user], Arg(r).provider, Arg(r).external)

Effect == IInv' /\ KeepsMethods /\ KeepsAvatars /\ KeepsCodes /\ FindsIdentity

-----------------------------------------------------------------------------
(* Programs, put together and followed.                                    *)
LEMMA ChainOne ==
    ASSUME NEW op, NEW n, NEW a \in Steps, Leads(op, a, n)
    PROVE  Chain(op, <<a>>, n) /\ Starts(<<a>>, a)
BY DEF Chain, Starts

(* A chain of two steps.                                                   *)
LEMMA ChainTwo ==
    ASSUME NEW op, NEW n, NEW a \in Steps, NEW b \in Steps, Leads(op, a, b), Leads(op, b, n)
    PROVE  Chain(op, <<a, b>>, n) /\ Starts(<<a, b>>, a)
BY DEF Chain, Starts

(* A chain of three steps.                                                 *)
LEMMA ChainThree ==
    ASSUME NEW op, NEW n, NEW a \in Steps, NEW b \in Steps, NEW c \in Steps,
           Leads(op, a, b), Leads(op, b, c), Leads(op, c, n)
    PROVE  Chain(op, <<a, b, c>>, n) /\ Starts(<<a, b, c>>, a)
BY DEF Chain, Starts

(* A chain of four steps.                                                  *)
LEMMA ChainFour ==
    ASSUME NEW op, NEW n, NEW a \in Steps, NEW b \in Steps, NEW c \in Steps, NEW d \in Steps,
           Leads(op, a, b), Leads(op, b, c), Leads(op, c, d), Leads(op, d, n)
    PROVE  Chain(op, <<a, b, c, d>>, n) /\ Starts(<<a, b, c, d>>, a)
<1>1. PICK s : s = <<a, b, c, d>>
  OBVIOUS
<1>2. s \in Seq(Steps) /\ Len(s) = 4
  BY <1>1
<1>3. s[1] = a /\ s[2] = b /\ s[3] = c /\ s[4] = d
  BY <1>1
<1>4. \A i \in 1 .. Len(s) - 1 : i = 1 \/ i = 2 \/ i = 3
  BY <1>2
<1>5. \A i \in 1 .. Len(s) - 1 : Leads(op, s[i], s[i + 1])
  BY <1>2, <1>3, <1>4
<1> QED BY <1>1, <1>2, <1>3, <1>5 DEF Chain, Starts

(* A chain that leads to the first step of another goes on with it.        *)
LEMMA ChainConcat ==
    ASSUME NEW op, NEW n, NEW x, NEW y, NEW s, NEW t,
           Starts(x, s), Starts(y, t), Chain(op, x, t), Chain(op, y, n)
    PROVE  Chain(op, x \o y, n) /\ Starts(x \o y, s)
<1>1. /\ x \o y \in Seq(Steps) /\ Len(x \o y) = Len(x) + Len(y)
      /\ Len(x) \in Nat \ {0} /\ Len(y) \in Nat \ {0}
  BY DEF Chain
<1>2. \A i \in 1 .. Len(x) : (x \o y)[i] = x[i]
  BY DEF Chain
<1>3. \A i \in 1 .. Len(y) : (x \o y)[Len(x) + i] = y[i]
  BY DEF Chain
<1>4. ASSUME NEW i \in 1 .. Len(x \o y) - 1
      PROVE  Leads(op, (x \o y)[i], (x \o y)[i + 1])
  <2>1. CASE i < Len(x)
    BY <1>1, <1>2, <2>1 DEF Chain
  <2>2. CASE i = Len(x)
    <3>1. (x \o y)[i] = x[Len(x)] /\ (x \o y)[i + 1] = y[1]
      BY <1>1, <1>2, <1>3, <2>2
    <3>2. y[1] = t
      BY DEF Chain, Starts
    <3> QED BY <3>1, <3>2 DEF Chain
  <2>3. CASE i > Len(x)
    <3>1. PICK j \in 1 .. Len(y) - 1 : i = Len(x) + j
      <4>1. i - Len(x) \in 1 .. Len(y) - 1 /\ i = Len(x) + (i - Len(x))
        BY <1>1, <2>3
      <4> QED BY <4>1
    <3>2. (x \o y)[i] = y[j] /\ (x \o y)[i + 1] = y[j + 1]
      <4>1. j \in 1 .. Len(y) /\ j + 1 \in 1 .. Len(y) /\ i + 1 = Len(x) + (j + 1)
        BY <1>1, <3>1
      <4> QED BY <1>3, <3>1, <4>1
    <3> QED BY <3>1, <3>2 DEF Chain
  <2> QED BY <1>1, <2>1, <2>2, <2>3
<1>5. Leads(op, (x \o y)[Len(x \o y)], n)
  <2>1. Len(y) \in 1 .. Len(y)
    BY <1>1
  <2> QED BY <1>1, <1>3, <2>1 DEF Chain
<1>6. Head(x \o y) = Head(x)
  <2>1. PICK z : z = x \o y
    OBVIOUS
  <2>2. z \in Seq(Steps) /\ Len(z) # 0 /\ z[1] = x[1]
    BY <1>1, <1>2, <2>1
  <2>3. x \in Seq(Steps) /\ Len(x) # 0
    BY DEF Chain
  <2>4. Head(z) = z[1] /\ Head(x) = x[1]
    BY <2>2, <2>3
  <2> QED BY <2>1, <2>2, <2>4
<1>7. Starts(x \o y, s)
  BY <1>6 DEF Starts
<1>8. PICK z : z = x \o y
  OBVIOUS
<1>9. z \in Seq(Steps) /\ Len(z) # 0
  BY <1>1, <1>8
<1>10. \A i \in 1 .. Len(z) - 1 : Leads(op, z[i], z[i + 1])
  BY <1>4, <1>8
<1>11. Leads(op, z[Len(z)], n) /\ Starts(z, s)
  BY <1>5, <1>7, <1>8
<1>12. Chain(op, z, n)
  BY <1>9, <1>10, <1>11 DEF Chain
<1> QED BY <1>8, <1>11, <1>12

(* The rest of a chain is a chain, and its first step leads to the rest.   *)
LEMMA ChainTail ==
    ASSUME NEW op, NEW n, NEW x, Chain(op, x, n)
    PROVE  /\ Head(x) \in Steps /\ x # <<>> /\ Tail(x) # x
           /\ Tail(x) # <<>> => Chain(op, Tail(x), n) /\ Leads(op, Head(x), Head(Tail(x)))
           /\ Tail(x) = <<>> => Leads(op, Head(x), n)
<1>1. x \in Seq(Steps) /\ Len(x) \in Nat \ {0} /\ x # <<>>
  BY DEF Chain
<1>2. Head(x) = x[1] /\ Head(x) \in Steps /\ Tail(x) \in Seq(Steps)
      /\ Len(Tail(x)) = Len(x) - 1 /\ \A i \in 1 .. Len(x) - 1 : Tail(x)[i] = x[i + 1]
  BY <1>1
<1>3. CASE Len(x) = 1
  <2>1. PICK y : y = Tail(x)
    OBVIOUS
  <2>2. y \in Seq(Steps) /\ Len(y) = 0
    BY <1>2, <1>3, <2>1
  <2>3. y = <<>>
    BY <2>2
  <2>4. Leads(op, x[1], n)
    BY <1>3 DEF Chain
  <2> QED BY <1>1, <1>2, <1>3, <2>1, <2>3, <2>4
<1>4. CASE Len(x) # 1
  <2>1. PICK m \in Nat \ {0} : m = Len(x) - 1
    <3>1. Len(x) - 1 \in Nat \ {0}
      BY <1>1, <1>4
    <3> QED BY <3>1
  <2>2. PICK y : y = Tail(x)
    OBVIOUS
  <2>3. Len(x) = m + 1 /\ Len(y) = m /\ y \in Seq(Steps) /\ y # <<>>
    <3>1. Len(x) = m + 1
      BY <1>1, <2>1
    <3>2. Len(y) = m /\ y \in Seq(Steps)
      BY <1>2, <2>1, <2>2
    <3> QED BY <3>1, <3>2
  <2>4. \A i \in 1 .. m : y[i] = x[i + 1]
    BY <1>2, <2>1, <2>2
  <2>5. \A i \in 1 .. m : Leads(op, x[i], x[i + 1])
    BY <2>1, <2>3 DEF Chain
  <2>6. \A i \in 1 .. m - 1 : Leads(op, y[i], y[i + 1])
    BY <2>4, <2>5
  <2>7. y[m] = x[m + 1]
    BY <2>4
  <2>8. Leads(op, y[Len(y)], n)
    BY <2>3, <2>7 DEF Chain
  <2>9. Leads(op, x[1], y[1]) /\ Head(y) = y[1]
    BY <2>3, <2>4, <2>5
  <2> QED BY <1>1, <1>2, <2>2, <2>3, <2>6, <2>8, <2>9 DEF Chain
<1> QED BY <1>3, <1>4

(* The first step of a chain belongs to the operation.                     *)
LEMMA ChainHead ==
    ASSUME NEW op, NEW n, NEW x, Chain(op, x, n)
    PROVE  x # <<>> /\ \E t : Leads(op, Head(x), t)
BY DEF Chain

(* The programs of the use cases are such chains.                          *)
LEMMA IssueChain ==
    ASSUME NEW op \in IssueOps, NEW s, NEW x, Starts(x, s), Chain(op, x, "invalidate")
    PROVE  /\ Chain(op, (x \o IssueCode) \o <<"mail">>, "end")
           /\ Starts((x \o IssueCode) \o <<"mail">>, s)
<1>1. Chain(op, IssueCode, "mail") /\ Starts(IssueCode, "invalidate")
  BY ChainTwo DEF IssueCode, Leads, Steps, IssueOps
<1>2. Chain(op, <<"mail">>, "end") /\ Starts(<<"mail">>, "mail")
  BY ChainOne DEF Leads, Steps
<1>3. Chain(op, x \o IssueCode, "mail") /\ Starts(x \o IssueCode, s)
  BY <1>1, ChainConcat
<1> QED BY <1>2, <1>3, ChainConcat

(* Each program is a chain of its operation, from a step that needs        *)
(* nothing but the call to the answer.                                     *)
LEMMA Programs ==
    ASSUME NEW call \in Calls
    PROVE  /\ Chain(call.op, Program[call.op], "end")
           /\ \E s \in First : /\ Starts(Program[call.op], s)
                               /\ s = "verify" => call.op = "signIn"
<1>1. CASE call.op = "register"
  <2>1. Chain("register", <<"nameFree", "emailFree", "saveUser", "push">>, "invalidate")
        /\ Starts(<<"nameFree", "emailFree", "saveUser", "push">>, "nameFree")
    <3>1. Leads("register", "nameFree", "emailFree")
      BY DEF Leads, Steps, IssueOps
    <3>2. Leads("register", "emailFree", "saveUser")
      BY DEF Leads, Steps, IssueOps
    <3>3. Leads("register", "saveUser", "push")
      BY DEF Leads, Steps, IssueOps
    <3>4. Leads("register", "push", "invalidate")
      BY DEF Leads, Steps, IssueOps
    <3>5. "nameFree" \in Steps /\ "emailFree" \in Steps /\ "saveUser" \in Steps /\ "push" \in Steps
      BY DEF Steps
    <3> QED BY <3>1, <3>2, <3>3, <3>4, <3>5, ChainFour, Zenon
  <2>2. PICK x : x = <<"nameFree", "emailFree", "saveUser", "push">>
    OBVIOUS
  <2>3. Chain("register", (x \o IssueCode) \o <<"mail">>, "end")
        /\ Starts((x \o IssueCode) \o <<"mail">>, "nameFree")
    BY <2>1, <2>2, IssueChain DEF IssueOps
  <2>4. Program["register"] = (x \o IssueCode) \o <<"mail">>
    BY <2>2 DEF Program, RegisterUser
  <2> QED BY <1>1, <2>3, <2>4 DEF First
<1>2. CASE call.op = "requestReset"
  <2>1. Chain("requestReset", <<"identify">>, "invalidate")
        /\ Starts(<<"identify">>, "identify")
    BY ChainOne DEF Leads, Steps, IssueOps
  <2>2. PICK x : x = <<"identify">>
    OBVIOUS
  <2>3. Chain("requestReset", (x \o IssueCode) \o <<"mail">>, "end")
        /\ Starts((x \o IssueCode) \o <<"mail">>, "identify")
    BY <2>1, <2>2, IssueChain DEF IssueOps
  <2>4. Program["requestReset"] = (x \o IssueCode) \o <<"mail">>
    BY <2>2 DEF Program, RequestPasswordReset
  <2> QED BY <1>2, <2>3, <2>4 DEF First
<1>3. CASE call.op = "requestVerification"
  <2>1. Chain("requestVerification", <<"load">>, "invalidate")
        /\ Starts(<<"load">>, "load")
    BY ChainOne DEF Leads, Steps, IssueOps
  <2>2. PICK x : x = <<"load">>
    OBVIOUS
  <2>3. Chain("requestVerification", (x \o IssueCode) \o <<"mail">>, "end")
        /\ Starts((x \o IssueCode) \o <<"mail">>, "load")
    BY <2>1, <2>2, IssueChain DEF IssueOps
  <2>4. Program["requestVerification"] = (x \o IssueCode) \o <<"mail">>
    BY <2>2 DEF Program, RequestEmailVerification
  <2> QED BY <1>3, <2>3, <2>4 DEF First
<1>4. CASE call.op = "login"
  <2>1. Chain("login", <<"find", "push">>, "end")
        /\ Starts(<<"find", "push">>, "find")
    BY ChainTwo DEF Leads, Steps
  <2>2. Program["login"] = <<"find", "push">>
    BY DEF Program, CreateSession
  <2> QED BY <1>4, <2>1, <2>2 DEF First
<1>5. CASE call.op = "signIn"
  <2>1. Chain("signIn", <<"verify", "identity">>, "end")
        /\ Starts(<<"verify", "identity">>, "verify")
    BY ChainTwo DEF Leads, Steps
  <2>2. Program["signIn"] = <<"verify", "identity">>
    BY DEF Program, CreateSession
  <2> QED BY <1>5, <2>1, <2>2 DEF First
<1>6. CASE call.op = "rotate"
  <2>1. Chain("rotate", <<"pull", "push">>, "end")
        /\ Starts(<<"pull", "push">>, "pull")
    BY ChainTwo DEF Leads, Steps
  <2>2. Program["rotate"] = <<"pull", "push">>
    BY DEF Program
  <2> QED BY <1>6, <2>1, <2>2 DEF First
<1>7. CASE call.op = "logout"
  <2>1. Chain("logout", <<"logout">>, "end")
        /\ Starts(<<"logout">>, "logout")
    BY ChainOne DEF Leads, Steps
  <2>2. Program["logout"] = <<"logout">>
    BY DEF Program
  <2> QED BY <1>7, <2>1, <2>2 DEF First
<1>8. CASE call.op = "logoutAll"
  <2>1. Chain("logoutAll", <<"clear">>, "end")
        /\ Starts(<<"clear">>, "clear")
    BY ChainOne DEF Leads, Steps
  <2>2. Program["logoutAll"] = <<"clear">>
    BY DEF Program
  <2> QED BY <1>8, <2>1, <2>2 DEF First
<1>9. CASE call.op = "link"
  <2>1. Chain("link", <<"load", "verify", "linkFind">>, "end")
        /\ Starts(<<"load", "verify", "linkFind">>, "load")
    BY ChainThree DEF Leads, Steps
  <2>2. Program["link"] = <<"load", "verify", "linkFind">>
    BY DEF Program, LinkAuthProvider
  <2> QED BY <1>9, <2>1, <2>2 DEF First
<1>10. CASE call.op = "disconnect"
  <2>1. Chain("disconnect", <<"load", "unlink", "mail">>, "end")
        /\ Starts(<<"load", "unlink", "mail">>, "load")
    BY ChainThree DEF Leads, Steps
  <2>2. Program["disconnect"] = <<"load", "unlink", "mail">>
    BY DEF Program, DisconnectAuthProvider
  <2> QED BY <1>10, <2>1, <2>2 DEF First
<1>11. CASE call.op = "revoke"
  <2>1. Chain("revoke", <<"linked", "forceUnlink", "mail">>, "end")
        /\ Starts(<<"linked", "forceUnlink", "mail">>, "linked")
    BY ChainThree DEF Leads, Steps
  <2>2. Program["revoke"] = <<"linked", "forceUnlink", "mail">>
    BY DEF Program, RevokeAuthProvider
  <2> QED BY <1>11, <2>1, <2>2 DEF First
<1>12. CASE call.op = "changePassword"
  <2>1. Chain("changePassword", <<"load", "writePassword", "mail">>, "end")
        /\ Starts(<<"load", "writePassword", "mail">>, "load")
    BY ChainThree DEF Leads, Steps, PasswordOps
  <2>2. Program["changePassword"] = <<"load", "writePassword", "mail">>
    BY DEF Program, ChangePassword
  <2> QED BY <1>12, <2>1, <2>2 DEF First
<1>13. CASE call.op = "createPassword"
  <2>1. Chain("createPassword", <<"load", "writePassword", "mail">>, "end")
        /\ Starts(<<"load", "writePassword", "mail">>, "load")
    BY ChainThree DEF Leads, Steps, PasswordOps
  <2>2. Program["createPassword"] = <<"load", "writePassword", "mail">>
    BY DEF Program, CreatePassword
  <2> QED BY <1>13, <2>1, <2>2 DEF First
<1>14. CASE call.op = "validateReset"
  <2>1. Chain("validateReset", <<"identify", "findCode", "useCode", "mintReset">>, "end")
        /\ Starts(<<"identify", "findCode", "useCode", "mintReset">>, "identify")
    <3>1. Leads("validateReset", "identify", "findCode")
      BY DEF Leads, Steps, CheckOps
    <3>2. Leads("validateReset", "findCode", "useCode")
      BY DEF Leads, Steps, CheckOps
    <3>3. Leads("validateReset", "useCode", "mintReset")
      BY DEF Leads, Steps, CheckOps
    <3>4. Leads("validateReset", "mintReset", "end")
      BY DEF Leads, Steps, CheckOps
    <3>5. "identify" \in Steps /\ "findCode" \in Steps /\ "useCode" \in Steps /\ "mintReset" \in Steps
      BY DEF Steps
    <3> QED BY <3>1, <3>2, <3>3, <3>4, <3>5, ChainFour, Zenon
  <2>2. Program["validateReset"] = <<"identify", "findCode", "useCode", "mintReset">>
    BY DEF Program, ValidatePasswordResetCode
  <2> QED BY <1>14, <2>1, <2>2 DEF First
<1>15. CASE call.op = "resetPassword"
  <2>1. Chain("resetPassword", <<"load", "writePassword", "mail">>, "end")
        /\ Starts(<<"load", "writePassword", "mail">>, "load")
    BY ChainThree DEF Leads, Steps, PasswordOps
  <2>2. Program["resetPassword"] = <<"load", "writePassword", "mail">>
    BY DEF Program, ResetPassword
  <2> QED BY <1>15, <2>1, <2>2 DEF First
<1>16. CASE call.op = "confirmVerification"
  <2>1. Chain("confirmVerification", <<"load", "findCode", "useCode", "markVerified">>, "end")
        /\ Starts(<<"load", "findCode", "useCode", "markVerified">>, "load")
    <3>1. Leads("confirmVerification", "load", "findCode")
      BY DEF Leads, Steps, CheckOps
    <3>2. Leads("confirmVerification", "findCode", "useCode")
      BY DEF Leads, Steps, CheckOps
    <3>3. Leads("confirmVerification", "useCode", "markVerified")
      BY DEF Leads, Steps, CheckOps
    <3>4. Leads("confirmVerification", "markVerified", "end")
      BY DEF Leads, Steps, CheckOps
    <3>5. "load" \in Steps /\ "findCode" \in Steps /\ "useCode" \in Steps /\ "markVerified" \in Steps
      BY DEF Steps
    <3> QED BY <3>1, <3>2, <3>3, <3>4, <3>5, ChainFour, Zenon
  <2>2. Program["confirmVerification"] = <<"load", "findCode", "useCode", "markVerified">>
    BY DEF Program, ConfirmEmailVerification
  <2> QED BY <1>16, <2>1, <2>2 DEF First
<1>17. CASE call.op = "updateProfile"
  <2>1. Chain("updateProfile", <<"load", "nameTaken", "writeName">>, "end")
        /\ Starts(<<"load", "nameTaken", "writeName">>, "load")
    BY ChainThree DEF Leads, Steps
  <2>2. Program["updateProfile"] = <<"load", "nameTaken", "writeName">>
    BY DEF Program, UpdateProfile
  <2> QED BY <1>17, <2>1, <2>2 DEF First
<1>18. CASE call.op = "setAvatar"
  <2>1. Chain("setAvatar", <<"load", "writeAvatar">>, "end")
        /\ Starts(<<"load", "writeAvatar">>, "load")
    BY ChainTwo DEF Leads, Steps
  <2>2. Program["setAvatar"] = <<"load", "writeAvatar">>
    BY DEF Program
  <2> QED BY <1>18, <2>1, <2>2 DEF First
<1>19. CASE call.op = "clearAvatar"
  <2>1. Chain("clearAvatar", <<"clearAvatar">>, "end")
        /\ Starts(<<"clearAvatar">>, "clearAvatar")
    BY ChainOne DEF Leads, Steps
  <2>2. Program["clearAvatar"] = <<"clearAvatar">>
    BY DEF Program
  <2> QED BY <1>19, <2>1, <2>2 DEF First
<1>20. call.op \in {"register", "requestReset", "requestVerification", "login", "signIn",
           "rotate", "logout", "logoutAll", "link", "disconnect", "revoke",
           "changePassword", "createPassword", "validateReset", "resetPassword",
           "confirmVerification", "updateProfile", "setAvatar", "clearAvatar"}
  BY DEF Calls, RegisterCalls, SessionCalls, RefreshCalls, PasswordCalls, ResetCalls,
         VerificationCalls, ProviderCalls, WebhookCalls, ProfileCalls
<1> QED BY <1>1, <1>2, <1>3, <1>4, <1>5, <1>6, <1>7, <1>8, <1>9, <1>10, <1>11, <1>12, <1>13,
           <1>14, <1>15, <1>16, <1>17, <1>18, <1>19, <1>20
-----------------------------------------------------------------------------
(* Steps in general.                                                       *)
LEMMA Served ==
    ASSUME IInv, NEW r \in Reqs, req[r] # NULL
    PROVE  /\ Fits(req[r]) /\ req[r] \in Requests /\ Op(r) = req[r].call.op
           /\ req[r].call \in Calls /\ Arg(r) = req[r].call.arg /\ Caller(r) = req[r].call.user
BY DEF IInv, RequestsOK, Fits, Typed, Requests, Op, Arg, Caller

(* The rest of a program.                                                  *)
LEMMA Follows ==
    ASSUME NEW q, Typed(q), NEW p, p.call = q.call, p.todo = Tail(q.todo), p.todo # <<>>
    PROVE  /\ Chain(p.call.op, p.todo, "end") /\ p.todo \in Seq(Steps) /\ Head(p.todo) \in Steps
           /\ Leads(q.call.op, Head(q.todo), Head(p.todo))
<1>1. PICK op, x, y : op = q.call.op /\ x = q.todo /\ y = p.todo /\ y = Tail(x)
  OBVIOUS
<1>2. Chain(op, x, "end")
  BY <1>1 DEF Typed
<1>3. Chain(op, y, "end") /\ Leads(op, Head(x), Head(y))
  BY <1>1, <1>2, ChainTail
<1>4. Head(y) \in Steps
  BY <1>3, ChainTail
<1> QED BY <1>1, <1>3, <1>4 DEF Chain

(* A step of r that writes no account and no code.                         *)
LEMMA LocalEffect ==
    ASSUME IInv, NEW r \in Reqs, NEW q, req' = [req EXCEPT ![r] = q],
           UNCHANGED <<acct, codes, now, workload, changed, ended, serial>>,
           resets' \in SUBSET (Users \X Nat), q # NULL => Fits(q),
           req[r] # NULL /\ q # NULL /\ Op(r) \in Searches /\ req[r].user = NULL
                /\ q.user # NULL =>
              Answers(acct[q.user], Arg(r).provider, Arg(r).external)
    PROVE  Effect
<1>1. UNCHANGED <<acct, codes, now, workload, changed, ended, serial>>
  OBVIOUS
<1>2. DataOK'
  BY <1>1 DEF IInv, DataOK, Stored
<1>3. \A x : (Knows(x)' <=> Knows(x)) /\ (Unraced(x)' <=> Unraced(x))
  BY <1>1 DEF Knows, Unraced, Accounts, Active, Stored, HasToken
<1>4. RequestsOK'
  <2>1. DOMAIN req' = Reqs
    BY DEF IInv, RequestsOK
  <2>2. ASSUME NEW s \in Reqs, req'[s] # NULL
        PROVE  Fits(req'[s])
    <3>1. CASE s = r
      BY <2>2, <3>1 DEF IInv, RequestsOK
    <3>2. CASE s # r
      <4>1. req'[s] = req[s]
        BY <3>2 DEF IInv, RequestsOK
      <4> QED BY <2>2, <4>1 DEF IInv, RequestsOK, Fits
    <3> QED BY <3>1, <3>2
  <2> QED BY <1>3, <2>1, <2>2 DEF RequestsOK, Fits
<1>5. UniqueKeys' /\ SessionsEnd' /\ LatestOnly'
  BY <1>1 DEF IInv, UniqueKeys, SessionsEnd, LatestOnly, Accounts, Clashes, Active, Stored
<1>6. KeepsMethods /\ KeepsAvatars /\ KeepsCodes
  BY <1>1 DEF KeepsMethods, KeepsAvatars, KeepsCodes
<1>7. FindsIdentity
  <2>1. ASSUME NEW s \in Reqs, s # r
        PROVE  req'[s] = req[s]
    BY <2>1 DEF IInv, RequestsOK
  <2>2. req'[r] = q
    BY DEF IInv, RequestsOK
  <2> QED BY <1>1, <2>1, <2>2 DEF FindsIdentity
<1> QED BY <1>2, <1>4, <1>5, <1>6, <1>7 DEF Effect, IInv

(* A step of r that writes nothing.                                        *)
LEMMA ReadEffect ==
    ASSUME IInv, NEW r \in Reqs, req[r] # NULL, NEW q, req' = [req EXCEPT ![r] = q],
           UNCHANGED data, q # NULL => Fits(q),
           q # NULL /\ Op(r) \in Searches /\ req[r].user = NULL /\ q.user # NULL =>
              Answers(acct[q.user], Arg(r).provider, Arg(r).external)
    PROVE  Effect
<1>1. UNCHANGED <<acct, codes, now, resets, workload, changed, ended, serial>>
  BY DEF data
<1>2. resets' \in SUBSET (Users \X Nat)
  BY <1>1 DEF IInv, DataOK
<1> QED BY <1>1, <1>2, LocalEffect

(* A refused or aborted request leaves everything else as it was.          *)
LEMMA RefuseEffect ==
    ASSUME IInv, NEW r \in Reqs, req[r] # NULL, Refuse(r)
    PROVE  Effect
<1>1. req' = [req EXCEPT ![r] = NULL] /\ UNCHANGED data
  BY DEF Refuse, Goes, Next1
<1> QED BY <1>1, ReadEffect

(* A step of r that writes, and goes on as q: the others are overtaken.    *)
Written(r, q) ==
    /\ DOMAIN req' = Reqs /\ req'[r] = q
    /\ \A s \in Reqs \ {r} : /\ req[s] = NULL => req'[s] = NULL
                             /\ req[s] # NULL => req'[s] = [req[s] EXCEPT !.raced = TRUE]
    /\ serial' = (serial /\ ~req[r].raced)
    /\ UNCHANGED <<now, workload>>

(* Writes, read request by request.                                        *)
LEMMA WritesShape ==
    ASSUME NEW r \in Reqs, NEW todo, NEW new, Writes(r, todo, new)
    PROVE  Written(r, IF todo = <<>> THEN NULL ELSE [new EXCEPT !.todo = todo])
<1>1. PICK q : q = Next1(r, todo, new)
  OBVIOUS
<1>2. req' = [s \in Reqs |-> CASE s = r -> q
                               [] s # r /\ req[s] = NULL -> NULL
                               [] s # r /\ req[s] # NULL -> [req[s] EXCEPT !.raced = TRUE]]
  BY <1>1 DEF Writes
<1>3. DOMAIN req' = Reqs /\ req'[r] = q
  BY <1>2
<1>4. ASSUME NEW s \in Reqs \ {r}
      PROVE  /\ req[s] = NULL => req'[s] = NULL
             /\ req[s] # NULL => req'[s] = [req[s] EXCEPT !.raced = TRUE]
  BY <1>2
<1>5. q = IF todo = <<>> THEN NULL ELSE [new EXCEPT !.todo = todo]
  BY <1>1 DEF Next1
<1> QED BY <1>3, <1>4, <1>5 DEF Writes, Written

(* Who is overtaken keeps what it knows, and claims nothing else.          *)
LEMMA Overtaken ==
    ASSUME NEW p, Typed(p), NEW q, q = [p EXCEPT !.raced = TRUE]
    PROVE  /\ Typed(q) /\ q.raced /\ q.call = p.call /\ q.user = p.user /\ q.token = p.token
           /\ HasToken(q) <=> HasToken(p)
<1>1. /\ q \in Requests /\ q.raced /\ q.call = p.call /\ q.user = p.user /\ q.token = p.token
      /\ q.todo = p.todo /\ q.doc = p.doc /\ q.link = p.link /\ q.email = p.email
  BY DEF Typed, Requests
<1>2. HasToken(q) <=> HasToken(p)
  BY <1>1 DEF HasToken
<1> QED BY <1>1, <1>2 DEF Typed

(* A write keeps what is known of every request, if that holds of the      *)
(* writer.                                                                 *)
LEMMA RequestsEffect ==
    ASSUME IInv, NEW r \in Reqs, NEW q, Written(r, q), Accounts \subseteq Accounts',
           q # NULL => Typed(q) /\ Knows(q)' /\ Unraced(q)'
    PROVE  RequestsOK'
<1>1. ASSUME NEW s \in Reqs, NEW x, x = req'[s], x # NULL
      PROVE  Typed(x) /\ Knows(x)' /\ Unraced(x)'
  <2>1. CASE s = r
    BY <1>1, <2>1 DEF Written
  <2>2. CASE s # r
    <3>1. PICK p : p = req[s] /\ x = [p EXCEPT !.raced = TRUE] /\ p # NULL
      BY <1>1, <2>2 DEF Written
    <3>2. Typed(p) /\ Knows(p)
      BY <3>1 DEF IInv, RequestsOK
    <3>3. /\ Typed(x) /\ x.raced /\ x.user = p.user /\ x.token = p.token
          /\ HasToken(x) <=> HasToken(p)
      BY <3>1, <3>2, Overtaken
    <3>4. Knows(x)'
      <4>1. HasToken(x)' <=> HasToken(x)
        BY DEF HasToken
      <4> QED BY <3>2, <3>3, <4>1 DEF Knows, Written
    <3>5. Unraced(x)'
      BY <3>3 DEF Unraced
    <3> QED BY <3>3, <3>4, <3>5
  <2> QED BY <2>1, <2>2
<1>2. ASSUME NEW s \in Reqs, req'[s] # NULL
      PROVE  (Typed(req[s]) /\ Knows(req[s]) /\ Unraced(req[s]))'
  <2>1. PICK x : x = req'[s]
    OBVIOUS
  <2>2. Typed(x) /\ Knows(x)' /\ Unraced(x)'
    BY <1>1, <1>2, <2>1
  <2>3. (Typed(req[s]))'
    BY <2>1, <2>2 DEF Typed, HasToken
  <2>4. (Knows(req[s]))'
    BY <2>1, <2>2 DEF Knows, HasToken
  <2>5. (Unraced(req[s]))'
    BY <2>1, <2>2 DEF Unraced, HasToken
  <2> QED BY <2>3, <2>4, <2>5
<1> QED BY <1>2 DEF RequestsOK, Written

(* ... and the identities a sign-in finds.                                 *)
LEMMA FindsEffect ==
    ASSUME IInv, NEW r \in Reqs, NEW q, Written(r, q),
           q # NULL /\ req[r] # NULL /\ Op(r) \in Searches /\ req[r].user = NULL /\ q.user # NULL =>
              Answers(acct'[q.user], Arg(r).provider, Arg(r).external)
    PROVE  FindsIdentity
<1>1. ASSUME NEW s \in Reqs, s # r, req[s] # NULL
      PROVE  req'[s].user = req[s].user
  <2>1. PICK p : p = req[s] /\ p \in Requests /\ req'[s] = [p EXCEPT !.raced = TRUE]
    BY <1>1, Served DEF Written
  <2> QED BY <2>1 DEF Requests
<1> QED BY <1>1 DEF FindsIdentity, Written

(* The write of one account.                                               *)
LEMMA OneWritten ==
    ASSUME IInv, NEW u \in Users, NEW d \in Docs, acct' = [acct EXCEPT ![u] = d]
    PROVE  /\ acct' \in [Users -> Docs \cup {NULL}] /\ d # NULL /\ acct'[u] = d
           /\ Accounts' = Accounts \cup {u}
           /\ \A v \in Users \ {u} : acct'[v] = acct[v]
<1>1. d # NULL
  BY UserAssumption
<1>2. acct' \in [Users -> Docs \cup {NULL}] /\ acct'[u] = d
      /\ \A v \in Users \ {u} : acct'[v] = acct[v]
  BY DEF IInv, DataOK
<1> QED BY <1>1, <1>2 DEF Accounts

(* A document that clashes with no other keeps the keys unique.            *)
LEMMA KeysStayUnique ==
    ASSUME IInv, NEW u \in Users, NEW d \in Docs, acct' = [acct EXCEPT ![u] = d], ~Clashes(u, d)
    PROVE  UniqueKeys'
<1>1. /\ acct'[u] = d /\ Accounts' = Accounts \cup {u} /\ Accounts \subseteq Users
      /\ \A v \in Users \ {u} : acct'[v] = acct[v]
  BY OneWritten DEF Accounts
<1> DEFINE Same(x, y) == \/ x.name = y.name \/ x.email = y.email
                         \/ Identities(x) \cap Identities(y) # {}
<1>2. \A x, y : Same(x, y) <=> Same(y, x)
  OBVIOUS
<1>3. \A v \in Accounts \ {u} : ~Same(acct[v], d)
  BY DEF Clashes
<1>4. \A v, w \in Accounts : v # w => ~Same(acct[w], acct[v])
  BY DEF IInv, UniqueKeys, Clashes
<1>5. ASSUME NEW v \in Accounts', NEW w \in Accounts', v # w
      PROVE  ~Same(acct'[w], acct'[v])
  <2>1. CASE v = u
    <3>1. w \in Accounts \ {u} /\ acct'[w] = acct[w] /\ acct'[v] = d
      BY <1>1, <1>5, <2>1
    <3> QED BY <1>3, <3>1
  <2>2. CASE w = u
    <3>1. v \in Accounts \ {u} /\ acct'[v] = acct[v] /\ acct'[w] = d
      BY <1>1, <1>5, <2>2
    <3> QED BY <1>2, <1>3, <3>1
  <2>3. CASE v # u /\ w # u
    <3>1. v \in Accounts /\ w \in Accounts /\ acct'[v] = acct[v] /\ acct'[w] = acct[w]
      BY <1>1, <2>3
    <3> QED BY <1>4, <1>5, <3>1
  <2> QED BY <2>1, <2>2, <2>3
<1> QED BY <1>5 DEF UniqueKeys, Clashes, Identities

(* A document that keeps the keys of its account clashes with no other.    *)
LEMMA NoNewKeys ==
    ASSUME IInv, NEW u \in Accounts, NEW d, d.name = acct[u].name, d.email = acct[u].email,
           Identities(d) \subseteq Identities(acct[u])
    PROVE  ~Clashes(u, d)
BY DEF IInv, UniqueKeys, Clashes, Accounts

(* What a step of r may do to the account u, whose new document is d.      *)
Allowed(r, u, d) ==
    u \in Accounts /\ serial' =>
        /\ HasMethod(acct[u]) => HasMethod(d) \/ (At(r, "forceUnlink") /\ req'[r] # req[r])
        /\ \/ d.avatar = acct[u].avatar
           \/ (At(r, "writeAvatar") \/ At(r, "clearAvatar")) /\ req'[r] # req[r]

(* The write of one account has the effects allowed to it.                 *)
LEMMA AccountEffect ==
    ASSUME IInv, NEW r \in Reqs, req[r] # NULL, NEW q, Written(r, q),
           q # NULL => Typed(q) /\ Knows(q)' /\ Unraced(q)',
           UNCHANGED <<codes, resets>>,
           NEW u \in Users, NEW d \in Docs, acct' = [acct EXCEPT ![u] = d],
           ~Clashes(u, d), Allowed(r, u, d),
           changed' \in [Users -> 0 .. now], ended' \in [Users -> SUBSET (0 .. MaxTime)],
           \A t \in ended'[u] : t < now,
           \A v \in Users \ {u} : changed'[v] = changed[v] /\ ended'[v] = ended[v],
           serial' => \A t \in d.tokens : t >= changed'[u] /\ t \notin ended'[u],
           q # NULL /\ Op(r) \in Searches /\ req[r].user = NULL /\ q.user # NULL =>
              Answers(acct'[q.user], Arg(r).provider, Arg(r).external)
    PROVE  Effect
<1>1. /\ acct' \in [Users -> Docs \cup {NULL}] /\ d # NULL /\ acct'[u] = d
      /\ Accounts' = Accounts \cup {u} /\ Accounts \subseteq Users
      /\ \A v \in Users \ {u} : acct'[v] = acct[v]
  BY OneWritten DEF Accounts
<1>2. RequestsOK'
  BY <1>1, RequestsEffect
<1>3. UniqueKeys'
  BY KeysStayUnique
<1>4. now' = now /\ workload' = workload /\ serial' = (serial /\ ~req[r].raced)
  BY DEF Written
<1>5. req[r].raced \in BOOLEAN
  BY Served DEF Requests
<1>6. DataOK'
  <2>1. \A v \in Users : \A t \in ended'[v] : t < now'
    BY <1>4 DEF IInv, DataOK
  <2>2. \A c \in Stored' : codes'[c].active => codes'[c].attempts < MaxAttempts
    BY DEF IInv, DataOK, Stored
  <2> QED BY <1>1, <1>4, <1>5, <2>1, <2>2 DEF IInv, DataOK
<1>7. SessionsEnd'
  <2>1. ASSUME serial', NEW v \in Accounts'
        PROVE  \A t \in acct'[v].tokens : t >= changed'[v] /\ t \notin ended'[v]
    <3>1. CASE v = u
      BY <1>1, <2>1, <3>1
    <3>2. CASE v # u
      <4>1. v \in Accounts /\ acct'[v] = acct[v] /\ changed'[v] = changed[v] /\ ended'[v] = ended[v]
        BY <1>1, <2>1, <3>2
      <4>2. /\ \A t \in acct[v].tokens : t >= changed[v]
            /\ acct[v].tokens \cap ended[v] = {}
        BY <1>4, <2>1, <4>1 DEF IInv, SessionsEnd
      <4> QED BY <4>1, <4>2
    <3> QED BY <3>1, <3>2
  <2> QED BY <2>1 DEF SessionsEnd
<1>8. LatestOnly'
  <2>1. ASSUME serial', NEW v \in Users, NEW s \in Scopes, NEW c \in Active(v, s)',
               NEW e \in Active(v, s)'
        PROVE  c = e
    <3>1. c \in Active(v, s) /\ e \in Active(v, s)
      BY DEF Active, Stored
    <3> QED BY <1>4, <2>1, <3>1 DEF IInv, LatestOnly
  <2> QED BY <2>1 DEF LatestOnly
<1>9. KeepsMethods /\ KeepsAvatars
  <2>1. ASSUME NEW v \in Accounts, v # u
        PROVE  acct'[v] = acct[v]
    BY <1>1, <2>1
  <2> QED BY <1>1, <2>1 DEF KeepsMethods, KeepsAvatars, Allowed
<1>10. KeepsCodes
  BY DEF KeepsCodes
<1>11. FindsIdentity
  BY FindsEffect
<1> QED BY <1>2, <1>3, <1>6, <1>7, <1>8, <1>9, <1>10, <1>11 DEF Effect, IInv

(* The write of codes.                                                     *)
LEMMA CodesEffect ==
    ASSUME IInv, NEW r \in Reqs, req[r] # NULL, NEW q, Written(r, q),
           q # NULL => Typed(q) /\ Knows(q)' /\ Unraced(q)',
           UNCHANGED <<acct, resets, changed, ended>>,
           codes' \in [CodeIds -> CodeDocs \cup {NULL, Expired}],
           (\A c \in Stored : codes[c].active => codes[c].attempts < MaxAttempts)',
           LatestOnly', KeepsCodes,
           q # NULL /\ Op(r) \in Searches => q.user = req[r].user
    PROVE  Effect
<1>1. now' = now /\ workload' = workload /\ serial' = (serial /\ ~req[r].raced)
  BY DEF Written
<1>2. req[r].raced \in BOOLEAN
  BY Served DEF Requests
<1>3. Accounts' = Accounts
  BY DEF Accounts
<1>4. DataOK'
  BY <1>1, <1>2 DEF IInv, DataOK
<1>5. RequestsOK'
  BY <1>3, RequestsEffect
<1>6. UniqueKeys' /\ SessionsEnd'
  BY <1>1, <1>3 DEF IInv, UniqueKeys, Clashes, SessionsEnd
<1>7. KeepsMethods /\ KeepsAvatars
  BY DEF KeepsMethods, KeepsAvatars
<1>8. FindsIdentity
  BY FindsEffect
<1> QED BY <1>4, <1>5, <1>6, <1>7, <1>8 DEF Effect, IInv

(* What clients send.                                                      *)
LEMMA CallShapes ==
    ASSUME NEW call \in Calls
    PROVE  /\ call.op = "register" => /\ call.arg.name \in Names /\ call.arg.email \in Emails
                                      /\ call.arg.password \in Passwords
           /\ call.op \in {"signIn", "link"} => /\ call.arg.provider \in Providers
                                                /\ call.arg.external \in Externals
           /\ call.op = "revoke" => call.arg.provider \in Providers
           /\ call.op \in {"rotate", "logout", "logoutAll"} => call.arg \in 0 .. MaxTime
           /\ call.op \in PasswordOps => call.arg.new \in Passwords
           /\ call.op \in CheckOps => call.arg \in CodeIds \cup {NULL}
           /\ call.op = "disconnect" => call.arg \in Providers
           /\ call.op = "updateProfile" => call.arg \in Names
           /\ call.op = "setAvatar" => call.arg \in Providers
           /\ call.op \notin {"register", "login", "signIn", "revoke"} => call.user \in Users
BY DEF Calls, RegisterCalls, SessionCalls, RefreshCalls, PasswordCalls, ResetCalls,
       VerificationCalls, ProviderCalls, WebhookCalls, ProfileCalls, PasswordOps, CheckOps,
       Providers

(* The request new of r goes on with the rest of its program, as p.        *)
Rest(q, new, p) ==
    /\ p \in Requests /\ p.call = q.call /\ p.raced = q.raced /\ p.user = new.user
    /\ p.doc = new.doc /\ p.token = new.token /\ p.link = new.link /\ p.email = new.email
    /\ p.todo = Tail(q.todo) /\ p.todo # <<>> /\ Chain(p.call.op, p.todo, "end")
    /\ Leads(q.call.op, Head(q.todo), Head(p.todo))

(* A request that goes on has the rest of its program ahead.               *)
LEMMA RestOf ==
    ASSUME NEW q, Typed(q), NEW new \in Requests, new.call = q.call, new.raced = q.raced,
           NEW todo, todo = Tail(q.todo), NEW p,
           p = IF todo = <<>> THEN NULL ELSE [new EXCEPT !.todo = todo]
    PROVE  p # NULL => Rest(q, new, p)
<1> SUFFICES ASSUME p # NULL PROVE Rest(q, new, p)
  OBVIOUS
<1>1. todo # <<>> /\ p = [new EXCEPT !.todo = todo]
  OBVIOUS
<1>2. p.call = q.call /\ p.todo = Tail(q.todo) /\ p.todo # <<>>
  BY <1>1 DEF Requests
<1>3. Chain(p.call.op, p.todo, "end") /\ p.todo \in Seq(Steps)
      /\ Leads(q.call.op, Head(q.todo), Head(p.todo))
  BY <1>2, Follows
<1>4. p \in Requests
  BY <1>1, <1>2, <1>3 DEF Requests
<1> QED BY <1>1, <1>2, <1>3, <1>4 DEF Rest, Requests

(* ... when its step read,                                                 *)
LEMMA ReadsRest ==
    ASSUME IInv, NEW r \in Reqs, req[r] # NULL, NEW new \in Requests, new.call = req[r].call,
           new.raced = req[r].raced, Reads(r, new)
    PROVE  /\ UNCHANGED data
           /\ \E p : /\ req' = [req EXCEPT ![r] = p]
                     /\ p # NULL => Rest(req[r], new, p)
<1>1. PICK q : q = req[r] /\ Typed(q)
  BY Served DEF Fits
<1>2. PICK todo : todo = Tail(q.todo)
  OBVIOUS
<1>3. PICK p : p = IF todo = <<>> THEN NULL ELSE [new EXCEPT !.todo = todo]
  OBVIOUS
<1>4. UNCHANGED data /\ req' = [req EXCEPT ![r] = p]
  BY <1>1, <1>2, <1>3 DEF Reads, Goes, Next1
<1>5. p # NULL => Rest(q, new, p)
  BY <1>1, <1>2, <1>3, RestOf
<1> QED BY <1>1, <1>4, <1>5

(* ... and when its step wrote.                                            *)
LEMMA WritesRest ==
    ASSUME IInv, NEW r \in Reqs, req[r] # NULL, NEW new \in Requests, new.call = req[r].call,
           new.raced = req[r].raced, Writes(r, Tail(req[r].todo), new)
    PROVE  \E p : Written(r, p) /\ (p # NULL => Rest(req[r], new, p))
<1>1. PICK q : q = req[r] /\ Typed(q)
  BY Served DEF Fits
<1>2. PICK todo : todo = Tail(q.todo)
  OBVIOUS
<1>3. PICK p : p = IF todo = <<>> THEN NULL ELSE [new EXCEPT !.todo = todo]
  OBVIOUS
<1>4. Written(r, p)
  BY <1>1, <1>2, <1>3, WritesShape
<1>5. p # NULL => Rest(q, new, p)
  BY <1>1, <1>2, <1>3, RestOf
<1> QED BY <1>1, <1>4, <1>5

(* The clock against what it has passed.                                   *)
LEMMA NowIsFree ==
    ASSUME IInv, NEW u \in Users
    PROVE  now \in Nat /\ now >= changed[u] /\ now \notin ended[u]
BY AccountsAssumption DEF IInv, DataOK

(* The document is loaded and judged; the request goes on with what was    *)
(* read.                                                                   *)
LEMMA LoadEffect ==
    ASSUME IInv, NEW r \in Reqs, Load(r)
    PROVE  Effect
<1>1. PICK q \in Requests : q = req[r] /\ Fits(q) /\ q.call \in Calls /\ Head(q.todo) = "load"
                             /\ req[r] # NULL
  BY Served DEF Load, At
<1>2. CASE Refuse(r)
  BY <1>1, <1>2, RefuseEffect
<1>3. CASE ~Refuse(r)
  <2>1. PICK u, op : u = q.call.user /\ op = q.call.op
    OBVIOUS
  <2>2. u \in Accounts /\ LoadGuard(r, acct[u])
    BY <1>1, <1>3, <2>1 DEF Load, ReadsIf, Caller
  <2>3. acct[u] \in Docs /\ u \in Users
    BY <2>2 DEF Accounts, IInv, DataOK
  <2>4. PICK doc \in Docs \cup {NULL}, token \in Nat \cup {NULL} :
           /\ doc = IF op \in {"resetPassword", "updateProfile"} THEN acct[u] ELSE NULL
           /\ token = IF "writePassword" \in ToSet(q.todo) THEN now ELSE NULL
    BY <2>3, NowIsFree
  <2>5. PICK new : new = [q EXCEPT !.user = u, !.doc = doc, !.token = token]
    OBVIOUS
  <2>6. /\ new \in Requests /\ new.call = q.call /\ new.raced = q.raced /\ new.user = u
        /\ new.doc = doc /\ new.token = token /\ new.link = q.link /\ new.email = q.email
    BY <2>3, <2>5 DEF Requests
  <2>7. Reads(r, new)
    BY <1>1, <1>3, <2>1, <2>4, <2>5 DEF Load, ReadsIf, Caller, Op
  <2>8. PICK p : req' = [req EXCEPT ![r] = p] /\ UNCHANGED data
                  /\ (p # NULL => Rest(q, new, p))
    BY <1>1, <2>6, <2>7, ReadsRest
  <2>9. ASSUME p # NULL PROVE Fits(p)
    <3>1. PICK t : t = Head(p.todo) /\ Leads(op, "load", t)
      BY <1>1, <2>1, <2>8, <2>9 DEF Rest
    <3>2. \/ op = "link" /\ t = "verify"
          \/ op = "disconnect" /\ t = "unlink"
          \/ op \in PasswordOps /\ t = "writePassword"
          \/ op = "requestVerification" /\ t = "invalidate"
          \/ op = "confirmVerification" /\ t = "findCode"
          \/ op = "updateProfile" /\ t = "nameTaken"
          \/ op = "setAvatar" /\ t = "writeAvatar"
      BY <3>1 DEF Leads
    <3>3. /\ p \in Requests /\ p.call = q.call /\ p.user = u /\ p.doc = doc /\ p.token = token
          /\ p.link = q.link /\ Chain(p.call.op, p.todo, "end")
      BY <2>6, <2>8, <2>9 DEF Rest
    <3>4. t = "writePassword" => token = now
      <4>1. PICK x, y : x = q.todo /\ y = Tail(x) /\ y = p.todo /\ y # <<>>
        BY <2>8, <2>9 DEF Rest
      <4>2. x \in Seq(Steps) /\ Len(x) \in Nat
        BY <1>1, <4>1 DEF Requests
      <4>3. Head(y) = x[2] /\ 2 \in DOMAIN x
        BY <4>1, <4>2
      <4>4. t \in ToSet(x)
        BY <3>1, <4>1, <4>3 DEF ToSet
      <4> QED BY <2>4, <4>1, <4>4
    <3>5. Typed(p)
      BY <1>1, <2>1, <2>3, <2>4, <3>1, <3>2, <3>3, <3>4, NowIsFree
         DEF Typed, Fits, UserSteps, LinkSteps, HasToken, PasswordOps
    <3>6. Knows(p)
      BY <2>2, <3>1, <3>2, <3>3, <3>4, <2>3, NowIsFree DEF Knows, HasToken, PasswordOps
    <3>7. Unraced(p)
      <4>1. t = "unlink" => MayDisconnect(acct[u], q.call.arg)
        BY <1>1, <2>1, <2>2, <3>2 DEF LoadGuard, Op, Arg, PasswordOps
      <4> QED BY <2>3, <3>1, <3>2, <3>3, <3>4, <4>1, NowIsFree DEF Unraced, HasToken, PasswordOps
    <3> QED BY <3>5, <3>6, <3>7 DEF Fits
  <2>10. Op(r) \notin Searches
    <3>1. PICK x : x = q.todo /\ Chain(op, x, "end")
      BY <1>1, <2>1 DEF Fits, Typed
    <3>2. \E t : Leads(op, Head(x), t)
      BY <3>1, ChainHead
    <3> QED BY <1>1, <2>1, <3>1, <3>2 DEF Leads, Op, PasswordOps, Searches
  <2> QED BY <1>1, <2>8, <2>9, <2>10, ReadEffect
<1> QED BY <1>2, <1>3

(* The step a request is at belongs to its operation.                      *)
LEMMA OpAt ==
    ASSUME NEW q, Typed(q)
    PROVE  \E t : Leads(q.call.op, Head(q.todo), t)
<1>1. PICK op, x : op = q.call.op /\ x = q.todo /\ Chain(op, x, "end")
  BY DEF Typed
<1> QED BY <1>1, ChainHead

(* Checks that keep their request as it is.                                *)
LEMMA CheckEffect ==
    ASSUME IInv, NEW r \in Reqs, NameFree(r) \/ EmailFree(r) \/ NameTaken(r)
    PROVE  Effect
<1>1. PICK q \in Requests : q = req[r] /\ Fits(q) /\ req[r] # NULL
                             /\ Head(q.todo) \in {"nameFree", "emailFree", "nameTaken"}
  BY Served DEF NameFree, EmailFree, NameTaken, At
<1>2. CASE Refuse(r)
  BY <1>1, <1>2, RefuseEffect
<1>3. CASE ~Refuse(r)
  <2>1. Reads(r, q)
    BY <1>1, <1>3 DEF NameFree, EmailFree, NameTaken, ReadsIf
  <2>2. PICK p : req' = [req EXCEPT ![r] = p] /\ UNCHANGED data
                  /\ (p # NULL => Rest(q, q, p))
    BY <1>1, <2>1, ReadsRest
  <2>3. ASSUME p # NULL PROVE Fits(p)
    <3>1. Head(p.todo) \in {"emailFree", "saveUser", "writeName"}
          /\ (Head(p.todo) = "writeName" => Head(q.todo) = "nameTaken")
      BY <1>1, <2>2, <2>3 DEF Rest, Leads
    <3> QED BY <1>1, <2>2, <2>3, <3>1
            DEF Rest, Fits, Typed, Knows, Unraced, UserSteps, LinkSteps, HasToken
  <2> QED BY <1>1, <2>2, <2>3, ReadEffect DEF Rest
<1> QED BY <1>2, <1>3

(* The last step of a request, whatever it has in its variables.           *)
LEMMA MailEffect ==
    ASSUME IInv, NEW r \in Reqs, SendMail(r)
    PROVE  Effect
<1>1. PICK q \in Requests : q = req[r] /\ Fits(q) /\ req[r] # NULL /\ Head(q.todo) = "mail"
  BY Served DEF SendMail, At
<1>2. PICK new : new = [q EXCEPT !.doc = NULL]
  OBVIOUS
<1>3. new \in Requests /\ new.call = q.call /\ new.raced = q.raced
  BY <1>2 DEF Requests
<1>4. Reads(r, new)
  BY <1>1, <1>2 DEF SendMail
<1>5. PICK p : req' = [req EXCEPT ![r] = p] /\ UNCHANGED data /\ (p # NULL => Rest(q, new, p))
  BY <1>1, <1>3, <1>4, ReadsRest
<1>6. p = NULL
  <2> SUFFICES ASSUME p # NULL PROVE FALSE
    OBVIOUS
  <2>1. Head(p.todo) = "end"
    BY <1>1, <1>5 DEF Rest, Leads
  <2>2. PICK x, op : x = p.todo /\ Chain(op, x, "end")
    BY <1>5 DEF Rest
  <2>3. Head(x) \in Steps
    BY <2>2, ChainTail
  <2> QED BY <2>1, <2>2, <2>3 DEF Steps
<1> QED BY <1>1, <1>5, <1>6, ReadEffect

(* The login that finds its account makes a token of the current second.   *)
LEMMA FindEffect ==
    ASSUME IInv, NEW r \in Reqs, Find(r)
    PROVE  Effect
<1>1. PICK q \in Requests : q = req[r] /\ Fits(q) /\ q.call \in Calls /\ Head(q.todo) = "find"
                             /\ req[r] # NULL
  BY Served DEF Find, At
<1>2. PICK op : op = q.call.op /\ op = Op(r) /\ \E t : Leads(op, "find", t)
  BY <1>1, OpAt DEF Fits, Op
<1>3. CASE Refuse(r)
  BY <1>1, <1>3, RefuseEffect
<1>4. CASE ~Refuse(r)
  <2>1. PICK u \in Accounts : Reads(r, [q EXCEPT !.user = u, !.token = now])
    BY <1>1, <1>4 DEF Find, ReadsIf, ByName
  <2>2. PICK new : new = [q EXCEPT !.user = u, !.token = now]
    OBVIOUS
  <2>3. /\ new \in Requests /\ new.call = q.call /\ new.raced = q.raced /\ new.user = u
        /\ new.token = now /\ new.link = q.link /\ u \in Users
    BY <2>1, <2>2, NowIsFree DEF Requests, Accounts
  <2>4. PICK p : req' = [req EXCEPT ![r] = p] /\ UNCHANGED data
                  /\ (p # NULL => Rest(q, new, p))
    BY <1>1, <2>1, <2>2, <2>3, ReadsRest
  <2>5. ASSUME p # NULL PROVE Fits(p)
    <3>1. Head(p.todo) = "push"
      BY <1>1, <2>4, <2>5 DEF Rest, Leads
    <3>2. Typed(p)
      BY <1>1, <2>3, <2>4, <2>5, <3>1, NowIsFree DEF Rest, Fits, Typed, UserSteps, LinkSteps, HasToken
    <3> QED BY <2>1, <2>3, <2>4, <2>5, <3>1, <3>2, NowIsFree DEF Rest, Fits, Knows, Unraced, HasToken
  <2>6. op \notin Searches
    BY <1>2 DEF Leads, Searches
  <2> QED BY <1>1, <1>2, <2>4, <2>5, <2>6, ReadEffect
<1> QED BY <1>3, <1>4

(* An account is named by its address or username.                         *)
LEMMA IdentifyUserEffect ==
    ASSUME IInv, NEW r \in Reqs, IdentifyUser(r)
    PROVE  Effect
<1>1. PICK q \in Requests : q = req[r] /\ Fits(q) /\ q.call \in Calls /\ Head(q.todo) = "identify"
                             /\ req[r] # NULL
  BY Served DEF IdentifyUser, At
<1>2. PICK op : op = q.call.op /\ op = Op(r) /\ \E t : Leads(op, "identify", t)
  BY <1>1, OpAt DEF Fits, Op
<1>3. CASE Refuse(r)
  BY <1>1, <1>3, RefuseEffect
<1>4. CASE ~Refuse(r)
  <2>1. PICK u \in Accounts : Reads(r, [q EXCEPT !.user = u])
    BY <1>1, <1>4 DEF IdentifyUser, ReadsIf
  <2>2. PICK new : new = [q EXCEPT !.user = u]
    OBVIOUS
  <2>3. /\ new \in Requests /\ new.call = q.call /\ new.raced = q.raced /\ new.user = u
        /\ new.link = q.link /\ u \in Users
    BY <2>1, <2>2 DEF Requests, Accounts
  <2>4. PICK p : req' = [req EXCEPT ![r] = p] /\ UNCHANGED data
                  /\ (p # NULL => Rest(q, new, p))
    BY <1>1, <2>1, <2>2, <2>3, ReadsRest
  <2>5. ASSUME p # NULL PROVE Fits(p)
    <3>1. Head(p.todo) \in {"invalidate", "findCode"}
      BY <1>1, <2>4, <2>5 DEF Rest, Leads
    <3> QED BY <1>1, <2>1, <2>3, <2>4, <2>5, <3>1
            DEF Rest, Fits, Typed, Knows, Unraced, UserSteps, LinkSteps, HasToken
  <2>6. op \notin Searches
    BY <1>2 DEF Leads, Searches
  <2> QED BY <1>1, <1>2, <2>4, <2>5, <2>6, ReadEffect
<1> QED BY <1>3, <1>4

(* The provider names the identity that the client asked for.              *)
LEMMA VerifyEffect ==
    ASSUME IInv, NEW r \in Reqs, Verify(r)
    PROVE  Effect
<1>1. PICK q \in Requests : q = req[r] /\ Fits(q) /\ q.call \in Calls /\ Head(q.todo) = "verify"
                             /\ req[r] # NULL
  BY Served DEF Verify, At
<1>2. PICK op : op = q.call.op /\ op = Op(r) /\ \E t : Leads(op, "verify", t)
  BY <1>1, OpAt DEF Fits, Op
<1>3. CASE Refuse(r)
  BY <1>1, <1>3, RefuseEffect
<1>4. CASE ~Refuse(r)
  <2>1. op \in {"signIn", "link"}
    BY <1>2 DEF Leads
  <2>2. PICK picture \in BOOLEAN, e \in Emails :
           Reads(r, [q EXCEPT !.email = IF op = "signIn" THEN e ELSE NULL,
                              !.link = [provider |-> q.call.arg.provider,
                                        external |-> q.call.arg.external, picture |-> picture]])
    BY <1>1, <1>2, <1>4 DEF Verify, Arg
  <2>3. PICK l : l = [provider |-> q.call.arg.provider, external |-> q.call.arg.external,
                      picture |-> picture]
    OBVIOUS
  <2>4. l \in Links /\ l.provider = q.call.arg.provider /\ l.external = q.call.arg.external
    BY <1>1, <1>2, <2>1, <2>3, CallShapes DEF Links
  <2>5. PICK email \in Emails \cup {NULL} : email = IF op = "signIn" THEN e ELSE NULL
    OBVIOUS
  <2>6. PICK new : new = [q EXCEPT !.email = email, !.link = l]
    OBVIOUS
  <2>7. /\ new \in Requests /\ new.call = q.call /\ new.raced = q.raced /\ new.user = q.user
        /\ new.link = l /\ new.email = email
    BY <2>4, <2>6 DEF Requests
  <2>8. PICK p : req' = [req EXCEPT ![r] = p] /\ UNCHANGED data
                  /\ (p # NULL => Rest(q, new, p))
    BY <1>1, <2>2, <2>3, <2>5, <2>6, <2>7, ReadsRest
  <2>9. ASSUME p # NULL PROVE Fits(p)
    <3>1. \/ Head(p.todo) = "identity" /\ op = "signIn"
          \/ Head(p.todo) = "linkFind" /\ op = "link"
      BY <1>1, <1>2, <2>8, <2>9 DEF Rest, Leads
    <3>2. Typed(p)
      BY <1>1, <1>2, <2>4, <2>5, <2>7, <2>8, <2>9, <3>1
         DEF Rest, Fits, Typed, UserSteps, LinkSteps, HasToken
    <3> QED BY <1>1, <2>7, <2>8, <2>9, <3>1, <3>2 DEF Rest, Fits, Knows, Unraced, HasToken
  <2> QED BY <1>1, <1>2, <2>7, <2>8, <2>9, ReadEffect DEF Rest
<1> QED BY <1>3, <1>4

(* What a step may put in.                                                 *)
LEMMA Insertions ==
    /\ Chain("signIn", <<"push">>, "end") /\ Starts(<<"push">>, "push")
    /\ Chain("signIn", SyncPicture \o <<"push">>, "end") /\ Starts(SyncPicture \o <<"push">>, "picture")
    /\ Chain("signIn", <<"emailTaken">>, "end") /\ Starts(<<"emailTaken">>, "emailTaken")
    /\ Chain("signIn", <<"makeName">>, "end") /\ Starts(<<"makeName">>, "makeName")
    /\ Chain("signIn", <<"create", "push", "mail">>, "end")
    /\ Starts(<<"create", "push", "mail">>, "create")
    /\ Chain("signIn", <<"winner", "push">>, "end") /\ Starts(<<"winner", "push">>, "winner")
    /\ Chain("link", <<"addLink", "mail">>, "end") /\ Starts(<<"addLink", "mail">>, "addLink")
    /\ Chain("link", SyncPicture \o <<"mail">>, "end") /\ Starts(SyncPicture \o <<"mail">>, "picture")
    /\ \A op : Chain(op, <<"mail">>, "end") /\ Starts(<<"mail">>, "mail")
    /\ \A op \in CheckOps : /\ Chain(op, <<"countAttempt">>, "end")
                            /\ Starts(<<"countAttempt">>, "countAttempt")
<1>1. \A op : Chain(op, <<"mail">>, "end") /\ Starts(<<"mail">>, "mail")
  <2>1. TAKE op
  <2>2. "mail" \in Steps /\ Leads(op, "mail", "end")
    BY DEF Leads, Steps
  <2> QED BY <2>2, ChainOne
<1>2. /\ Chain("signIn", <<"push">>, "end") /\ Starts(<<"push">>, "push")
      /\ Chain("signIn", <<"emailTaken">>, "end") /\ Starts(<<"emailTaken">>, "emailTaken")
      /\ Chain("signIn", <<"makeName">>, "end") /\ Starts(<<"makeName">>, "makeName")
  BY ChainOne DEF Leads, Steps
<1>3. /\ Chain("signIn", <<"winner", "push">>, "end") /\ Starts(<<"winner", "push">>, "winner")
      /\ Chain("link", <<"addLink", "mail">>, "end") /\ Starts(<<"addLink", "mail">>, "addLink")
  BY ChainTwo DEF Leads, Steps
<1>4. /\ Chain("signIn", <<"create", "push", "mail">>, "end")
      /\ Starts(<<"create", "push", "mail">>, "create")
  BY ChainThree DEF Leads, Steps
<1>5. /\ Chain("signIn", SyncPicture, "push") /\ Chain("link", SyncPicture, "mail")
      /\ Starts(SyncPicture, "picture")
  BY ChainTwo DEF Leads, Steps, SyncPicture
<1>6. /\ Chain("signIn", SyncPicture \o <<"push">>, "end")
      /\ Starts(SyncPicture \o <<"push">>, "picture")
  BY <1>2, <1>5, ChainConcat
<1>7. /\ Chain("link", SyncPicture \o <<"mail">>, "end")
      /\ Starts(SyncPicture \o <<"mail">>, "picture")
  BY <1>1, <1>5, ChainConcat
<1>8. \A op \in CheckOps : /\ Chain(op, <<"countAttempt">>, "end")
                           /\ Starts(<<"countAttempt">>, "countAttempt")
  BY ChainOne DEF Leads, Steps, CheckOps
<1> QED BY <1>1, <1>2, <1>3, <1>4, <1>6, <1>7, <1>8

(* A request goes on with the steps todo, the first of which is s.         *)
Turn(new, p, s) ==
    /\ p \in Requests /\ p.call = new.call /\ p.raced = new.raced /\ p.user = new.user
    /\ p.doc = new.doc /\ p.token = new.token /\ p.link = new.link /\ p.email = new.email
    /\ Chain(p.call.op, p.todo, "end") /\ Head(p.todo) = s

(* A step that puts calls in leaves the request at the first of them.      *)
LEMMA GoesTurn ==
    ASSUME NEW r, NEW new \in Requests, NEW todo, NEW s, NEW op, op = new.call.op,
           Chain(op, todo, "end"), Starts(todo, s), Goes(r, todo, new)
    PROVE  UNCHANGED data /\ \E p : req' = [req EXCEPT ![r] = p] /\ Turn(new, p, s)
<1>1. todo # <<>> /\ todo \in Seq(Steps)
  BY ChainHead DEF Chain
<1>2. PICK p : p = [new EXCEPT !.todo = todo]
  OBVIOUS
<1>3. req' = [req EXCEPT ![r] = p] /\ UNCHANGED data
  BY <1>1, <1>2 DEF Goes, Next1
<1>4. Turn(new, p, s)
  BY <1>1, <1>2 DEF Turn, Starts, Requests
<1> QED BY <1>3, <1>4

(* The lookup of an identity finds an account that holds or crosses it.    *)
LEMMA Lookup ==
    ASSUME IInv, NEW p, NEW x, NEW u \in ByIdentity(p, x)
    PROVE  u \in Accounts /\ u \in Users /\ Answers(acct[u], p, x)
<1>1. u \in Accounts /\ u \in Users /\ acct[u] \in Docs
  BY DEF ByIdentity, Accounts, IInv, DataOK
<1>2. PICK l \in acct[u].links, m \in acct[u].links : l.provider = p /\ m.external = x
  BY DEF ByIdentity
<1>3. CASE l.external = x
  BY <1>1, <1>2, <1>3 DEF Answers, Identities
<1>4. CASE m.provider = p
  BY <1>1, <1>2, <1>4 DEF Answers, Identities
<1>5. CASE l.external # x /\ m.provider # p
  BY <1>1, <1>2, <1>5 DEF Answers, Crosses
<1> QED BY <1>1, <1>3, <1>4, <1>5

(* A sign-in that finds an account of its identity.                        *)
LEMMA Claims ==
    ASSUME IInv, NEW r \in Reqs, req[r] # NULL, req[r].link \in Links, NEW u \in Claimants(r)
    PROVE  /\ u \in Accounts /\ u \in Users
           /\ Answers(acct[u], Arg(r).provider, Arg(r).external)
<1>1. u \in Accounts /\ Answers(acct[u], req[r].link.provider, req[r].link.external)
  BY Lookup DEF Claimants
<1>2. req[r].link.provider = Arg(r).provider /\ req[r].link.external = Arg(r).external
  BY Served, UserAssumption DEF Fits, Typed
<1> QED BY <1>1, <1>2 DEF Accounts

(* A sign-in finds the account of its identity, or goes on to create one.  *)
LEMMA IdentifyEffect ==
    ASSUME IInv, NEW r \in Reqs, Identify(r)
    PROVE  Effect
<1>1. PICK q \in Requests : q = req[r] /\ Fits(q) /\ q.call \in Calls /\ Head(q.todo) = "identity"
                             /\ req[r] # NULL
  BY Served DEF Identify, At
<1>2. PICK op : op = q.call.op /\ op = Op(r) /\ \E t : Leads(op, "identity", t)
  BY <1>1, OpAt DEF Fits, Op
<1>3. op = "signIn" /\ q.link \in Links /\ q.email \in Emails
  BY <1>1, <1>2 DEF Leads, Fits, Typed, LinkSteps
<1>4. CASE Goes(r, <<"emailTaken">>, q)
  <2>1. PICK p : req' = [req EXCEPT ![r] = p] /\ UNCHANGED data /\ Turn(q, p, "emailTaken")
    BY <1>1, <1>2, <1>3, <1>4, Insertions, GoesTurn
  <2>2. Fits(p)
    BY <1>1, <1>3, <2>1 DEF Turn, Fits, Typed, Knows, Unraced, UserSteps, LinkSteps, HasToken
  <2> QED BY <1>1, <2>1, <2>2, ReadEffect DEF Turn
<1>5. CASE ~Goes(r, <<"emailTaken">>, q)
  <2>1. PICK u \in Claimants(r) :
           Goes(r, IF q.link.picture THEN SyncPicture \o <<"push">> ELSE <<"push">>,
                [q EXCEPT !.user = u, !.token = now])
    BY <1>1, <1>5 DEF Identify
  <2>2. PICK new : new = [q EXCEPT !.user = u, !.token = now]
    OBVIOUS
  <2>3. u \in Accounts /\ u \in Users /\ Answers(acct[u], Arg(r).provider, Arg(r).external)
    BY <1>1, <1>3, Claims
  <2>4. /\ new \in Requests /\ new.call = q.call /\ new.raced = q.raced /\ new.user = u
        /\ new.token = now /\ new.link = q.link /\ new.email = q.email
    BY <2>2, <2>3, NowIsFree DEF Requests
  <2>5. PICK p, s : /\ req' = [req EXCEPT ![r] = p] /\ UNCHANGED data
                    /\ Turn(new, p, s) /\ s \in {"picture", "push"}
    <3>1. CASE q.link.picture
      <4>1. PICK todo : todo = SyncPicture \o <<"push">>
        OBVIOUS
      <4>2. Goes(r, todo, new)
        BY <2>1, <2>2, <4>1, <3>1
      <4>3. Chain(op, todo, "end") /\ Starts(todo, "picture")
        BY <1>3, <4>1, Insertions
      <4>4. op = new.call.op
        BY <1>2, <2>4
      <4>5. UNCHANGED data /\ \E p : req' = [req EXCEPT ![r] = p] /\ Turn(new, p, "picture")
        BY <2>4, <4>2, <4>3, <4>4, GoesTurn
      <4> QED BY <4>5
    <3>2. CASE ~q.link.picture
      <4>1. PICK todo : todo = <<"push">>
        OBVIOUS
      <4>2. Goes(r, todo, new)
        BY <2>1, <2>2, <4>1, <3>2
      <4>3. Chain(op, todo, "end") /\ Starts(todo, "push")
        BY <1>3, <4>1, Insertions
      <4>4. op = new.call.op
        BY <1>2, <2>4
      <4>5. UNCHANGED data /\ \E p : req' = [req EXCEPT ![r] = p] /\ Turn(new, p, "push")
        BY <2>4, <4>2, <4>3, <4>4, GoesTurn
      <4> QED BY <4>5
    <3> QED BY <3>1, <3>2
  <2>6. Fits(p)
    <3>1. Typed(p)
      BY <1>1, <1>3, <2>3, <2>4, <2>5, NowIsFree DEF Turn, Fits, Typed, UserSteps, LinkSteps, HasToken
    <3> QED BY <2>3, <2>4, <2>5, <3>1, NowIsFree DEF Turn, Fits, Knows, Unraced, HasToken
  <2> QED BY <1>1, <2>3, <2>4, <2>5, <2>6, ReadEffect DEF Turn
<1> QED BY <1>4, <1>5

(* The address of a new identity is looked up.                             *)
LEMMA EmailTakenEffect ==
    ASSUME IInv, NEW r \in Reqs, EmailTaken(r)
    PROVE  Effect
<1>1. PICK q \in Requests : q = req[r] /\ Fits(q) /\ q.call \in Calls /\ Head(q.todo) = "emailTaken"
                             /\ req[r] # NULL
  BY Served DEF EmailTaken, At
<1>2. PICK op : op = q.call.op /\ op = Op(r) /\ \E t : Leads(op, "emailTaken", t)
  BY <1>1, OpAt DEF Fits, Op
<1>3. op = "signIn" /\ q.link \in Links /\ q.email \in Emails
  BY <1>1, <1>2 DEF Leads, Fits, Typed, LinkSteps
<1>4. CASE Refuse(r)
  BY <1>1, <1>4, RefuseEffect
<1>5. CASE Goes(r, <<"makeName">>, q)
  <2>1. PICK p : req' = [req EXCEPT ![r] = p] /\ UNCHANGED data /\ Turn(q, p, "makeName")
    BY <1>1, <1>2, <1>3, <1>5, Insertions, GoesTurn
  <2>2. Fits(p)
    BY <1>1, <1>3, <2>1 DEF Turn, Fits, Typed, Knows, Unraced, UserSteps, LinkSteps, HasToken
  <2> QED BY <1>1, <2>1, <2>2, ReadEffect DEF Turn
<1> QED BY <1>1, <1>4, <1>5 DEF EmailTaken

(* A new document has its type, no session and the links it was made with. *)
LEMMA NewDocs ==
    ASSUME NEW n \in Names, NEW e \in Emails, NEW w \in Passwords \cup {NULL},
           NEW L \in SUBSET Links, NEW a \in Providers \cup {NULL}
    PROVE  /\ NewDoc(n, e, w, L, a) \in Docs /\ NewDoc(n, e, w, L, a).tokens = {}
           /\ NewDoc(n, e, w, L, a).links = L
BY DEF NewDoc, Docs

(* The document a sign-in is about to insert holds only its own identity.  *)
LEMMA MakeNameEffect ==
    ASSUME IInv, NEW r \in Reqs, MakeName(r)
    PROVE  Effect
<1>1. PICK q \in Requests : q = req[r] /\ Fits(q) /\ q.call \in Calls /\ Head(q.todo) = "makeName"
                             /\ req[r] # NULL
  BY Served DEF MakeName, At
<1>2. PICK op : op = q.call.op /\ op = Op(r) /\ \E t : Leads(op, "makeName", t)
  BY <1>1, OpAt DEF Fits, Op
<1>3. op = "signIn" /\ q.link \in Links /\ q.email \in Emails
  BY <1>1, <1>2 DEF Leads, Fits, Typed, LinkSteps
<1>4. CASE Refuse(r)
  BY <1>1, <1>4, RefuseEffect
<1>5. CASE ~Refuse(r)
  <2>1. PICK n \in Names :
           Goes(r, <<"create", "push", "mail">>,
                [q EXCEPT !.doc = NewDoc(n, q.email, NULL, {q.link},
                                         IF q.link.picture THEN q.link.provider ELSE NULL)])
    BY <1>1, <1>5 DEF MakeName
  <2>2. PICK a \in Providers \cup {NULL} : a = IF q.link.picture THEN q.link.provider ELSE NULL
    BY <1>3 DEF Links
  <2>3. PICK L : L = {q.link} /\ L \in SUBSET Links
    BY <1>3
  <2>4. PICK d : d = NewDoc(n, q.email, NULL, L, a)
    OBVIOUS
  <2>5. d \in Docs /\ d.links = {q.link} /\ d.tokens = {}
    <3>1. PICK w \in Passwords \cup {NULL} : w = NULL
      OBVIOUS
    <3>2. d = NewDoc(n, q.email, w, L, a)
      BY <2>4, <3>1
    <3>3. PICK e \in Emails : e = q.email
      BY <1>3
    <3>4. /\ NewDoc(n, e, w, L, a) \in Docs /\ NewDoc(n, e, w, L, a).tokens = {}
          /\ NewDoc(n, e, w, L, a).links = L
      BY <2>3 DEF NewDoc, Docs
    <3> QED BY <2>3, <3>2, <3>3, <3>4
  <2>6. PICK new : new = [q EXCEPT !.doc = d]
    OBVIOUS
  <2>7. /\ new \in Requests /\ new.call = q.call /\ new.raced = q.raced /\ new.user = q.user
        /\ new.doc = d /\ new.link = q.link
    BY <2>5, <2>6 DEF Requests
  <2>8. Goes(r, <<"create", "push", "mail">>, new)
    BY <2>1, <2>2, <2>3, <2>4, <2>6
  <2>9. PICK p : req' = [req EXCEPT ![r] = p] /\ UNCHANGED data /\ Turn(new, p, "create")
    <3>1. PICK todo : todo = <<"create", "push", "mail">>
      OBVIOUS
    <3>2. Goes(r, todo, new) /\ Chain(op, todo, "end") /\ Starts(todo, "create")
      BY <1>3, <2>8, <3>1, Insertions
    <3>3. op = new.call.op
      BY <1>2, <2>7
    <3> QED BY <2>7, <3>2, <3>3, GoesTurn
  <2>10. Fits(p)
    BY <1>1, <1>3, <2>5, <2>7, <2>9
       DEF Turn, Fits, Typed, Knows, Unraced, UserSteps, LinkSteps, HasToken
  <2> QED BY <1>1, <2>7, <2>9, <2>10, ReadEffect DEF Turn
<1> QED BY <1>4, <1>5

(* Who lost the race to create an account finds the one of its identity.   *)
LEMMA FindWinnerEffect ==
    ASSUME IInv, NEW r \in Reqs, FindWinner(r)
    PROVE  Effect
<1>1. PICK q \in Requests : q = req[r] /\ Fits(q) /\ q.call \in Calls /\ Head(q.todo) = "winner"
                             /\ req[r] # NULL
  BY Served DEF FindWinner, At
<1>2. PICK op : op = q.call.op /\ op = Op(r) /\ \E t : Leads(op, "winner", t)
  BY <1>1, OpAt DEF Fits, Op
<1>3. CASE Refuse(r)
  BY <1>1, <1>3, RefuseEffect
<1>4. CASE ~Refuse(r)
  <2>1. PICK u \in Claimants(r) : Reads(r, [q EXCEPT !.user = u, !.token = now])
    BY <1>1, <1>4 DEF FindWinner
  <2>2. PICK new : new = [q EXCEPT !.user = u, !.token = now]
    OBVIOUS
  <2>3. u \in Accounts /\ u \in Users /\ Answers(acct[u], Arg(r).provider, Arg(r).external)
    BY <1>1, Claims DEF Fits, Typed, LinkSteps
  <2>4. /\ new \in Requests /\ new.call = q.call /\ new.raced = q.raced /\ new.user = u
        /\ new.token = now /\ new.link = q.link
    BY <2>2, <2>3, NowIsFree DEF Requests
  <2>5. PICK p : req' = [req EXCEPT ![r] = p] /\ UNCHANGED data
                  /\ (p # NULL => Rest(q, new, p))
    BY <1>1, <2>1, <2>2, <2>4, ReadsRest
  <2>6. ASSUME p # NULL PROVE Fits(p)
    <3>1. Head(p.todo) = "push"
      BY <1>1, <2>5, <2>6 DEF Rest, Leads
    <3>2. Typed(p)
      BY <1>1, <2>3, <2>4, <2>5, <2>6, <3>1, NowIsFree
         DEF Rest, Fits, Typed, UserSteps, LinkSteps, HasToken
    <3> QED BY <2>3, <2>4, <2>5, <2>6, <3>1, <3>2, NowIsFree
            DEF Rest, Fits, Knows, Unraced, HasToken
  <2> QED BY <1>1, <2>3, <2>4, <2>5, <2>6, ReadEffect DEF Rest
<1> QED BY <1>3, <1>4

(* A link looks up who holds the identity.                                 *)
LEMMA LinkFindEffect ==
    ASSUME IInv, NEW r \in Reqs, LinkFind(r)
    PROVE  Effect
<1>1. PICK q \in Requests : q = req[r] /\ Fits(q) /\ q.call \in Calls /\ Head(q.todo) = "linkFind"
                             /\ req[r] # NULL
  BY Served DEF LinkFind, At
<1>2. PICK op : op = q.call.op /\ op = Op(r) /\ \E t : Leads(op, "linkFind", t)
  BY <1>1, OpAt DEF Fits, Op
<1>3. op = "link" /\ q.link \in Links /\ q.user \in Users
  BY <1>1, <1>2 DEF Leads, Fits, Typed, LinkSteps, UserSteps
<1>4. CASE Refuse(r)
  BY <1>1, <1>4, RefuseEffect
<1>5. CASE ~Refuse(r)
  <2>1. PICK todo, s :
           /\ \/ todo = <<"addLink", "mail">> /\ s = "addLink"
              \/ todo = SyncPicture \o <<"mail">> /\ s = "picture"
              \/ todo = <<"mail">> /\ s = "mail"
           /\ Goes(r, todo, q)
    BY <1>1, <1>5 DEF LinkFind
  <2>2. Chain(op, todo, "end") /\ Starts(todo, s)
    BY <1>3, <2>1, Insertions
  <2>3. PICK p : req' = [req EXCEPT ![r] = p] /\ UNCHANGED data /\ Turn(q, p, s)
    BY <1>2, <2>1, <2>2, GoesTurn
  <2>4. Fits(p)
    BY <1>1, <1>2, <1>3, <2>1, <2>3 DEF Turn, Fits, Typed, Knows, Unraced, UserSteps, LinkSteps, HasToken
  <2> QED BY <1>1, <2>3, <2>4, ReadEffect DEF Turn
<1> QED BY <1>4, <1>5

(* The avatar is read, and refreshed only if it was this provider's.       *)
LEMMA ReadAvatarEffect ==
    ASSUME IInv, NEW r \in Reqs, ReadAvatar(r)
    PROVE  Effect
<1>1. PICK q \in Requests : q = req[r] /\ Fits(q) /\ q.call \in Calls /\ Head(q.todo) = "avatarRead"
                             /\ req[r] # NULL
  BY Served DEF ReadAvatar, At
<1>2. PICK op : op = q.call.op /\ op = Op(r) /\ \E t : Leads(op, "avatarRead", t)
  BY <1>1, OpAt DEF Fits, Op
<1>3. op \in {"signIn", "link"} /\ q.link \in Links /\ q.user \in Users
  BY <1>1, <1>2 DEF Leads, Fits, Typed, LinkSteps, UserSteps
<1>4. PICK x, y : x = q.todo /\ y = Tail(x) /\ Chain(op, x, "end")
  BY <1>1, <1>2 DEF Fits, Typed
<1>5. y # <<>> /\ Chain(op, y, "end") /\ Leads(op, "avatarRead", Head(y))
  <2>1. ~Leads(op, "avatarRead", "end")
    BY DEF Leads
  <2> QED BY <1>1, <1>4, <2>1, ChainTail
<1>6. PICK t : t = Head(y) /\ ((op = "signIn" /\ t = "push") \/ (op = "link" /\ t = "mail"))
  <2>1. PICK t : t = Head(y)
    OBVIOUS
  <2>2. (op = "signIn" /\ t = "push") \/ (op = "link" /\ t = "mail")
    BY <1>5, <2>1 DEF Leads
  <2> QED BY <2>1, <2>2
<1>7. PICK todo, s :
         /\ Goes(r, todo, q) /\ Chain(op, todo, "end") /\ Starts(todo, s)
         /\ \/ s = t
            \/ s = "avatarSet" /\ acct[q.user].avatar = q.link.provider
  <2>1. CASE acct[q.user].avatar = q.link.provider
    <3>1. PICK w : w = <<"avatarSet">>
      OBVIOUS
    <3>2. Chain(op, w, t) /\ Starts(w, "avatarSet")
      <4>1. Leads(op, "avatarSet", t)
        BY <1>6 DEF Leads, Steps
      <4>2. "avatarSet" \in Steps
        BY DEF Steps
      <4> QED BY <3>1, <4>1, <4>2, ChainOne
    <3>3. Starts(y, t)
      BY <1>6 DEF Starts
    <3>4. Chain(op, w \o y, "end") /\ Starts(w \o y, "avatarSet")
      BY <1>5, <3>2, <3>3, ChainConcat
    <3>5. Goes(r, w \o y, q)
      BY <1>1, <1>4, <2>1, <3>1 DEF ReadAvatar
    <3> QED BY <2>1, <3>4, <3>5
  <2>2. CASE acct[q.user].avatar # q.link.provider
    <3>1. Goes(r, y, q)
      BY <1>1, <1>4, <2>2 DEF ReadAvatar
    <3> QED BY <1>5, <1>6, <3>1 DEF Starts
  <2> QED BY <2>1, <2>2
<1>8. PICK p : req' = [req EXCEPT ![r] = p] /\ UNCHANGED data /\ Turn(q, p, s)
  BY <1>2, <1>7, GoesTurn
<1>9. Fits(p)
  BY <1>1, <1>2, <1>3, <1>6, <1>7, <1>8
     DEF Turn, Fits, Typed, Knows, Unraced, UserSteps, LinkSteps, HasToken
<1> QED BY <1>1, <1>8, <1>9, ReadEffect DEF Turn

(* A revocation finds the account that holds the identity.                 *)
LEMMA FindLinkedEffect ==
    ASSUME IInv, NEW r \in Reqs, FindLinked(r)
    PROVE  Effect
<1>1. PICK q \in Requests : q = req[r] /\ Fits(q) /\ q.call \in Calls /\ Head(q.todo) = "linked"
                             /\ req[r] # NULL
  BY Served DEF FindLinked, At
<1>2. PICK op : op = q.call.op /\ op = Op(r) /\ \E t : Leads(op, "linked", t)
  BY <1>1, OpAt DEF Fits, Op
<1>3. CASE Refuse(r)
  BY <1>1, <1>3, RefuseEffect
<1>4. CASE ~Refuse(r)
  <2>1. PICK u \in ByIdentity(Arg(r).provider, Arg(r).external) :
           Reads(r, [q EXCEPT !.user = u, !.doc = acct[u]])
    BY <1>1, <1>4 DEF FindLinked, ReadsIf
  <2>2. u \in Accounts /\ u \in Users /\ Answers(acct[u], Arg(r).provider, Arg(r).external)
    BY Lookup
  <2>3. PICK d \in Docs : d = acct[u]
    BY <2>2 DEF Accounts, IInv, DataOK
  <2>4. PICK new : new = [q EXCEPT !.user = u, !.doc = d]
    OBVIOUS
  <2>5. /\ new \in Requests /\ new.call = q.call /\ new.raced = q.raced /\ new.user = u
        /\ new.doc = d /\ new.link = q.link /\ u \in Users
    BY <2>2, <2>3, <2>4 DEF Requests
  <2>6. PICK p : req' = [req EXCEPT ![r] = p] /\ UNCHANGED data
                  /\ (p # NULL => Rest(q, new, p))
    BY <1>1, <2>1, <2>3, <2>4, <2>5, ReadsRest
  <2>7. ASSUME p # NULL PROVE Fits(p)
    <3>1. Head(p.todo) = "forceUnlink"
      BY <1>1, <2>6, <2>7 DEF Rest, Leads
    <3> QED BY <1>1, <2>2, <2>3, <2>5, <2>6, <2>7, <3>1
            DEF Rest, Fits, Typed, Knows, Unraced, UserSteps, LinkSteps, HasToken
  <2> QED BY <1>1, <2>2, <2>5, <2>6, <2>7, ReadEffect DEF Rest
<1> QED BY <1>3, <1>4

(* A code is looked up: it is used next, or the attempt counted.           *)
LEMMA FindCodeEffect ==
    ASSUME IInv, NEW r \in Reqs, FindCode(r)
    PROVE  Effect
<1>1. PICK q \in Requests : q = req[r] /\ Fits(q) /\ q.call \in Calls /\ Head(q.todo) = "findCode"
                             /\ req[r] # NULL
  BY Served DEF FindCode, At
<1>2. PICK op : op = q.call.op /\ op = Op(r) /\ \E t : Leads(op, "findCode", t)
  BY <1>1, OpAt DEF Fits, Op
<1>3. op \in CheckOps /\ op \notin Searches /\ q.user \in Users
  BY <1>1, <1>2 DEF Leads, Fits, Typed, UserSteps, CheckOps, Searches
<1>4. CASE Refuse(r)
  BY <1>1, <1>4, RefuseEffect
<1>5. CASE Reads(r, q)
  <2>1. PICK p : req' = [req EXCEPT ![r] = p] /\ UNCHANGED data
                  /\ (p # NULL => Rest(q, q, p))
    BY <1>1, <1>5, ReadsRest
  <2>2. ASSUME p # NULL PROVE Fits(p)
    <3>1. Head(p.todo) = "useCode"
      BY <1>1, <2>1, <2>2 DEF Rest, Leads
    <3> QED BY <1>1, <1>3, <2>1, <2>2, <3>1
            DEF Rest, Fits, Typed, Knows, Unraced, UserSteps, LinkSteps, HasToken
  <2> QED BY <1>1, <1>2, <1>3, <2>1, <2>2, ReadEffect
<1>6. CASE Goes(r, <<"countAttempt">>, q)
  <2>1. PICK p : req' = [req EXCEPT ![r] = p] /\ UNCHANGED data /\ Turn(q, p, "countAttempt")
    BY <1>1, <1>2, <1>3, <1>6, Insertions, GoesTurn
  <2>2. Fits(p)
    BY <1>1, <1>3, <2>1 DEF Turn, Fits, Typed, Knows, Unraced, UserSteps, LinkSteps, HasToken
  <2> QED BY <1>1, <2>1, <2>2, ReadEffect DEF Turn
<1> QED BY <1>1, <1>4, <1>5, <1>6 DEF FindCode
-----------------------------------------------------------------------------
(* Writes of accounts.                                                     *)
LEMMA RestStep ==
    ASSUME NEW q, NEW new, NEW p, Rest(q, new, p)
    PROVE  Head(p.todo) # "end"
<1>1. PICK op, x : x = p.todo /\ Chain(op, x, "end")
  BY DEF Rest
<1>2. Head(x) \in Steps
  BY <1>1, ChainTail
<1> QED BY <1>1, <1>2 DEF Steps

(* A write that ends no session.                                           *)
LEMMA QuietEffect ==
    ASSUME IInv, NEW r \in Reqs, req[r] # NULL, NEW q, Written(r, q),
           q # NULL => Typed(q) /\ Knows(q)' /\ Unraced(q)',
           UNCHANGED <<codes, resets>>, UNCHANGED history,
           NEW u \in Users, NEW d \in Docs, acct' = [acct EXCEPT ![u] = d],
           ~Clashes(u, d), Allowed(r, u, d),
           ~req[r].raced => \A t \in d.tokens : \/ u \in Accounts /\ t \in acct[u].tokens
                                                \/ t >= changed[u] /\ t \notin ended[u],
           q # NULL /\ Op(r) \in Searches /\ req[r].user = NULL /\ q.user # NULL =>
              Answers(acct'[q.user], Arg(r).provider, Arg(r).external)
    PROVE  Effect
<1>1. changed' = changed /\ ended' = ended
  BY DEF history
<1>2. /\ changed' \in [Users -> 0 .. now] /\ ended' \in [Users -> SUBSET (0 .. MaxTime)]
      /\ \A t \in ended'[u] : t < now
      /\ \A v \in Users \ {u} : changed'[v] = changed[v] /\ ended'[v] = ended[v]
  BY <1>1 DEF IInv, DataOK
<1>3. ASSUME serial', NEW t \in d.tokens
      PROVE  t >= changed'[u] /\ t \notin ended'[u]
  <2>1. serial /\ ~req[r].raced
    BY <1>3 DEF Written
  <2>2. u \in Accounts /\ t \in acct[u].tokens => t >= changed[u] /\ t \notin ended[u]
    BY <2>1 DEF IInv, SessionsEnd
  <2> QED BY <1>1, <1>3, <2>1, <2>2
<1> QED BY <1>2, <1>3, AccountEffect

(* What is known of a request that goes on after such a write.             *)
LEMMA KnowsAfter ==
    ASSUME IInv, NEW r, NEW q, Written(r, q), NEW u \in Users, NEW d \in Docs,
           acct' = [acct EXCEPT ![u] = d], NEW p, p.user = NULL \/ p.user = u \/ p.user \in Accounts,
           HasToken(p) => p.token <= now
    PROVE  Knows(p)'
<1>1. Accounts' = Accounts \cup {u} /\ now' = now
  BY OneWritten DEF Written
<1> QED BY <1>1 DEF Knows, HasToken

(* A session is opened: its token was made in a second no step has ended   *)
(* since, unless the request was overtaken.                                *)
LEMMA PushEffect ==
    ASSUME IInv, NEW r \in Reqs, Push(r)
    PROVE  Effect
<1>1. PICK q \in Requests : q = req[r] /\ Fits(q) /\ q.call \in Calls /\ Head(q.todo) = "push"
                             /\ req[r] # NULL
  BY Served DEF Push, At
<1>2. PICK u, t : u = q.user /\ t = q.token
  OBVIOUS
<1>3. u \in Accounts /\ u \in Users /\ t \in Nat /\ t <= now /\ acct[u] \in Docs
  <2>1. u \in Users /\ t \in Nat
    BY <1>1, <1>2 DEF Fits, Typed, UserSteps, HasToken
  <2>2. u # NULL
    BY <2>1, UserAssumption
  <2>3. u \in Accounts /\ t <= now
    BY <1>1, <1>2, <2>2 DEF Fits, Knows, HasToken
  <2> QED BY <2>1, <2>3 DEF Accounts, IInv, DataOK
<1>4. PICK d : d = [acct[u] EXCEPT !.tokens = acct[u].tokens \cup {t}]
  OBVIOUS
<1>5. /\ d \in Docs /\ d.tokens = acct[u].tokens \cup {t} /\ d.name = acct[u].name
      /\ d.email = acct[u].email /\ d.links = acct[u].links /\ d.avatar = acct[u].avatar
      /\ d.password = acct[u].password
  BY <1>3, <1>4 DEF Docs
<1>6. acct' = [acct EXCEPT ![u] = d]
  BY <1>1, <1>2, <1>4 DEF Push, PushToken
<1>7. PICK new : new = [q EXCEPT !.token = NULL]
  OBVIOUS
<1>8. /\ new \in Requests /\ new.call = q.call /\ new.raced = q.raced /\ new.user = u
      /\ new.token = NULL /\ new.link = q.link
  BY <1>2, <1>7 DEF Requests
<1>9. PICK p : Written(r, p) /\ (p # NULL => Rest(q, new, p))
  BY <1>1, <1>7, <1>8, WritesRest DEF Push, WritesAccount
<1>10. ASSUME p # NULL
       PROVE  Typed(p) /\ Knows(p)' /\ Unraced(p)'
  <2>1. Head(p.todo) \in {"invalidate", "mail"}
    BY <1>1, <1>9, <1>10, RestStep DEF Rest, Leads
  <2>2. Typed(p)
    BY <1>1, <1>3, <1>8, <1>9, <1>10, <2>1 DEF Rest, Fits, Typed, UserSteps, LinkSteps, HasToken
  <2>3. Knows(p)'
    BY <1>3, <1>5, <1>6, <1>8, <1>9, <1>10, <2>1, KnowsAfter DEF Rest, HasToken
  <2>4. Unraced(p)'
    BY <2>1 DEF Unraced, HasToken
  <2> QED BY <2>2, <2>3, <2>4
<1>11. ~Clashes(u, d)
  BY <1>3, <1>5, NoNewKeys DEF Identities
<1>12. Allowed(r, u, d)
  BY <1>5 DEF Allowed, HasMethod
<1>13. ~req[r].raced => t >= changed[u] /\ t \notin ended[u]
  BY <1>1, <1>2 DEF Fits, Unraced, HasToken
<1>14. p # NULL => p.user = req[r].user
  BY <1>1, <1>2, <1>8, <1>9 DEF Rest
<1>15. UNCHANGED <<codes, resets>> /\ UNCHANGED history
  BY DEF Push, WritesAccount
<1> QED BY <1>1, <1>3, <1>5, <1>6, <1>9, <1>10, <1>11, <1>12, <1>13, <1>14, <1>15, QuietEffect

(* The account a request goes on about is there.                           *)
LEMMA UserKnown ==
    ASSUME IInv, NEW q, Fits(q), Head(q.todo) \in UserSteps
    PROVE  q.user \in Users /\ q.user \in Accounts /\ acct[q.user] \in Docs
<1>1. q.user \in Users
  BY DEF Fits, Typed
<1>2. q.user \in Accounts
  BY <1>1, UserAssumption DEF Fits, Knows
<1> QED BY <1>1, <1>2 DEF Accounts, IInv, DataOK

(* A write that keeps what a sign-in needs, or is one of those that may    *)
(* not, on an account that is there.  e is the document before it.         *)
LEMMA ModifyEffect ==
    ASSUME IInv, NEW r \in Reqs, req[r] # NULL, NEW q, Written(r, q),
           q # NULL => Typed(q) /\ Unraced(q)' /\ q.user = req[r].user
                       /\ (HasToken(q) => q.token <= now),
           UNCHANGED <<codes, resets>>, UNCHANGED history,
           NEW u \in Accounts, NEW d \in Docs, acct' = [acct EXCEPT ![u] = d],
           d.tokens \subseteq acct[u].tokens, ~Clashes(u, d), Allowed(r, u, d)
    PROVE  Effect
<1>1. u \in Users
  BY DEF Accounts
<1>2. ASSUME q # NULL PROVE Knows(q)'
  <2>1. q.user = NULL \/ q.user \in Accounts
    BY <1>2, Served DEF Fits, Knows
  <2> QED BY <1>1, <1>2, <2>1, KnowsAfter
<1>3. q # NULL => Typed(q) /\ Knows(q)' /\ Unraced(q)'
  BY <1>2
<1>4. q # NULL => q.user = req[r].user
  OBVIOUS
<1> QED BY <1>1, <1>3, <1>4, QuietEffect

Pictured(L, n) == {IF l.provider = n THEN [l EXCEPT !.picture = TRUE] ELSE l : l \in L}

(* Storing a picture keeps the identities of an account.                   *)
LEMMA PictureLinks ==
    ASSUME NEW L \in SUBSET Links, NEW n
    PROVE  /\ Pictured(L, n) \in SUBSET Links /\ (L # {} => Pictured(L, n) # {})
           /\ \A m \in Pictured(L, n) :
                 \E l \in L : m.provider = l.provider /\ m.external = l.external
<1>1. ASSUME NEW m \in Pictured(L, n)
      PROVE  m \in Links /\ \E l \in L : m.provider = l.provider /\ m.external = l.external
  <2>1. PICK l \in L : m = IF l.provider = n THEN [l EXCEPT !.picture = TRUE] ELSE l
    BY DEF Pictured
  <2> QED BY <2>1 DEF Links
<1>2. L # {} => Pictured(L, n) # {}
  BY DEF Pictured
<1> QED BY <1>1, <1>2

(* The provider's picture is stored.                                       *)
LEMMA PictureEffect ==
    ASSUME IInv, NEW r \in Reqs, WritePicture(r)
    PROVE  Effect
<1>1. PICK q \in Requests : q = req[r] /\ Fits(q) /\ q.call \in Calls /\ Head(q.todo) = "picture"
                             /\ req[r] # NULL
  BY Served DEF WritePicture, At
<1>2. PICK op : op = q.call.op /\ op = Op(r) /\ \E t : Leads(op, "picture", t)
  BY <1>1, OpAt DEF Fits, Op
<1>3. PICK u \in Accounts : u = q.user /\ acct[u] \in Docs
  BY <1>1, UserKnown DEF UserSteps
<1>4. PICK M : /\ M = Pictured(acct[u].links, q.link.provider)
              /\ M \in SUBSET Links /\ (acct[u].links # {} => M # {})
              /\ \A m \in M : \E l \in acct[u].links :
                    m.provider = l.provider /\ m.external = l.external
  <2>1. PICK L, n : L = acct[u].links /\ n = q.link.provider /\ L \in SUBSET Links
    BY <1>3 DEF Docs
  <2>2. /\ Pictured(L, n) \in SUBSET Links /\ (L # {} => Pictured(L, n) # {})
        /\ \A m \in Pictured(L, n) :
              \E l \in L : m.provider = l.provider /\ m.external = l.external
    BY <2>1, PictureLinks
  <2> QED BY <2>1, <2>2
<1>5. PICK d : d = [acct[u] EXCEPT !.links = M]
  OBVIOUS
<1>6. /\ d \in Docs /\ d.links = M
      /\ d.name = acct[u].name /\ d.email = acct[u].email /\ d.password = acct[u].password
      /\ d.avatar = acct[u].avatar /\ d.tokens = acct[u].tokens /\ d.verified = acct[u].verified
  BY <1>3, <1>4, <1>5 DEF Docs
<1>7. acct' = [acct EXCEPT ![u] = d] /\ UNCHANGED <<codes, resets>> /\ UNCHANGED history
  BY <1>1, <1>2, <1>3, <1>4, <1>5
     DEF WritePicture, SetPicture, Pictured, WritesAccount, Refuse, Op, Arg, Caller
<1>8. Writes(r, Tail(req[r].todo), q)
  BY <1>1 DEF WritePicture, WritesAccount, Refuse
<1>9. PICK p : Written(r, p) /\ (p # NULL => Rest(q, q, p))
  BY <1>1, <1>8, WritesRest
<1>10. ASSUME p # NULL
       PROVE  Typed(p) /\ Unraced(p)' /\ p.user = req[r].user /\ (HasToken(p) => p.token <= now)
  <2>1. Head(p.todo) = "avatarRead"
    BY <1>1, <1>2, <1>9, <1>10, RestStep DEF Rest, Leads
  <2>2. Typed(p)
    BY <1>1, <1>2, <1>3, <1>9, <1>10, <2>1 DEF Rest, Fits, Typed, UserSteps, LinkSteps, HasToken
  <2>3. changed' = changed /\ ended' = ended
    BY <1>7 DEF history
  <2> QED BY <1>1, <1>9, <1>10, <2>1, <2>2, <2>3 DEF Rest, Fits, Knows, Unraced, HasToken
<1>11. ~Clashes(u, d)
  <2>1. Identities(d) \subseteq Identities(acct[u])
    BY <1>4, <1>6 DEF Identities
  <2> QED BY <1>3, <1>6, <2>1, NoNewKeys
<1>12. Allowed(r, u, d)
  BY <1>4, <1>6 DEF Allowed, HasMethod
<1> QED BY <1>1, <1>3, <1>6, <1>7, <1>9, <1>10, <1>11, <1>12, ModifyEffect

(* The avatar is set again to what it was when it was read.                *)
LEMMA RefreshEffect ==
    ASSUME IInv, NEW r \in Reqs, RefreshAvatar(r)
    PROVE  Effect
<1>1. PICK q \in Requests : q = req[r] /\ Fits(q) /\ q.call \in Calls /\ Head(q.todo) = "avatarSet"
                             /\ req[r] # NULL
  BY Served DEF RefreshAvatar, At
<1>2. PICK op : op = q.call.op /\ op = Op(r) /\ \E t : Leads(op, "avatarSet", t)
  BY <1>1, OpAt DEF Fits, Op
<1>3. PICK u \in Accounts : u = q.user /\ acct[u] \in Docs
  BY <1>1, UserKnown DEF UserSteps
<1>4. PICK a \in Providers : a = q.link.provider
  BY <1>1 DEF Fits, Typed, LinkSteps, Links
<1>5. PICK d : d = [acct[u] EXCEPT !.avatar = a]
  OBVIOUS
<1>6. /\ d \in Docs /\ d.avatar = a
      /\ d.name = acct[u].name /\ d.email = acct[u].email /\ d.password = acct[u].password
      /\ d.links = acct[u].links /\ d.tokens = acct[u].tokens /\ d.verified = acct[u].verified
  BY <1>3, <1>4, <1>5 DEF Docs
<1>7. acct' = [acct EXCEPT ![u] = d] /\ UNCHANGED <<codes, resets>> /\ UNCHANGED history
  BY <1>1, <1>2, <1>3, <1>4, <1>5 DEF RefreshAvatar, SetAvatar, WritesAccount, Refuse, Op, Arg, Caller
<1>8. Writes(r, Tail(req[r].todo), q)
  BY <1>1 DEF RefreshAvatar, WritesAccount, Refuse
<1>9. PICK p : Written(r, p) /\ (p # NULL => Rest(q, q, p))
  BY <1>1, <1>8, WritesRest
<1>10. ASSUME p # NULL
       PROVE  Typed(p) /\ Unraced(p)' /\ p.user = req[r].user /\ (HasToken(p) => p.token <= now)
  <2>1. Head(p.todo) \in {"push", "mail"} /\ (Head(p.todo) = "push" => op = "signIn")
    BY <1>1, <1>2, <1>9, <1>10, RestStep DEF Rest, Leads
  <2>2. Typed(p)
    BY <1>1, <1>2, <1>3, <1>9, <1>10, <2>1 DEF Rest, Fits, Typed, UserSteps, LinkSteps, HasToken
  <2>3. changed' = changed /\ ended' = ended
    BY <1>7 DEF history
  <2> QED BY <1>1, <1>2, <1>9, <1>10, <2>1, <2>2, <2>3 DEF Rest, Fits, Knows, Unraced, HasToken
<1>11. ~Clashes(u, d)
  BY <1>3, <1>6, NoNewKeys DEF Identities
<1>12. Allowed(r, u, d)
  BY <1>1, <1>3, <1>4, <1>6, <1>9 DEF Allowed, HasMethod, Fits, Unraced, Written
<1> QED BY <1>1, <1>3, <1>6, <1>7, <1>9, <1>10, <1>11, <1>12, ModifyEffect

(* Disconnecting leaves another method, unless the request was overtaken.  *)
LEMMA UnlinkEffect ==
    ASSUME IInv, NEW r \in Reqs, Unlink(r)
    PROVE  Effect
<1>1. PICK q \in Requests : q = req[r] /\ Fits(q) /\ q.call \in Calls /\ Head(q.todo) = "unlink"
                             /\ req[r] # NULL
  BY Served DEF Unlink, At
<1>2. PICK op : op = q.call.op /\ op = Op(r) /\ \E t : Leads(op, "unlink", t)
  BY <1>1, OpAt DEF Fits, Op
<1>3. PICK u \in Accounts : u = q.user /\ acct[u] \in Docs
  BY <1>1, UserKnown DEF UserSteps
<1>4. PICK L : L = {l \in acct[u].links : l.provider # q.call.arg} /\ L \in SUBSET Links
  BY <1>3 DEF Docs
<1>5. PICK d : d = [acct[u] EXCEPT !.links = L]
  OBVIOUS
<1>6. /\ d \in Docs /\ d.links = L
      /\ d.name = acct[u].name /\ d.email = acct[u].email /\ d.password = acct[u].password
      /\ d.avatar = acct[u].avatar /\ d.tokens = acct[u].tokens /\ d.verified = acct[u].verified
  BY <1>3, <1>4, <1>5 DEF Docs
<1>7. acct' = [acct EXCEPT ![u] = d] /\ UNCHANGED <<codes, resets>> /\ UNCHANGED history
  BY <1>1, <1>2, <1>3, <1>4, <1>5 DEF Unlink, RemoveLinks, WritesAccount, Refuse, Op, Arg, Caller
<1>8. Writes(r, Tail(req[r].todo), q)
  BY <1>1 DEF Unlink, WritesAccount, Refuse
<1>9. PICK p : Written(r, p) /\ (p # NULL => Rest(q, q, p))
  BY <1>1, <1>8, WritesRest
<1>10. ASSUME p # NULL
       PROVE  Typed(p) /\ Unraced(p)' /\ p.user = req[r].user /\ (HasToken(p) => p.token <= now)
  <2>1. Head(p.todo) = "mail"
    BY <1>1, <1>2, <1>9, <1>10, RestStep DEF Rest, Leads
  <2>2. Typed(p)
    BY <1>1, <1>2, <1>3, <1>9, <1>10, <2>1 DEF Rest, Fits, Typed, UserSteps, LinkSteps, HasToken
  <2> QED BY <1>1, <1>9, <1>10, <2>1, <2>2 DEF Rest, Fits, Knows, Unraced, HasToken
<1>11. ~Clashes(u, d)
  <2>1. Identities(d) \subseteq Identities(acct[u])
    BY <1>4, <1>6 DEF Identities
  <2> QED BY <1>3, <1>6, <2>1, NoNewKeys
<1>12. Allowed(r, u, d)
  BY <1>1, <1>3, <1>4, <1>6, <1>9
     DEF Allowed, HasMethod, Fits, Unraced, Written, MayDisconnect
<1> QED BY <1>1, <1>3, <1>6, <1>7, <1>9, <1>10, <1>11, <1>12, ModifyEffect

(* An address is marked verified.                                          *)
LEMMA VerifiedEffect ==
    ASSUME IInv, NEW r \in Reqs, ConfirmVerified(r)
    PROVE  Effect
<1>1. PICK q \in Requests : q = req[r] /\ Fits(q) /\ q.call \in Calls /\ Head(q.todo) = "markVerified"
                             /\ req[r] # NULL
  BY Served DEF ConfirmVerified, At
<1>2. PICK op : op = q.call.op /\ op = Op(r) /\ \E t : Leads(op, "markVerified", t)
  BY <1>1, OpAt DEF Fits, Op
<1>3. PICK u \in Accounts : u = q.user /\ acct[u] \in Docs
  BY <1>1, UserKnown DEF UserSteps
<1>5. PICK d : d = [acct[u] EXCEPT !.verified = TRUE]
  OBVIOUS
<1>6. /\ d \in Docs /\ d.verified = TRUE
      /\ d.name = acct[u].name /\ d.email = acct[u].email /\ d.password = acct[u].password
      /\ d.links = acct[u].links /\ d.avatar = acct[u].avatar /\ d.tokens = acct[u].tokens
  BY <1>3, <1>5 DEF Docs
<1>7. acct' = [acct EXCEPT ![u] = d] /\ UNCHANGED <<codes, resets>> /\ UNCHANGED history
  BY <1>1, <1>2, <1>3, <1>5 DEF ConfirmVerified, MarkVerified, WritesAccount, Refuse, Op, Arg, Caller
<1>8. Writes(r, Tail(req[r].todo), q)
  BY <1>1 DEF ConfirmVerified, WritesAccount, Refuse
<1>9. PICK p : Written(r, p) /\ (p # NULL => Rest(q, q, p))
  BY <1>1, <1>8, WritesRest
<1>10. p = NULL
  BY <1>1, <1>9, RestStep DEF Rest, Leads
<1>11. ~Clashes(u, d)
  BY <1>3, <1>6, NoNewKeys DEF Identities
<1>12. Allowed(r, u, d)
  BY <1>6 DEF Allowed, HasMethod
<1> QED BY <1>1, <1>3, <1>6, <1>7, <1>9, <1>10, <1>11, <1>12, ModifyEffect

(* The user chooses an avatar.                                             *)
LEMMA ChooseEffect ==
    ASSUME IInv, NEW r \in Reqs, ChooseAvatar(r)
    PROVE  Effect
<1>1. PICK q \in Requests : q = req[r] /\ Fits(q) /\ q.call \in Calls /\ Head(q.todo) = "writeAvatar"
                             /\ req[r] # NULL
  BY Served DEF ChooseAvatar, At
<1>2. PICK op : op = q.call.op /\ op = Op(r) /\ \E t : Leads(op, "writeAvatar", t)
  BY <1>1, OpAt DEF Fits, Op
<1>3. PICK u \in Accounts : u = q.user /\ acct[u] \in Docs
  BY <1>1, UserKnown DEF UserSteps
<1>4. PICK a \in Providers : a = q.call.arg
  BY <1>1, <1>2, CallShapes DEF Leads
<1>5. PICK d : d = [acct[u] EXCEPT !.avatar = a]
  OBVIOUS
<1>6. /\ d \in Docs /\ d.avatar = a
      /\ d.name = acct[u].name /\ d.email = acct[u].email /\ d.password = acct[u].password
      /\ d.links = acct[u].links /\ d.tokens = acct[u].tokens /\ d.verified = acct[u].verified
  BY <1>3, <1>4, <1>5 DEF Docs
<1>7. acct' = [acct EXCEPT ![u] = d] /\ UNCHANGED <<codes, resets>> /\ UNCHANGED history
  BY <1>1, <1>2, <1>3, <1>4, <1>5 DEF ChooseAvatar, SetAvatar, WritesAccount, Refuse, Op, Arg, Caller
<1>8. Writes(r, Tail(req[r].todo), q)
  BY <1>1 DEF ChooseAvatar, WritesAccount, Refuse
<1>9. PICK p : Written(r, p) /\ (p # NULL => Rest(q, q, p))
  BY <1>1, <1>8, WritesRest
<1>10. p = NULL
  BY <1>1, <1>9, RestStep DEF Rest, Leads
<1>11. ~Clashes(u, d)
  BY <1>3, <1>6, NoNewKeys DEF Identities
<1>12. Allowed(r, u, d)
  BY <1>1, <1>6, <1>9, <1>10 DEF Allowed, HasMethod, Written, ChooseAvatar
<1> QED BY <1>1, <1>3, <1>6, <1>7, <1>9, <1>10, <1>11, <1>12, ModifyEffect

(* The user removes the avatar.                                            *)
LEMMA ClearEffect ==
    ASSUME IInv, NEW r \in Reqs, ClearAvatar(r), ~Refuse(r)
    PROVE  Effect
<1>1. PICK q \in Requests : q = req[r] /\ Fits(q) /\ q.call \in Calls /\ Head(q.todo) = "clearAvatar"
                             /\ req[r] # NULL
  BY Served DEF ClearAvatar, At
<1>2. PICK op : op = q.call.op /\ op = Op(r) /\ \E t : Leads(op, "clearAvatar", t)
  BY <1>1, OpAt DEF Fits, Op
<1>3. PICK u \in Accounts : u = q.call.user /\ acct[u] \in Docs
  BY <1>1 DEF ClearAvatar, Caller, Accounts, IInv, DataOK
<1>5. PICK d : d = [acct[u] EXCEPT !.avatar = NULL]
  OBVIOUS
<1>6. /\ d \in Docs /\ d.avatar = NULL
      /\ d.name = acct[u].name /\ d.email = acct[u].email /\ d.password = acct[u].password
      /\ d.links = acct[u].links /\ d.tokens = acct[u].tokens /\ d.verified = acct[u].verified
  BY <1>3, <1>5 DEF Docs
<1>7. acct' = [acct EXCEPT ![u] = d] /\ UNCHANGED <<codes, resets>> /\ UNCHANGED history
  BY <1>1, <1>2, <1>3, <1>5 DEF ClearAvatar, SetAvatar, WritesAccount, Refuse, Op, Arg, Caller
<1>8. Writes(r, Tail(req[r].todo), q)
  BY <1>1 DEF ClearAvatar, WritesAccount, Refuse
<1>9. PICK p : Written(r, p) /\ (p # NULL => Rest(q, q, p))
  BY <1>1, <1>8, WritesRest
<1>10. p = NULL
  BY <1>1, <1>9, RestStep DEF Rest, Leads
<1>11. ~Clashes(u, d)
  BY <1>3, <1>6, NoNewKeys DEF Identities
<1>12. Allowed(r, u, d)
  BY <1>1, <1>6, <1>9, <1>10 DEF Allowed, HasMethod, Written, ClearAvatar
<1> QED BY <1>1, <1>3, <1>6, <1>7, <1>9, <1>10, <1>11, <1>12, ModifyEffect

(* A rename goes through while nobody else has the name.                   *)
LEMMA NameEffect ==
    ASSUME IInv, NEW r \in Reqs, WriteName(r), ~Refuse(r)
    PROVE  Effect
<1>1. PICK q \in Requests : q = req[r] /\ Fits(q) /\ q.call \in Calls /\ Head(q.todo) = "writeName"
                             /\ req[r] # NULL
  BY Served DEF WriteName, At
<1>2. PICK op : op = q.call.op /\ op = Op(r) /\ \E t : Leads(op, "writeName", t)
  BY <1>1, OpAt DEF Fits, Op
<1>3. PICK u \in Accounts : u = q.user /\ acct[u] \in Docs
  BY <1>1, UserKnown DEF UserSteps
<1>4. PICK n \in Names : n = q.call.arg
  BY <1>1, <1>2, CallShapes DEF Leads
<1>5. PICK d : d = [acct[u] EXCEPT !.name = n]
  OBVIOUS
<1>6. /\ d \in Docs /\ d.name = n
      /\ d.email = acct[u].email /\ d.password = acct[u].password /\ d.links = acct[u].links
      /\ d.avatar = acct[u].avatar /\ d.tokens = acct[u].tokens /\ d.verified = acct[u].verified
  BY <1>3, <1>4, <1>5 DEF Docs
<1>7. acct' = [acct EXCEPT ![u] = d] /\ UNCHANGED <<codes, resets>> /\ UNCHANGED history
  BY <1>1, <1>2, <1>3, <1>4, <1>5 DEF WriteName, SetName, WritesAccount, Refuse, Op, Arg, Caller
<1>8. Writes(r, Tail(req[r].todo), q)
  BY <1>1 DEF WriteName, WritesAccount, Refuse
<1>9. PICK p : Written(r, p) /\ (p # NULL => Rest(q, q, p))
  BY <1>1, <1>8, WritesRest
<1>10. p = NULL
  BY <1>1, <1>9, RestStep DEF Rest, Leads
<1>11. ~Clashes(u, d)
  <2>1. \A v \in Accounts \ {u} : acct[v].name # n
    BY <1>1, <1>3, <1>4 DEF WriteName, ByName, Arg, Refuse
  <2> QED BY <1>3, <1>6, <2>1 DEF Clashes, IInv, UniqueKeys, Identities
<1>12. Allowed(r, u, d)
  BY <1>6 DEF Allowed, HasMethod
<1> QED BY <1>1, <1>3, <1>6, <1>7, <1>9, <1>10, <1>11, <1>12, ModifyEffect

(* A link is added while nobody else has the identity.                     *)
LEMMA AddEffect ==
    ASSUME IInv, NEW r \in Reqs, AddProvider(r), ~Refuse(r)
    PROVE  Effect
<1>1. PICK q \in Requests : q = req[r] /\ Fits(q) /\ q.call \in Calls /\ Head(q.todo) = "addLink"
                             /\ req[r] # NULL
  BY Served DEF AddProvider, At
<1>2. PICK op : op = q.call.op /\ op = Op(r) /\ \E t : Leads(op, "addLink", t)
  BY <1>1, OpAt DEF Fits, Op
<1>3. PICK u \in Accounts : u = q.user /\ acct[u] \in Docs
  BY <1>1, UserKnown DEF UserSteps
<1>4. PICK L : L = acct[u].links \cup {q.link} /\ L \in SUBSET Links
  <2>1. q.link \in Links /\ acct[u].links \in SUBSET Links
    BY <1>1, <1>3 DEF Docs, Fits, Typed, LinkSteps
  <2> QED BY <2>1
<1>5. PICK d : d = [acct[u] EXCEPT !.links = L]
  OBVIOUS
<1>6. /\ d \in Docs /\ d.links = L
      /\ d.name = acct[u].name /\ d.email = acct[u].email /\ d.password = acct[u].password
      /\ d.avatar = acct[u].avatar /\ d.tokens = acct[u].tokens /\ d.verified = acct[u].verified
  BY <1>3, <1>4, <1>5 DEF Docs
<1>7. acct' = [acct EXCEPT ![u] = d] /\ UNCHANGED <<codes, resets>> /\ UNCHANGED history
  BY <1>1, <1>2, <1>3, <1>4, <1>5 DEF AddProvider, AddLink, WritesAccount, Refuse, Op, Arg, Caller
<1>8. Writes(r, Tail(req[r].todo), q)
  BY <1>1 DEF AddProvider, WritesAccount, Refuse
<1>9. PICK p : Written(r, p) /\ (p # NULL => Rest(q, q, p))
  BY <1>1, <1>8, WritesRest
<1>10. ASSUME p # NULL
       PROVE  Typed(p) /\ Unraced(p)' /\ p.user = req[r].user /\ (HasToken(p) => p.token <= now)
  <2>1. Head(p.todo) = "mail"
    BY <1>1, <1>2, <1>9, <1>10, RestStep DEF Rest, Leads
  <2>2. Typed(p)
    BY <1>1, <1>2, <1>3, <1>9, <1>10, <2>1 DEF Rest, Fits, Typed, UserSteps, LinkSteps, HasToken
  <2> QED BY <1>1, <1>9, <1>10, <2>1, <2>2 DEF Rest, Fits, Knows, Unraced, HasToken
<1>11. ~Clashes(u, d)
  BY <1>1, <1>3, <1>4, <1>5 DEF AddProvider, Refuse
<1>12. Allowed(r, u, d)
  BY <1>4, <1>6 DEF Allowed, HasMethod
<1> QED BY <1>1, <1>3, <1>6, <1>7, <1>9, <1>10, <1>11, <1>12, ModifyEffect

(* A revocation removes the provider, the last method or not.              *)
LEMMA ForceEffect ==
    ASSUME IInv, NEW r \in Reqs, ForceUnlink(r)
    PROVE  Effect
<1>1. PICK q \in Requests : q = req[r] /\ Fits(q) /\ q.call \in Calls /\ Head(q.todo) = "forceUnlink"
                             /\ req[r] # NULL
  BY Served DEF ForceUnlink, At
<1>2. PICK op : op = q.call.op /\ op = Op(r) /\ \E t : Leads(op, "forceUnlink", t)
  BY <1>1, OpAt DEF Fits, Op
<1>3. PICK u \in Accounts : u = q.user /\ acct[u] \in Docs
  BY <1>1, UserKnown DEF UserSteps
<1>4. PICK L : L = {l \in acct[u].links : l.provider # q.call.arg.provider} /\ L \in SUBSET Links
  BY <1>3 DEF Docs
<1>5. PICK d : d = [acct[u] EXCEPT !.links = L]
  OBVIOUS
<1>6. /\ d \in Docs /\ d.links = L
      /\ d.name = acct[u].name /\ d.email = acct[u].email /\ d.password = acct[u].password
      /\ d.avatar = acct[u].avatar /\ d.tokens = acct[u].tokens /\ d.verified = acct[u].verified
  BY <1>3, <1>4, <1>5 DEF Docs
<1>7. acct' = [acct EXCEPT ![u] = d] /\ UNCHANGED <<codes, resets>> /\ UNCHANGED history
  BY <1>1, <1>2, <1>3, <1>4, <1>5 DEF ForceUnlink, RemoveLinks, WritesAccount, Refuse, Op, Arg, Caller
<1>8. PICK todo : (todo = <<"mail">> \/ todo = <<>>) /\ Writes(r, todo, q)
  BY <1>1 DEF ForceUnlink
<1>9. PICK p : Written(r, p) /\ (p # NULL => Turn(q, p, "mail"))
  <2>1. CASE todo = <<>>
    BY <1>8, <2>1, WritesShape
  <2>2. CASE todo = <<"mail">>
    <3>1. Chain(op, todo, "end") /\ Starts(todo, "mail") /\ todo # <<>> /\ todo \in Seq(Steps)
      BY <2>2, Insertions DEF Chain
    <3>2. PICK p : p = [q EXCEPT !.todo = todo]
      OBVIOUS
    <3>3. Written(r, p)
      BY <1>8, <3>1, <3>2, WritesShape
    <3>4. Turn(q, p, "mail")
      BY <1>2, <3>1, <3>2 DEF Turn, Starts, Requests
    <3> QED BY <3>3, <3>4
  <2> QED BY <1>8, <2>1, <2>2
<1>10. ASSUME p # NULL
       PROVE  Typed(p) /\ Unraced(p)' /\ p.user = req[r].user /\ (HasToken(p) => p.token <= now)
  BY <1>1, <1>9, <1>10 DEF Turn, Fits, Typed, Unraced, UserSteps, LinkSteps, HasToken
<1>11. ~Clashes(u, d)
  <2>1. Identities(d) \subseteq Identities(acct[u])
    BY <1>4, <1>6 DEF Identities
  <2> QED BY <1>3, <1>6, <2>1, NoNewKeys
<1>12. Allowed(r, u, d)
  <2>1. req'[r] # req[r]
    <3>1. CASE p = NULL
      BY <1>1, <1>9, <3>1 DEF Written
    <3>2. CASE p # NULL
      BY <1>1, <1>9, <3>2 DEF Written, Turn
    <3> QED BY <3>1, <3>2
  <2> QED BY <1>1, <1>6, <2>1 DEF Allowed, ForceUnlink
<1> QED BY <1>1, <1>3, <1>6, <1>7, <1>9, <1>10, <1>11, <1>12, ModifyEffect

(* The insert of an account, as a registration or a sign-in makes it.      *)
LEMMA InsertEffect ==
    ASSUME IInv, NEW r \in Reqs, NEW q \in Requests, q = req[r], Fits(q), req[r] # NULL,
           Head(q.todo) \in {"saveUser", "create"},
           NEW u \in Users, NEW d \in Docs, Inserts(r, u, d), d.tokens = {},
           Op(r) \in Searches =>
              Answers(d, Arg(r).provider, Arg(r).external)
    PROVE  Effect
<1>1. PICK new : new = [q EXCEPT !.user = u, !.doc = d, !.token = now]
  OBVIOUS
<1>2. /\ new \in Requests /\ new.call = q.call /\ new.raced = q.raced /\ new.user = u
      /\ new.token = now /\ new.link = q.link
  BY <1>1, NowIsFree DEF Requests
<1>3. PICK p : Written(r, p) /\ (p # NULL => Rest(q, new, p))
  BY <1>1, <1>2, WritesRest DEF Inserts, WritesAccount
<1>4. /\ u \notin Accounts /\ ~Clashes(u, d) /\ acct' = [acct EXCEPT ![u] = d]
      /\ UNCHANGED <<codes, resets>> /\ UNCHANGED history
  BY DEF Inserts, WritesAccount
<1>5. ASSUME p # NULL
      PROVE  Typed(p) /\ Knows(p)' /\ Unraced(p)'
  <2>1. Head(p.todo) = "push"
    BY <1>3, <1>5 DEF Rest, Leads
  <2>2. Typed(p)
    BY <1>2, <1>3, <1>5, <2>1, NowIsFree DEF Rest, Fits, Typed, UserSteps, LinkSteps, HasToken
  <2>3. Knows(p)'
    <3>1. p.user = u /\ p.token <= now
      BY <1>2, <1>3, <1>5, NowIsFree DEF Rest
    <3> QED BY <1>3, <1>4, <3>1, KnowsAfter
  <2>4. changed' = changed /\ ended' = ended
    BY <1>4 DEF history
  <2>5. Unraced(p)'
    BY <1>2, <1>3, <1>5, <2>1, <2>4, NowIsFree DEF Rest, Unraced, HasToken
  <2> QED BY <2>2, <2>3, <2>5
<1>6. Allowed(r, u, d)
  BY <1>4 DEF Allowed
<1>7. p # NULL /\ Op(r) \in Searches /\ req[r].user = NULL /\ p.user # NULL =>
         Answers(acct'[p.user], Arg(r).provider, Arg(r).external)
  <2>1. acct'[u] = d
    BY <1>4, OneWritten
  <2> QED BY <1>2, <1>3, <2>1 DEF Rest
<1> QED BY <1>3, <1>4, <1>5, <1>6, <1>7, QuietEffect

(* A registration inserts its document.                                    *)
LEMMA SaveEffect ==
    ASSUME IInv, NEW r \in Reqs, SaveUser(r)
    PROVE  Effect
<1>1. PICK q \in Requests : q = req[r] /\ Fits(q) /\ q.call \in Calls /\ Head(q.todo) = "saveUser"
                             /\ req[r] # NULL
  BY Served DEF SaveUser, At
<1>2. PICK op : op = q.call.op /\ op = Op(r) /\ \E t : Leads(op, "saveUser", t)
  BY <1>1, OpAt DEF Fits, Op
<1>3. op = "register"
  BY <1>2 DEF Leads
<1>4. CASE Refuse(r)
  BY <1>1, <1>4, RefuseEffect
<1>5. CASE ~Refuse(r)
  <2>1. PICK n \in Names, e \in Emails, w \in Passwords \cup {NULL}, a \in Providers \cup {NULL},
             L \in SUBSET Links :
           n = Arg(r).name /\ e = Arg(r).email /\ w = Arg(r).password /\ a = NULL /\ L = {}
    BY <1>1, <1>2, <1>3, CallShapes DEF Arg
  <2>2. PICK d : d = NewDoc(n, e, w, L, a)
    OBVIOUS
  <2>3. PICK u \in Users : Inserts(r, u, d)
    BY <1>5, <2>1, <2>2 DEF SaveUser
  <2>4. d \in Docs /\ d.tokens = {}
    BY <2>2, NewDocs
  <2> QED BY <1>1, <1>2, <1>3, <2>3, <2>4, InsertEffect DEF Searches
<1> QED BY <1>4, <1>5

(* A sign-in inserts its document, or has lost the race.                   *)
LEMMA CreateEffect ==
    ASSUME IInv, NEW r \in Reqs, CreateAccount(r)
    PROVE  Effect
<1>1. PICK q \in Requests : q = req[r] /\ Fits(q) /\ q.call \in Calls /\ Head(q.todo) = "create"
                             /\ req[r] # NULL
  BY Served DEF CreateAccount, At
<1>2. PICK op : op = q.call.op /\ op = Op(r) /\ \E t : Leads(op, "create", t)
  BY <1>1, OpAt DEF Fits, Op
<1>3. op = "signIn" /\ q.doc \in Docs /\ q.doc.links = {q.link} /\ q.link \in Links
  BY <1>1, <1>2 DEF Leads, Fits, Typed, LinkSteps
<1>4. CASE Goes(r, <<"winner", "push">>, [q EXCEPT !.doc = NULL])
  <2>1. PICK new : new = [q EXCEPT !.doc = NULL]
    OBVIOUS
  <2>2. PICK todo : todo = <<"winner", "push">>
    OBVIOUS
  <2>3. /\ new \in Requests /\ new.call = q.call /\ new.raced = q.raced /\ new.user = q.user
        /\ new.link = q.link /\ op = new.call.op
    BY <1>2, <2>1 DEF Requests
  <2>4. Goes(r, todo, new) /\ Chain(op, todo, "end") /\ Starts(todo, "winner")
    BY <1>3, <1>4, <2>1, <2>2, Insertions
  <2>5. PICK p : req' = [req EXCEPT ![r] = p] /\ UNCHANGED data /\ Turn(new, p, "winner")
    BY <2>3, <2>4, GoesTurn
  <2>6. Fits(p)
    BY <1>1, <1>3, <2>3, <2>5
       DEF Turn, Fits, Typed, Knows, Unraced, UserSteps, LinkSteps, HasToken
  <2> QED BY <1>1, <2>3, <2>5, <2>6, ReadEffect DEF Turn
<1>5. CASE ~Goes(r, <<"winner", "push">>, [q EXCEPT !.doc = NULL])
  <2>1. PICK u \in Users, d \in Docs : d = q.doc /\ Inserts(r, u, d)
    BY <1>1, <1>3, <1>5 DEF CreateAccount
  <2>2. Answers(d, Arg(r).provider, Arg(r).external)
    <3>1. q.link.provider = Arg(r).provider /\ q.link.external = Arg(r).external
      BY <1>1, <1>3, UserAssumption DEF Fits, Typed, Arg
    <3> QED BY <1>3, <2>1, <3>1 DEF Identities, Answers
  <2>3. d.tokens = {}
    BY <1>1, <1>3, <2>1 DEF Fits, Typed
  <2> QED BY <1>1, <2>1, <2>2, <2>3, InsertEffect
<1> QED BY <1>4, <1>5

(* Sessions that are meant to be over by now.                              *)
LEMMA EndShape ==
    ASSUME IInv, NEW u \in Users, NEW T \in SUBSET (0 .. MaxTime), NEW at \in Nat, at <= now,
           End(u, T, at)
    PROVE  /\ ended' \in [Users -> SUBSET (0 .. MaxTime)]
           /\ ended'[u] = ended[u] \cup {t \in T : t < at}
           /\ \A t \in ended'[u] : t < now
           /\ \A v \in Users \ {u} : ended'[v] = ended[v]
<1>1. PICK E : E = ended[u] \cup {t \in T : t < at}
  OBVIOUS
<1>2. ended' = [ended EXCEPT ![u] = E]
  BY <1>1 DEF End
<1>3. E \in SUBSET (0 .. MaxTime)
  BY <1>1 DEF IInv, DataOK
<1>4. now \in Nat
  BY NowIsFree
<1>5. \A t \in E : t < now
  BY <1>1, <1>3, <1>4, AccountsAssumption DEF IInv, DataOK
<1> QED BY <1>1, <1>2, <1>3, <1>5 DEF IInv, DataOK

(* A rotation ends its session and begins another in the current second.   *)
LEMMA PullEffect ==
    ASSUME IInv, NEW r \in Reqs, Pull(r)
    PROVE  Effect
<1>1. PICK q \in Requests : q = req[r] /\ Fits(q) /\ q.call \in Calls /\ Head(q.todo) = "pull"
                             /\ req[r] # NULL
  BY Served DEF Pull, At
<1>2. PICK op : op = q.call.op /\ op = Op(r) /\ \E t : Leads(op, "pull", t)
  BY <1>1, OpAt DEF Fits, Op
<1>3. CASE Refuse(r)
  BY <1>1, <1>3, RefuseEffect
<1>4. CASE ~Refuse(r)
  <2>1. PICK u \in Accounts, b \in {q.call.arg} :
             /\ u = q.call.user /\ b = q.call.arg /\ acct[u] \in Docs
             /\ b \in acct[u].tokens /\ u \in Users
    BY <1>1, <1>4 DEF Pull, Caller, Arg, Accounts, IInv, DataOK
  <2>2. op \notin Searches /\ b \in 0 .. MaxTime
    BY <1>1, <1>2, <2>1, CallShapes DEF Leads, Searches
  <2>3. PICK T : T = {b}
    OBVIOUS
  <2>4. T \in SUBSET (0 .. MaxTime) /\ now \in Nat /\ now <= now
    BY <2>2, <2>3, NowIsFree, AccountsAssumption DEF IInv, DataOK
  <2>5. End(u, T, now) /\ changed' = changed
    BY <1>1, <1>4, <2>1, <2>3 DEF Pull, Caller, Arg
  <2>6. /\ ended' \in [Users -> SUBSET (0 .. MaxTime)]
        /\ ended'[u] = ended[u] \cup {t \in T : t < now}
        /\ \A t \in ended'[u] : t < now
        /\ \A v \in Users \ {u} : ended'[v] = ended[v]
    <3>1. PICK at \in Nat : at = now /\ at <= now
      BY <2>4
    <3>2. End(u, T, at)
      BY <2>5, <3>1 DEF End
    <3> QED BY <2>1, <2>4, <3>1, <3>2, EndShape
  <2>7. PICK d : d = [acct[u] EXCEPT !.tokens = acct[u].tokens \ {b}]
    OBVIOUS
  <2>8. /\ d \in Docs /\ d.tokens = acct[u].tokens \ {b}
        /\ d.name = acct[u].name /\ d.email = acct[u].email /\ d.links = acct[u].links
        /\ d.avatar = acct[u].avatar /\ d.password = acct[u].password
    BY <2>1, <2>7 DEF Docs
  <2>9. acct' = [acct EXCEPT ![u] = d] /\ UNCHANGED <<codes, resets>>
    BY <1>1, <1>4, <2>1, <2>7 DEF Pull, PullToken, Caller, Arg, WritesAccount
  <2>10. PICK new : new = [q EXCEPT !.user = u, !.token = now]
    OBVIOUS
  <2>11. /\ new \in Requests /\ new.call = q.call /\ new.raced = q.raced /\ new.link = q.link
         /\ new.user = u /\ new.token = now
    BY <2>1, <2>10, NowIsFree DEF Requests
  <2>12. Writes(r, Tail(req[r].todo), new)
    BY <1>1, <1>4, <2>1, <2>10 DEF Pull, WritesAccount, Caller
  <2>13. PICK p : Written(r, p) /\ (p # NULL => Rest(q, new, p))
    BY <1>1, <2>11, <2>12, WritesRest
  <2>14. ASSUME p # NULL
         PROVE  Typed(p) /\ Knows(p)' /\ Unraced(p)'
    <3>1. Head(p.todo) = "push"
      BY <1>1, <2>13, <2>14 DEF Rest, Leads
    <3>2. p.user = u /\ p.token = now /\ p.token <= now
      BY <2>4, <2>11, <2>13, <2>14 DEF Rest
    <3>3. Typed(p)
      BY <1>1, <2>1, <2>4, <2>11, <2>13, <2>14, <3>1, <3>2
         DEF Rest, Fits, Typed, UserSteps, LinkSteps, HasToken
    <3>4. Knows(p)'
      BY <2>1, <2>8, <2>9, <2>13, <3>2, KnowsAfter
    <3>5. now \notin ended'[u] /\ now >= changed'[u]
      BY <2>1, <2>4, <2>5, <2>6, NowIsFree
    <3>6. Unraced(p)'
      BY <3>1, <3>2, <3>5 DEF Unraced, HasToken
    <3> QED BY <3>3, <3>4, <3>6
  <2>15. ~Clashes(u, d)
    BY <2>1, <2>8, NoNewKeys DEF Identities
  <2>16. Allowed(r, u, d)
    BY <2>8 DEF Allowed, HasMethod
  <2>17. ASSUME serial', NEW t \in d.tokens
         PROVE  t >= changed'[u] /\ t \notin ended'[u]
    <3>1. t \in acct[u].tokens /\ t # b /\ serial
      BY <2>8, <2>13, <2>17 DEF Written
    <3>2. t >= changed[u] /\ t \notin ended[u]
      BY <2>1, <3>1 DEF IInv, SessionsEnd
    <3> QED BY <2>3, <2>5, <2>6, <3>1, <3>2
  <2>18. changed' \in [Users -> 0 .. now] /\ \A v \in Users \ {u} : changed'[v] = changed[v]
    BY <2>5 DEF IInv, DataOK
  <2>19. u \in Users /\ d \in Docs /\ Op(r) \notin Searches
    BY <1>2, <2>1, <2>2, <2>8
  <2> QED BY <1>1, <2>6, <2>9, <2>13, <2>14, <2>15, <2>16, <2>17, <2>18, <2>19, AccountEffect
<1> QED BY <1>3, <1>4

(* A logout ends its session.                                              *)
LEMMA LogoutEffect ==
    ASSUME IInv, NEW r \in Reqs, Logout(r)
    PROVE  Effect
<1>1. PICK q \in Requests : q = req[r] /\ Fits(q) /\ q.call \in Calls /\ Head(q.todo) = "logout"
                             /\ req[r] # NULL
  BY Served DEF Logout, At
<1>2. PICK op : op = q.call.op /\ op = Op(r) /\ \E t : Leads(op, "logout", t)
  BY <1>1, OpAt DEF Fits, Op
<1>3. CASE Refuse(r)
  BY <1>1, <1>3, RefuseEffect
<1>4. CASE ~Refuse(r)
  <2>1. PICK u \in Accounts, b \in {q.call.arg} :
             /\ u = q.call.user /\ b = q.call.arg /\ acct[u] \in Docs
             /\ b \in acct[u].tokens /\ u \in Users
    BY <1>1, <1>4 DEF Logout, Caller, Arg, Accounts, IInv, DataOK
  <2>2. op \notin Searches /\ b \in 0 .. MaxTime
    BY <1>1, <1>2, <2>1, CallShapes DEF Leads, Searches
  <2>3. PICK T : T = {b}
    OBVIOUS
  <2>4. T \in SUBSET (0 .. MaxTime) /\ now \in Nat /\ now <= now
    BY <2>2, <2>3, NowIsFree, AccountsAssumption DEF IInv, DataOK
  <2>5. End(u, T, now) /\ changed' = changed
    BY <1>1, <1>4, <2>1, <2>3 DEF Logout, Caller, Arg
  <2>6. /\ ended' \in [Users -> SUBSET (0 .. MaxTime)]
        /\ ended'[u] = ended[u] \cup {t \in T : t < now}
        /\ \A t \in ended'[u] : t < now
        /\ \A v \in Users \ {u} : ended'[v] = ended[v]
    <3>1. PICK at \in Nat : at = now /\ at <= now
      BY <2>4
    <3>2. End(u, T, at)
      BY <2>5, <3>1 DEF End
    <3> QED BY <2>1, <2>4, <3>1, <3>2, EndShape
  <2>7. PICK d : d = [acct[u] EXCEPT !.tokens = acct[u].tokens \ {b}]
    OBVIOUS
  <2>8. /\ d \in Docs /\ d.tokens = acct[u].tokens \ {b}
        /\ d.name = acct[u].name /\ d.email = acct[u].email /\ d.links = acct[u].links
        /\ d.avatar = acct[u].avatar /\ d.password = acct[u].password
    BY <2>1, <2>7 DEF Docs
  <2>9. acct' = [acct EXCEPT ![u] = d] /\ UNCHANGED <<codes, resets>>
    BY <1>1, <1>4, <2>1, <2>7 DEF Logout, PullToken, Caller, Arg, WritesAccount
  <2>10. PICK new : new = q
    OBVIOUS
  <2>11. /\ new \in Requests /\ new.call = q.call /\ new.raced = q.raced /\ new.link = q.link
    BY <2>1, <2>10, NowIsFree DEF Requests
  <2>12. Writes(r, Tail(req[r].todo), new)
    BY <1>1, <1>4, <2>1, <2>10 DEF Logout, WritesAccount, Caller
  <2>13. PICK p : Written(r, p) /\ (p # NULL => Rest(q, new, p))
    BY <1>1, <2>11, <2>12, WritesRest
  <2>14. p = NULL
    BY <1>1, <2>13, RestStep DEF Rest, Leads
  <2>15. ~Clashes(u, d)
    BY <2>1, <2>8, NoNewKeys DEF Identities
  <2>16. Allowed(r, u, d)
    BY <2>8 DEF Allowed, HasMethod
  <2>17. ASSUME serial', NEW t \in d.tokens
         PROVE  t >= changed'[u] /\ t \notin ended'[u]
    <3>1. t \in acct[u].tokens /\ t # b /\ serial
      BY <2>8, <2>13, <2>17 DEF Written
    <3>2. t >= changed[u] /\ t \notin ended[u]
      BY <2>1, <3>1 DEF IInv, SessionsEnd
    <3> QED BY <2>3, <2>5, <2>6, <3>1, <3>2
  <2>18. changed' \in [Users -> 0 .. now] /\ \A v \in Users \ {u} : changed'[v] = changed[v]
    BY <2>5 DEF IInv, DataOK
  <2>19. u \in Users /\ d \in Docs /\ Op(r) \notin Searches
    BY <1>2, <2>1, <2>2, <2>8
  <2> QED BY <1>1, <2>6, <2>9, <2>13, <2>14, <2>15, <2>16, <2>17, <2>18, <2>19, AccountEffect
<1> QED BY <1>3, <1>4

(* Logging out everywhere ends every session.                              *)
LEMMA LogoutAllEffect ==
    ASSUME IInv, NEW r \in Reqs, LogoutAll(r)
    PROVE  Effect
<1>1. PICK q \in Requests : q = req[r] /\ Fits(q) /\ q.call \in Calls /\ Head(q.todo) = "clear"
                             /\ req[r] # NULL
  BY Served DEF LogoutAll, At
<1>2. PICK op : op = q.call.op /\ op = Op(r) /\ \E t : Leads(op, "clear", t)
  BY <1>1, OpAt DEF Fits, Op
<1>3. CASE Refuse(r)
  BY <1>1, <1>3, RefuseEffect
<1>4. CASE ~Refuse(r)
  <2>1. PICK u \in Accounts, b \in {q.call.arg} :
             /\ u = q.call.user /\ b = q.call.arg /\ acct[u] \in Docs
             /\ b \in acct[u].tokens /\ u \in Users
    BY <1>1, <1>4 DEF LogoutAll, Caller, Arg, Accounts, IInv, DataOK
  <2>2. op \notin Searches /\ b \in 0 .. MaxTime
    BY <1>1, <1>2, <2>1, CallShapes DEF Leads, Searches
  <2>3. PICK T : T = 0 .. now
    OBVIOUS
  <2>4. T \in SUBSET (0 .. MaxTime) /\ now \in Nat /\ now <= now
    BY <2>2, <2>3, NowIsFree, AccountsAssumption DEF IInv, DataOK
  <2>5. End(u, T, now) /\ changed' = changed
    BY <1>1, <1>4, <2>1, <2>3 DEF LogoutAll, Caller, Arg
  <2>6. /\ ended' \in [Users -> SUBSET (0 .. MaxTime)]
        /\ ended'[u] = ended[u] \cup {t \in T : t < now}
        /\ \A t \in ended'[u] : t < now
        /\ \A v \in Users \ {u} : ended'[v] = ended[v]
    <3>1. PICK at \in Nat : at = now /\ at <= now
      BY <2>4
    <3>2. End(u, T, at)
      BY <2>5, <3>1 DEF End
    <3> QED BY <2>1, <2>4, <3>1, <3>2, EndShape
  <2>7. PICK d : d = [acct[u] EXCEPT !.tokens = {}]
    OBVIOUS
  <2>8. /\ d \in Docs /\ d.tokens = {}
        /\ d.name = acct[u].name /\ d.email = acct[u].email /\ d.links = acct[u].links
        /\ d.avatar = acct[u].avatar /\ d.password = acct[u].password
    BY <2>1, <2>7 DEF Docs
  <2>9. acct' = [acct EXCEPT ![u] = d] /\ UNCHANGED <<codes, resets>>
    BY <1>1, <1>4, <2>1, <2>7 DEF LogoutAll, ClearTokens, Caller, Arg, WritesAccount
  <2>10. PICK new : new = q
    OBVIOUS
  <2>11. /\ new \in Requests /\ new.call = q.call /\ new.raced = q.raced /\ new.link = q.link
    BY <2>1, <2>10, NowIsFree DEF Requests
  <2>12. Writes(r, Tail(req[r].todo), new)
    BY <1>1, <1>4, <2>1, <2>10 DEF LogoutAll, WritesAccount, Caller
  <2>13. PICK p : Written(r, p) /\ (p # NULL => Rest(q, new, p))
    BY <1>1, <2>11, <2>12, WritesRest
  <2>14. p = NULL
    BY <1>1, <2>13, RestStep DEF Rest, Leads
  <2>15. ~Clashes(u, d)
    BY <2>1, <2>8, NoNewKeys DEF Identities
  <2>16. Allowed(r, u, d)
    BY <2>8 DEF Allowed, HasMethod
  <2>17. ASSUME serial', NEW t \in d.tokens
         PROVE  t >= changed'[u] /\ t \notin ended'[u]
    BY <2>8, <2>17
  <2>18. changed' \in [Users -> 0 .. now] /\ \A v \in Users \ {u} : changed'[v] = changed[v]
    BY <2>5 DEF IInv, DataOK
  <2>19. u \in Users /\ d \in Docs /\ Op(r) \notin Searches
    BY <1>2, <2>1, <2>2, <2>8
  <2> QED BY <1>1, <2>6, <2>9, <2>13, <2>14, <2>15, <2>16, <2>17, <2>18, <2>19, AccountEffect
<1> QED BY <1>3, <1>4

(* A password change ends every session but the one it begins.             *)
LEMMA PasswordEffect ==
    ASSUME IInv, NEW r \in Reqs, SetPassword(r)
    PROVE  Effect
<1>1. PICK q \in Requests : q = req[r] /\ Fits(q) /\ q.call \in Calls /\ Head(q.todo) = "writePassword"
                             /\ req[r] # NULL
  BY Served DEF SetPassword, At
<1>2. PICK op : op = q.call.op /\ op = Op(r) /\ \E t : Leads(op, "writePassword", t)
  BY <1>1, OpAt DEF Fits, Op
<1>3. PICK u \in Accounts, t \in Nat, w \in Passwords :
         /\ u = q.user /\ t = q.token /\ w = q.call.arg.new /\ t <= now /\ acct[u] \in Docs
         /\ u \in Users /\ op \notin Searches
  <2>1. op \in PasswordOps
    BY <1>2 DEF Leads
  <2>2. q.call.arg.new \in Passwords
    BY <1>1, <1>2, <2>1, CallShapes
  <2>3. q.token \in Nat /\ q.token <= now
    BY <1>1 DEF Fits, Typed, Knows, HasToken
  <2>4. q.user \in Users /\ q.user \in Accounts /\ acct[q.user] \in Docs
    BY <1>1, UserKnown DEF UserSteps
  <2> QED BY <2>1, <2>2, <2>3, <2>4 DEF PasswordOps, Searches
<1>4. PICK x \in BOOLEAN :
         x = (acct[u].verified \/ (Op(r) = "resetPassword" /\ ~q.doc.verified))
  OBVIOUS
<1>5. PICK d : d = [acct[u] EXCEPT !.password = w, !.tokens = {t}, !.verified = x]
  OBVIOUS
<1>6. /\ d \in Docs /\ d.tokens = {t} /\ d.password = w /\ d.name = acct[u].name
      /\ d.email = acct[u].email /\ d.links = acct[u].links /\ d.avatar = acct[u].avatar
  BY <1>3, <1>5 DEF Docs
<1>7. acct' = [acct EXCEPT ![u] = d]
  <2>1. acct' = [acct EXCEPT ![u].password = w, ![u].tokens = {t}, ![u].verified = x]
    BY <1>1, <1>2, <1>3, <1>4 DEF SetPassword, WritePassword, Arg, Op
  <2>2. acct \in [Users -> Docs \cup {NULL}]
    BY DEF IInv, DataOK
  <2> QED BY <1>3, <1>5, <2>1, <2>2
<1>8. PICK T : T = 0 .. now /\ T \in SUBSET (0 .. MaxTime) /\ now \in Nat
  <2>1. 0 .. now \in SUBSET (0 .. MaxTime)
    BY AccountsAssumption DEF IInv, DataOK
  <2> QED BY <2>1, <1>3, NowIsFree
<1>9. End(u, T, t) /\ changed' = [changed EXCEPT ![u] = t] /\ UNCHANGED <<codes, resets>>
  BY <1>1, <1>3, <1>8 DEF SetPassword, WritesAccount
<1>10. /\ ended' \in [Users -> SUBSET (0 .. MaxTime)]
       /\ ended'[u] = ended[u] \cup {y \in T : y < t}
       /\ \A y \in ended'[u] : y < now
       /\ \A v \in Users \ {u} : ended'[v] = ended[v]
  <2>1. u \in Users /\ T \in SUBSET (0 .. MaxTime) /\ t \in Nat /\ t <= now /\ End(u, T, t)
    BY <1>3, <1>8, <1>9
  <2> QED BY <2>1, EndShape
<1>11. /\ changed' \in [Users -> 0 .. now] /\ changed'[u] = t
       /\ \A v \in Users \ {u} : changed'[v] = changed[v]
  BY <1>3, <1>8, <1>9 DEF IInv, DataOK
<1>12. PICK new : new = [q EXCEPT !.token = NULL]
  OBVIOUS
<1>13. /\ new \in Requests /\ new.call = q.call /\ new.raced = q.raced /\ new.link = q.link
       /\ new.user = u
  BY <1>3, <1>12 DEF Requests
<1>14. PICK p : Written(r, p) /\ (p # NULL => Rest(q, new, p))
  BY <1>1, <1>12, <1>13, WritesRest DEF SetPassword, WritesAccount
<1>15. ASSUME p # NULL
       PROVE  Typed(p) /\ Knows(p)' /\ Unraced(p)'
  <2>1. Head(p.todo) = "mail"
    BY <1>1, <1>14, <1>15 DEF Rest, Leads
  <2>2. Typed(p)
    BY <1>1, <1>13, <1>14, <1>15, <2>1 DEF Rest, Fits, Typed, UserSteps, LinkSteps, HasToken
  <2>3. p.user = u /\ ~HasToken(p)
    BY <1>13, <1>14, <1>15, <2>1 DEF Rest, HasToken
  <2>4. Knows(p)'
    BY <1>3, <1>6, <1>7, <1>14, <2>3, KnowsAfter
  <2>5. Unraced(p)'
    BY <2>1 DEF Unraced, HasToken
  <2> QED BY <2>2, <2>4, <2>5
<1>16. ~Clashes(u, d)
  BY <1>3, <1>6, NoNewKeys DEF Identities
<1>17. Allowed(r, u, d)
  BY <1>3, <1>6, UserAssumption DEF Allowed, HasMethod
<1>18. ASSUME serial', NEW y \in d.tokens
       PROVE  y >= changed'[u] /\ y \notin ended'[u]
  <2>1. y = t /\ ~q.raced
    BY <1>1, <1>6, <1>14, <1>18 DEF Written
  <2>2. t \notin ended[u]
    BY <1>1, <1>3, <2>1 DEF Fits, Unraced, HasToken
  <2> QED BY <1>3, <1>10, <1>11, <2>1, <2>2
<1>19. d \in Docs /\ Op(r) \notin Searches /\ u \in Users
  BY <1>2, <1>3, <1>6
<1> QED BY <1>1, <1>7, <1>9, <1>10, <1>11, <1>14, <1>15, <1>16, <1>17, <1>18, <1>19, AccountEffect
-----------------------------------------------------------------------------
(* Writes of codes.                                                        *)
LEMMA CodeDocsKnown == NULL \notin CodeDocs /\ Expired \notin CodeDocs /\ NULL # Expired
BY VerificationAssumption

(* A code only ages: no step of these revives it or gives it to another.   *)
Ages(c) ==
    \/ codes'[c] = codes[c]
    \/ /\ c \in Stored /\ codes'[c] \in CodeDocs
       /\ codes'[c].user = codes[c].user /\ codes'[c].scope = codes[c].scope
       /\ codes'[c].active => codes[c].active /\ codes'[c].attempts < MaxAttempts
    \/ c \in Stored /\ codes'[c] = Expired

(* Where codes only age none is revived, and none becomes active beside    *)
(* another.                                                                *)
LEMMA Ageing ==
    ASSUME IInv, \A c \in CodeIds : Ages(c), serial' => serial,
           codes' \in [CodeIds -> CodeDocs \cup {NULL, Expired}]
    PROVE  /\ (\A c \in Stored : codes[c].active => codes[c].attempts < MaxAttempts)'
           /\ LatestOnly' /\ KeepsCodes
           /\ \A u, s : Active(u, s)' \subseteq Active(u, s)
<1>1. ASSUME NEW c \in Stored'
      PROVE  /\ c \in Stored /\ codes'[c].user = codes[c].user /\ codes'[c].scope = codes[c].scope
             /\ codes'[c].active => codes[c].active /\ codes'[c].attempts < MaxAttempts
  <2>1. c \in CodeIds /\ codes'[c] # NULL /\ codes'[c] # Expired
    BY DEF Stored
  <2>2. CASE codes'[c] = codes[c]
    BY <2>1, <2>2 DEF IInv, DataOK, Stored
  <2>3. CASE codes'[c] # codes[c]
    BY <2>1, <2>3 DEF Ages
  <2> QED BY <2>2, <2>3
<1>2. \A u, s : Active(u, s)' \subseteq Active(u, s)
  BY <1>1 DEF Active
<1>3. LatestOnly'
  <2>1. ASSUME serial', NEW u \in Users, NEW s \in Scopes, NEW c \in Active(u, s)',
               NEW e \in Active(u, s)'
        PROVE  c = e
    <3>1. c \in Active(u, s) /\ e \in Active(u, s)
      BY <1>2
    <3> QED BY <2>1, <3>1 DEF IInv, LatestOnly
  <2> QED BY <2>1 DEF LatestOnly
<1>4. KeepsCodes
  <2>1. ASSUME NEW c \in Stored, ~codes[c].active, codes'[c] # Expired
        PROVE  ~codes'[c].active
    BY <2>1 DEF Ages, Stored
  <2> QED BY <2>1 DEF KeepsCodes
<1> QED BY <1>1, <1>2, <1>3, <1>4

(* The write of codes that only age.                                       *)
LEMMA AgeEffect ==
    ASSUME IInv, NEW r \in Reqs, req[r] # NULL, NEW q, Written(r, q),
           q # NULL => Typed(q) /\ Knows(q) /\ Unraced(q)' /\ q.user = req[r].user,
           UNCHANGED <<acct, resets>>, UNCHANGED history,
           codes' \in [CodeIds -> CodeDocs \cup {NULL, Expired}], \A c \in CodeIds : Ages(c)
    PROVE  Effect
<1>1. serial' => serial
  BY DEF Written
<1>2. /\ (\A c \in Stored : codes[c].active => codes[c].attempts < MaxAttempts)'
      /\ LatestOnly' /\ KeepsCodes
  BY <1>1, Ageing
<1>3. ASSUME q # NULL PROVE Knows(q)'
  BY <1>3 DEF Knows, HasToken, Accounts, Written
<1>4. changed' = changed /\ ended' = ended
  BY DEF history
<1> QED BY <1>2, <1>3, <1>4, CodesEffect

(* The earlier codes of a user and scope are invalidated: none is active   *)
(* after it.                                                               *)
LEMMA InvalidateEffect ==
    ASSUME IInv, NEW r \in Reqs, InvalidateCodes(r)
    PROVE  Effect
<1>1. PICK q \in Requests : q = req[r] /\ Fits(q) /\ q.call \in Calls /\ Head(q.todo) = "invalidate"
                             /\ req[r] # NULL
  BY Served DEF InvalidateCodes, At
<1>2. PICK op : op = q.call.op /\ op = Op(r) /\ \E t : Leads(op, "invalidate", t)
  BY <1>1, OpAt DEF Fits, Op
<1>3. PICK u \in Accounts, s \in {Scope(r)} : u = q.user /\ s = Scope(r) /\ u \in Users
  BY <1>1, UserKnown DEF UserSteps
<1>4. codes' = [c \in CodeIds |-> IF c \in Active(u, s) THEN [codes[c] EXCEPT !.active = FALSE]
                                                         ELSE codes[c]]
  BY <1>1, <1>3 DEF InvalidateCodes, Invalidate
<1>5. /\ codes' \in [CodeIds -> CodeDocs \cup {NULL, Expired}] /\ \A c \in CodeIds : Ages(c)
      /\ Active(u, s)' = {}
  <2>1. ASSUME NEW c \in Active(u, s)
        PROVE  /\ c \in Stored /\ codes[c] \in CodeDocs /\ codes'[c] \in CodeDocs
               /\ codes'[c].user = codes[c].user /\ codes'[c].scope = codes[c].scope
               /\ ~codes'[c].active
    <3>1. c \in CodeIds /\ c \in Stored /\ codes[c] \in CodeDocs
      BY DEF Active, Stored, IInv, DataOK
    <3>2. codes'[c] = [codes[c] EXCEPT !.active = FALSE]
      BY <1>4, <3>1
    <3> QED BY <3>1, <3>2 DEF CodeDocs
  <2>2. ASSUME NEW c \in CodeIds, c \notin Active(u, s)
        PROVE  codes'[c] = codes[c]
    BY <1>4, <2>2
  <2>3. codes' \in [CodeIds -> CodeDocs \cup {NULL, Expired}]
    <3>1. \A c \in CodeIds : codes'[c] \in CodeDocs \cup {NULL, Expired}
      BY <2>1, <2>2 DEF IInv, DataOK
    <3> QED BY <1>4, <3>1
  <2>4. \A c \in CodeIds : Ages(c)
    BY <2>1, <2>2 DEF Ages
  <2>5. Active(u, s)' = {}
    <3> SUFFICES ASSUME NEW c \in Active(u, s)' PROVE FALSE
      OBVIOUS
    <3>1. c \in CodeIds /\ c \in Stored' /\ codes'[c].user = u /\ codes'[c].scope = s
          /\ codes'[c].active
      BY DEF Active, Stored
    <3>2. c \notin Active(u, s)
      BY <2>1, <3>1
    <3>3. codes'[c] = codes[c]
      BY <2>2, <3>1, <3>2
    <3> QED BY <3>1, <3>2, <3>3 DEF Active, Stored
  <2> QED BY <2>3, <2>4, <2>5
<1>6. UNCHANGED <<acct, resets>> /\ UNCHANGED history /\ Writes(r, Tail(req[r].todo), q)
  BY <1>1 DEF InvalidateCodes, WritesCodes
<1>7. PICK p : Written(r, p) /\ (p # NULL => Rest(q, q, p))
  BY <1>1, <1>6, WritesRest
<1>8. ASSUME p # NULL
      PROVE  Typed(p) /\ Knows(p) /\ Unraced(p)' /\ p.user = req[r].user
  <2>1. Head(p.todo) = "insertCode"
    BY <1>1, <1>7, <1>8, RestStep DEF Rest, Leads
  <2>2. Typed(p)
    BY <1>1, <1>3, <1>7, <1>8, <2>1 DEF Rest, Fits, Typed, UserSteps, LinkSteps, HasToken
  <2>3. Active(p.user, ScopeOf(p.call.op))' = {}
    <3>1. p.user = u /\ ScopeOf(p.call.op) = s
      BY <1>1, <1>2, <1>3, <1>7, <1>8 DEF Rest, Scope, ScopeOf, Op
    <3> QED BY <1>5, <3>1
  <2> QED BY <1>1, <1>7, <1>8, <2>1, <2>2, <2>3 DEF Rest, Fits, Knows, Unraced, HasToken
<1> QED BY <1>1, <1>5, <1>6, <1>7, <1>8, AgeEffect

(* A failed attempt is counted against an active code, and burns it at the *)
(* limit.                                                                  *)
LEMMA CountEffect ==
    ASSUME IInv, NEW r \in Reqs, CountFailure(r)
    PROVE  Effect
<1>1. PICK q \in Requests : q = req[r] /\ Fits(q) /\ q.call \in Calls /\ Head(q.todo) = "countAttempt"
                             /\ req[r] # NULL
  BY Served DEF CountFailure, At
<1>2. PICK op : op = q.call.op /\ op = Op(r) /\ \E t : Leads(op, "countAttempt", t)
  BY <1>1, OpAt DEF Fits, Op
<1>3. PICK u \in Accounts, s \in {Scope(r)} : u = q.user /\ s = Scope(r) /\ u \in Users
  BY <1>1, UserKnown DEF UserSteps
<1>4. \/ codes' = codes
      \/ \E c \in Active(u, s) :
            codes' = [codes EXCEPT ![c] = [codes[c] EXCEPT !.attempts = codes[c].attempts + 1,
                                          !.active = codes[c].attempts + 1 < MaxAttempts]]
  BY <1>1, <1>3 DEF CountFailure, CountAttempt
<1>5. codes' \in [CodeIds -> CodeDocs \cup {NULL, Expired}] /\ \A c \in CodeIds : Ages(c)
  <2>1. CASE codes' = codes
    BY <2>1 DEF Ages, IInv, DataOK
  <2>2. CASE codes' # codes
    <3>1. PICK c \in Active(u, s) :
             codes' = [codes EXCEPT ![c] = [codes[c] EXCEPT !.attempts = codes[c].attempts + 1,
                                          !.active = codes[c].attempts + 1 < MaxAttempts]]
      BY <1>4, <2>2
    <3>2. /\ c \in CodeIds /\ c \in Stored /\ codes[c] \in CodeDocs /\ codes[c].active
          /\ codes[c].attempts < MaxAttempts
      BY DEF Active, Stored, IInv, DataOK
    <3>3. PICK n \in Nat : n = codes[c].attempts /\ n < MaxAttempts /\ MaxAttempts \in Nat
      BY <3>2, VerificationAssumption DEF CodeDocs
    <3>4. PICK e : e = [codes[c] EXCEPT !.attempts = n + 1, !.active = (n + 1 < MaxAttempts)]
      OBVIOUS
    <3>5. /\ e \in CodeDocs /\ e.user = codes[c].user /\ e.scope = codes[c].scope
          /\ e.active => e.attempts < MaxAttempts
      <4>1. n + 1 \in 0 .. MaxAttempts
        BY <3>3
      <4>2. /\ e.attempts = n + 1 /\ e.active = (n + 1 < MaxAttempts)
            /\ e.user = codes[c].user /\ e.scope = codes[c].scope
        BY <3>2, <3>4 DEF CodeDocs
      <4>3. PICK b \in BOOLEAN : b = (n + 1 < MaxAttempts)
        <5>1. (n + 1 < MaxAttempts) \in BOOLEAN
          BY <3>3, SMT
        <5> QED BY <5>1, Zenon
      <4>4. PICK k \in 0 .. MaxAttempts : k = n + 1
        BY <4>1
      <4>5. PICK d \in CodeDocs : d = codes[c]
        BY <3>2
      <4>6. e = [d EXCEPT !.attempts = k, !.active = b]
        BY <3>4, <4>3, <4>4, <4>5
      <4>7. [d EXCEPT !.attempts = k, !.active = b] \in CodeDocs
        BY DEF CodeDocs
      <4>8. e \in CodeDocs
        BY <4>6, <4>7
      <4> QED BY <4>2, <4>8
    <3>6. codes' = [codes EXCEPT ![c] = e]
      BY <3>1, <3>3, <3>4
    <3> QED BY <3>2, <3>5, <3>6 DEF Ages, IInv, DataOK
  <2> QED BY <2>1, <2>2
<1>6. UNCHANGED <<acct, resets>> /\ UNCHANGED history /\ Writes(r, Tail(req[r].todo), q)
  BY <1>1 DEF CountFailure, WritesCodes
<1>7. PICK p : Written(r, p) /\ (p # NULL => Rest(q, q, p))
  BY <1>1, <1>6, WritesRest
<1>8. p = NULL
  BY <1>1, <1>7, RestStep DEF Rest, Leads
<1> QED BY <1>1, <1>5, <1>6, <1>7, <1>8, AgeEffect

(* A code is used up.                                                      *)
LEMMA UseEffect ==
    ASSUME IInv, NEW r \in Reqs, UseCode(r)
    PROVE  Effect
<1>1. PICK q \in Requests : q = req[r] /\ Fits(q) /\ q.call \in Calls /\ Head(q.todo) = "useCode"
                             /\ req[r] # NULL
  BY Served DEF UseCode, At
<1>2. PICK op : op = q.call.op /\ op = Op(r) /\ \E t : Leads(op, "useCode", t)
  BY <1>1, OpAt DEF Fits, Op
<1>3. PICK u \in Accounts, s \in {Scope(r)} : u = q.user /\ s = Scope(r) /\ u \in Users
  BY <1>1, UserKnown DEF UserSteps
<1>4. PICK c : codes' = [codes EXCEPT ![c] =
                       IF c \in Stored THEN [codes[c] EXCEPT !.active = FALSE] ELSE codes[c]]
  BY DEF UseCode, Deactivate
<1>5. codes' \in [CodeIds -> CodeDocs \cup {NULL, Expired}] /\ \A e \in CodeIds : Ages(e)
  <2>1. CASE c \in Stored
    <3>1. c \in CodeIds /\ codes[c] \in CodeDocs
      BY <2>1 DEF Stored, IInv, DataOK
    <3>2. PICK e : e = [codes[c] EXCEPT !.active = FALSE]
      OBVIOUS
    <3>3. /\ e \in CodeDocs /\ e.user = codes[c].user /\ e.scope = codes[c].scope
          /\ ~e.active
      BY <3>1, <3>2 DEF CodeDocs
    <3>4. codes' = [codes EXCEPT ![c] = e]
      BY <1>4, <2>1, <3>2
    <3> QED BY <2>1, <3>1, <3>3, <3>4 DEF Ages, IInv, DataOK
  <2>2. CASE c \notin Stored
    <3>1. \A e \in CodeIds : codes'[e] = codes[e]
      BY <1>4, <2>2 DEF IInv, DataOK
    <3>2. DOMAIN codes' = CodeIds /\ codes' = [e \in CodeIds |-> codes'[e]]
      BY <1>4, <2>2 DEF IInv, DataOK
    <3> QED BY <3>1, <3>2 DEF Ages, IInv, DataOK
  <2> QED BY <2>1, <2>2
<1>6. UNCHANGED <<acct, resets>> /\ UNCHANGED history /\ Writes(r, Tail(req[r].todo), q)
  BY <1>1 DEF UseCode, WritesCodes
<1>7. PICK p : Written(r, p) /\ (p # NULL => Rest(q, q, p))
  BY <1>1, <1>6, WritesRest
<1>8. ASSUME p # NULL
      PROVE  Typed(p) /\ Knows(p) /\ Unraced(p)' /\ p.user = req[r].user
  <2>1. Head(p.todo) \in {"mintReset", "markVerified"}
    BY <1>1, <1>7, <1>8, RestStep DEF Rest, Leads
  <2>2. Typed(p)
    BY <1>1, <1>3, <1>7, <1>8, <2>1 DEF Rest, Fits, Typed, UserSteps, LinkSteps, HasToken
  <2> QED BY <1>1, <1>7, <1>8, <2>1, <2>2 DEF Rest, Fits, Knows, Unraced, HasToken
<1> QED BY <1>1, <1>5, <1>6, <1>7, <1>8, AgeEffect

(* A new code is inserted; unless the request was overtaken no other of    *)
(* its user and scope is active.                                           *)
LEMMA InsertCodeEffect ==
    ASSUME IInv, NEW r \in Reqs, InsertCode(r)
    PROVE  Effect
<1>1. PICK q \in Requests : q = req[r] /\ Fits(q) /\ q.call \in Calls /\ Head(q.todo) = "insertCode"
                             /\ req[r] # NULL
  BY Served DEF InsertCode, At
<1>2. PICK op : op = q.call.op /\ op = Op(r) /\ \E t : Leads(op, "insertCode", t)
  BY <1>1, OpAt DEF Fits, Op
<1>3. PICK u \in Users, s \in Scopes : u = q.user /\ s = Scope(r) /\ s = ScopeOf(q.call.op)
  BY <1>1, <1>2, UserKnown DEF UserSteps, Scope, ScopeOf, Scopes
<1>4. PICK c \in Unissued : codes' = [codes EXCEPT ![c] = NewCode(u, s, now)]
  BY <1>1, <1>3 DEF InsertCode
<1>5. PICK e : e = NewCode(u, s, now)
  OBVIOUS
<1>6. /\ e \in CodeDocs /\ e.user = u /\ e.scope = s /\ e.active /\ e.attempts = 0
  <2>1. now + Lifetime \in Nat /\ 0 \in 0 .. MaxAttempts
    BY <1>3, NowIsFree, VerificationAssumption
  <2> QED BY <1>5, <2>1 DEF NewCode, CodeDocs
<1>7. /\ c \in CodeIds /\ codes[c] = NULL /\ codes' \in [CodeIds -> CodeDocs \cup {NULL, Expired}]
      /\ codes'[c] = e /\ \A x \in CodeIds \ {c} : codes'[x] = codes[x]
  BY <1>4, <1>5, <1>6 DEF Unissued, IInv, DataOK
<1>8. Stored' = Stored \cup {c} /\ c \notin Stored
  BY <1>6, <1>7, CodeDocsKnown DEF Stored
<1>9. KeepsCodes
  BY <1>7, <1>8 DEF KeepsCodes, Stored
<1>10. (\A x \in Stored : codes[x].active => codes[x].attempts < MaxAttempts)'
  <2>1. ASSUME NEW x \in Stored', codes'[x].active
        PROVE  codes'[x].attempts < MaxAttempts
    <3>1. CASE x = c
      BY <1>6, <1>7, <3>1, VerificationAssumption
    <3>2. CASE x # c
      BY <1>7, <1>8, <2>1, <3>2 DEF IInv, DataOK, Stored
    <3> QED BY <3>1, <3>2
  <2> QED BY <2>1
<1>11. UNCHANGED <<acct, resets>> /\ UNCHANGED history /\ Writes(r, Tail(req[r].todo), q)
  BY <1>1 DEF InsertCode, WritesCodes
<1>12. PICK p : Written(r, p) /\ (p # NULL => Rest(q, q, p))
  BY <1>1, <1>11, WritesRest
<1>13. ASSUME p # NULL
       PROVE  Typed(p) /\ Knows(p)' /\ Unraced(p)' /\ p.user = req[r].user
  <2>1. Head(p.todo) = "mail"
    BY <1>1, <1>12, <1>13 DEF Rest, Leads
  <2>2. Typed(p)
    BY <1>1, <1>12, <1>13, <2>1 DEF Rest, Fits, Typed, UserSteps, LinkSteps, HasToken
  <2>3. Accounts' = Accounts
    BY <1>11 DEF Accounts
  <2> QED BY <1>1, <1>12, <1>13, <2>1, <2>2, <2>3 DEF Rest, Fits, Knows, Unraced, HasToken
<1>14. LatestOnly'
  <2>1. ASSUME serial', NEW v \in Users, NEW z \in Scopes, NEW x \in Active(v, z)',
               NEW y \in Active(v, z)'
        PROVE  x = y
    <3>1. serial /\ ~q.raced
      BY <1>1, <1>12, <2>1 DEF Written
    <3>2. Active(u, s) = {}
      BY <1>1, <1>3, <3>1 DEF Fits, Unraced
    <3>3. ASSUME NEW i \in Active(v, z)'
          PROVE  (i = c /\ v = u /\ z = s) \/ i \in Active(v, z)
      BY <1>6, <1>7, <1>8 DEF Active, Stored
    <3>4. CASE v = u /\ z = s
      BY <3>2, <3>3, <3>4
    <3>5. CASE ~(v = u /\ z = s)
      <4>1. x \in Active(v, z) /\ y \in Active(v, z)
        BY <3>3, <3>5
      <4> QED BY <3>1, <4>1 DEF IInv, LatestOnly
    <3> QED BY <3>4, <3>5
  <2> QED BY <2>1 DEF LatestOnly
<1>15. changed' = changed /\ ended' = ended
  BY <1>11 DEF history
<1>16. p # NULL /\ Op(r) \in Searches => p.user = req[r].user
  BY <1>13
<1> QED BY <1>1, <1>7, <1>9, <1>10, <1>11, <1>12, <1>13, <1>14, <1>15, <1>16, CodesEffect

(* The reset JWT is handed out, and the request ends.                      *)
LEMMA MintEffect ==
    ASSUME IInv, NEW r \in Reqs, MintReset(r)
    PROVE  Effect
<1>1. PICK q \in Requests : q = req[r] /\ Fits(q) /\ Head(q.todo) = "mintReset"
  BY Served DEF MintReset, At
<1>2. q.user \in Users
  BY <1>1 DEF Fits, Typed, UserSteps
<1>3. now + ResetLifetime \in Nat
  BY <1>2, NowIsFree, AccountsAssumption
<1>4. resets' \in SUBSET (Users \X Nat)
  BY <1>1, <1>2, <1>3 DEF MintReset, IInv, DataOK
<1>5. /\ req' = [req EXCEPT ![r] = NULL]
      /\ UNCHANGED <<acct, codes, now, workload, changed, ended, serial>>
  BY DEF MintReset
<1> QED BY <1>4, <1>5, LocalEffect

(* A request arrives with nothing in its variables.                        *)
LEMMA ArriveEffect ==
    ASSUME IInv, NEW r \in Reqs, NEW call \in Calls, Arrive(r, call)
    PROVE  Effect
<1>1. PICK op, todo : op = call.op /\ todo = Program[op]
  OBVIOUS
<1>2. PICK s \in First : Starts(todo, s) /\ (s = "verify" => op = "signIn")
  <2>1. \E s \in First : Starts(Program[call.op], s) /\ (s = "verify" => call.op = "signIn")
    BY Programs
  <2> QED BY <1>1, <2>1
<1>3. Chain(op, todo, "end") /\ todo \in Seq(Steps) /\ Head(todo) = s
  BY <1>1, <1>2, Programs DEF Chain, Starts
<1>4. PICK q : q = Fresh(call)
  OBVIOUS
<1>5. /\ q \in Requests /\ q.call = call /\ q.todo = todo /\ q.user = NULL /\ q.doc = NULL
      /\ q.link = NULL
  BY <1>1, <1>3, <1>4 DEF Fresh, Requests
<1>6. s \notin UserSteps /\ s \notin LinkSteps
      /\ s \notin {"push", "writePassword", "picture", "avatarRead", "avatarSet", "create",
                   "nameTaken", "forceUnlink", "identity", "emailTaken", "makeName",
                   "insertCode", "unlink"}
  BY <1>2 DEF First, UserSteps, LinkSteps
<1>7. ~HasToken(q)
  BY <1>3, <1>5, <1>6 DEF HasToken
<1>8. Typed(q)
  BY <1>1, <1>2, <1>3, <1>5, <1>6, <1>7 DEF Typed
<1>9. Fits(q)
  BY <1>3, <1>5, <1>6, <1>7, <1>8 DEF Fits, Knows, Unraced
<1>10. req' = [req EXCEPT ![r] = q] /\ req[r] = NULL
  BY <1>4 DEF Arrive
<1>11. /\ UNCHANGED <<acct, codes, now, workload, changed, ended, serial>>
       /\ resets' \in SUBSET (Users \X Nat)
  BY DEF Arrive, data, IInv, DataOK
<1> QED BY <1>9, <1>10, <1>11, LocalEffect

(* The clock advances, within the bound of its workload.                   *)
LEMMA TickEffect ==
    ASSUME IInv, Tick
    PROVE  Effect
<1>1. UNCHANGED <<acct, codes, resets, req, workload, changed, ended, serial>>
  BY DEF Tick
<1>2. PICK n \in Nat : n = now /\ now' = n + 1 /\ n + 1 \in 0 .. MaxTime
  <2>1. PICK k \in 0 .. MaxTime : k = workload.clock
    BY AccountsAssumption DEF IInv, DataOK
  <2>2. now \in Nat /\ now < k /\ now' = now + 1 /\ MaxTime \in Nat
    BY <2>1, AccountsAssumption DEF IInv, DataOK, Tick
  <2> QED BY <2>2
<1>3. DataOK'
  <2>1. \A u \in Users : changed[u] \in 0 .. n + 1
    BY <1>2 DEF IInv, DataOK
  <2>2. changed' \in [Users -> 0 .. now']
    BY <1>1, <1>2, <2>1 DEF IInv, DataOK
  <2>3. \A u \in Users : \A t \in ended'[u] : t < now'
    <3>1. ASSUME NEW u \in Users, NEW t \in ended[u]
          PROVE  t < n + 1
      BY <1>2, AccountsAssumption DEF IInv, DataOK
    <3> QED BY <1>1, <1>2, <3>1
  <2>4. \A c \in Stored' : codes'[c].active => codes'[c].attempts < MaxAttempts
    BY <1>1 DEF IInv, DataOK, Stored
  <2> QED BY <1>1, <1>2, <2>2, <2>3, <2>4 DEF IInv, DataOK
<1>4. RequestsOK'
  <2>1. ASSUME NEW s \in Reqs, NEW q \in Requests, q = req[s], q # NULL
        PROVE  Typed(q) /\ Knows(q)' /\ Unraced(q)'
    <3>1. Typed(q) /\ Knows(q) /\ Unraced(q)
      BY <2>1 DEF IInv, RequestsOK
    <3>2. HasToken(q) => q.token \in Nat
      BY <3>1 DEF Typed
    <3>3. Knows(q)'
      BY <1>1, <1>2, <3>1, <3>2 DEF Knows, HasToken, Accounts
    <3>4. Unraced(q)'
      BY <1>1, <3>1 DEF Unraced, HasToken, Active, Stored, MayDisconnect
    <3> QED BY <3>1, <3>3, <3>4
  <2>2. ASSUME NEW s \in Reqs, req[s] # NULL
        PROVE  Typed(req[s]) /\ Knows(req[s])' /\ Unraced(req[s])'
    <3>1. PICK q \in Requests : q = req[s] /\ q # NULL
      BY <2>2, Served
    <3>2. Typed(q) /\ Knows(q)' /\ Unraced(q)'
      BY <2>1, <3>1
    <3>3. req'[s] = q
      BY <1>1, <3>1
    <3> QED BY <3>1, <3>2, <3>3 DEF Knows, Unraced, HasToken
  <2> QED BY <1>1, <2>2 DEF IInv, RequestsOK, Typed, HasToken
<1>5. UniqueKeys' /\ SessionsEnd' /\ LatestOnly'
  BY <1>1 DEF IInv, UniqueKeys, SessionsEnd, LatestOnly, Accounts, Clashes, Active, Stored
<1>6. KeepsMethods /\ KeepsAvatars /\ KeepsCodes /\ FindsIdentity
  BY <1>1 DEF KeepsMethods, KeepsAvatars, KeepsCodes, FindsIdentity
<1> QED BY <1>3, <1>4, <1>5, <1>6 DEF Effect, IInv

(* Nothing happens.                                                        *)
LEMMA StutterEffect ==
    ASSUME IInv, UNCHANGED vars
    PROVE  Effect
<1>1. UNCHANGED <<acct, codes, now, resets, req, workload, changed, ended, serial>>
  BY DEF vars
<1>2. DataOK'
  BY <1>1 DEF IInv, DataOK, Stored
<1>3. RequestsOK'
  BY <1>1 DEF IInv, RequestsOK, Typed, Knows, Unraced, HasToken, Accounts, Active, Stored,
              MayDisconnect
<1>4. UniqueKeys' /\ SessionsEnd' /\ LatestOnly'
  BY <1>1 DEF IInv, UniqueKeys, SessionsEnd, LatestOnly, Accounts, Clashes, Active, Stored
<1>5. KeepsMethods /\ KeepsAvatars /\ KeepsCodes /\ FindsIdentity
  BY <1>1 DEF KeepsMethods, KeepsAvatars, KeepsCodes, FindsIdentity
<1> QED BY <1>2, <1>3, <1>4, <1>5 DEF Effect, IInv

(* The TTL index removes a code.                                           *)
LEMMA ExpireEffect ==
    ASSUME IInv, NEW c \in CodeIds, ExpireCode(c)
    PROVE  Effect
<1>1. UNCHANGED <<acct, now, resets, req, workload, changed, ended, serial>>
  BY DEF ExpireCode
<1>2. /\ c \in Stored /\ codes'[c] = Expired /\ \A x \in CodeIds \ {c} : codes'[x] = codes[x]
      /\ codes' \in [CodeIds -> CodeDocs \cup {NULL, Expired}]
  BY DEF ExpireCode, IInv, DataOK
<1>3. \A x \in CodeIds : Ages(x)
  BY <1>2 DEF Ages
<1>4. /\ (\A x \in Stored : codes[x].active => codes[x].attempts < MaxAttempts)'
      /\ LatestOnly' /\ KeepsCodes
      /\ \A u, s : Active(u, s)' \subseteq Active(u, s)
  BY <1>1, <1>2, <1>3, Ageing
<1>5. DataOK'
  BY <1>1, <1>2, <1>4 DEF IInv, DataOK
<1>6. RequestsOK'
  <2>1. ASSUME NEW s \in Reqs, NEW q \in Requests, q = req[s], q # NULL
        PROVE  Typed(q) /\ Knows(q)' /\ Unraced(q)'
    <3>1. Typed(q) /\ Knows(q) /\ Unraced(q)
      BY <2>1 DEF IInv, RequestsOK
    <3>2. Knows(q)'
      BY <1>1, <3>1 DEF Knows, HasToken, Accounts
    <3>3. Active(q.user, ScopeOf(q.call.op)) = {} => Active(q.user, ScopeOf(q.call.op))' = {}
      BY <1>4
    <3>4. Unraced(q)'
      BY <1>1, <3>1, <3>3 DEF Unraced, HasToken, MayDisconnect
    <3> QED BY <3>1, <3>2, <3>4
  <2>2. ASSUME NEW s \in Reqs, req[s] # NULL
        PROVE  Typed(req[s]) /\ Knows(req[s])' /\ Unraced(req[s])'
    <3>1. PICK q \in Requests : q = req[s] /\ q # NULL
      BY <2>2, Served
    <3>2. Typed(q) /\ Knows(q)' /\ Unraced(q)'
      BY <2>1, <3>1
    <3>3. req'[s] = q
      BY <1>1, <3>1
    <3> QED BY <3>1, <3>2, <3>3 DEF Knows, Unraced, HasToken
  <2> QED BY <1>1, <2>2 DEF IInv, RequestsOK, Typed, HasToken
<1>7. UniqueKeys' /\ SessionsEnd'
  BY <1>1 DEF IInv, UniqueKeys, SessionsEnd, Accounts, Clashes
<1>8. KeepsMethods /\ KeepsAvatars /\ FindsIdentity
  BY <1>1 DEF KeepsMethods, KeepsAvatars, FindsIdentity
<1> QED BY <1>4, <1>5, <1>6, <1>7, <1>8 DEF Effect, IInv

(* The service starts with no request, and with at most one account.       *)
LEMMA InitHolds ==
    ASSUME Init
    PROVE  IInv
<1>1. /\ now = 0 /\ workload \in Workloads /\ resets = {} /\ serial = TRUE
      /\ codes = [c \in CodeIds |-> NULL] /\ req = [r \in Reqs |-> NULL]
      /\ changed = [u \in Users |-> 0] /\ ended = [u \in Users |-> {}]
  BY DEF Init
<1>2. \/ acct = [u \in Users |-> NULL]
      \/ \E w \in Users, d \in Docs : /\ acct \in [Users -> {NULL, d}] /\ d.tokens = {}
                                      /\ \A u \in Users : acct[u] = NULL \/ u = w
  <2>1. CASE acct = [u \in Users |-> NULL]
    BY <2>1, Zenon
  <2>2. CASE acct # [u \in Users |-> NULL]
    <3>1. PICK u \in Users, n \in Names, e \in Emails, p \in Passwords \cup {NULL},
                ls \in {{}} \cup FirstLinks(workload.ids) :
             acct = [v \in Users |-> IF v # u THEN NULL ELSE NewDoc(n, e, p, ls, NULL)]
      BY <2>2 DEF Init
    <3>2. workload.ids \subseteq Externals
      BY <1>1, AccountsAssumption
    <3>3. ls \in SUBSET Links
      BY <3>1, <3>2 DEF FirstLinks, Links
    <3>4. PICK d : d = NewDoc(n, e, p, ls, NULL)
      OBVIOUS
    <3>5. d \in Docs /\ d.tokens = {}
      BY <3>3, <3>4 DEF NewDoc, Docs
    <3>6. acct = [v \in Users |-> IF v # u THEN NULL ELSE d]
      BY <3>1, <3>4
    <3>7. acct \in [Users -> {NULL, d}] /\ \A v \in Users : acct[v] = NULL \/ v = u
      BY <3>6
    <3> QED BY <3>5, <3>7
  <2> QED BY <2>1, <2>2
<1>3. /\ acct \in [Users -> Docs \cup {NULL}] /\ \A u \in Accounts : acct[u].tokens = {}
      /\ \A u, v \in Accounts : u = v
  BY <1>2 DEF Accounts
<1>4. Stored = {}
  BY <1>1 DEF Stored
<1>5. DataOK
  BY <1>1, <1>3, <1>4, AccountsAssumption DEF DataOK
<1>6. RequestsOK
  BY <1>1 DEF RequestsOK
<1>7. UniqueKeys /\ SessionsEnd
  BY <1>3 DEF UniqueKeys, SessionsEnd
<1>8. LatestOnly
  BY <1>4 DEF LatestOnly, Active
<1> QED BY <1>5, <1>6, <1>7, <1>8 DEF IInv

(* Every step of a request.                                                *)
LEMMA StepEffect ==
    ASSUME IInv, NEW r \in Reqs, Step(r)
    PROVE  Effect
<1>1. CASE Refuse(r) /\ req[r] # NULL
  BY <1>1, RefuseEffect
<1>2. CASE ~(Refuse(r) /\ req[r] # NULL)
  <2>1. CASE Load(r)
    BY <2>1, LoadEffect
  <2>2. CASE NameFree(r) \/ EmailFree(r) \/ NameTaken(r)
    BY <2>2, CheckEffect
  <2>3. CASE SaveUser(r)
    BY <2>3, SaveEffect
  <2>4. CASE Find(r)
    BY <2>4, FindEffect
  <2>5. CASE Push(r)
    BY <2>5, PushEffect
  <2>6. CASE Pull(r)
    BY <2>6, PullEffect
  <2>7. CASE Logout(r)
    BY <2>7, LogoutEffect
  <2>8. CASE LogoutAll(r)
    BY <2>8, LogoutAllEffect
  <2>9. CASE SetPassword(r)
    BY <2>9, PasswordEffect
  <2>10. CASE SendMail(r)
    BY <2>10, MailEffect
  <2>11. CASE Verify(r)
    BY <2>11, VerifyEffect
  <2>12. CASE Identify(r)
    BY <2>12, IdentifyEffect
  <2>13. CASE EmailTaken(r)
    BY <2>13, EmailTakenEffect
  <2>14. CASE MakeName(r)
    BY <2>14, MakeNameEffect
  <2>15. CASE CreateAccount(r)
    BY <2>15, CreateEffect
  <2>16. CASE FindWinner(r)
    BY <2>16, FindWinnerEffect
  <2>17. CASE LinkFind(r)
    BY <2>17, LinkFindEffect
  <2>18. CASE AddProvider(r)
    BY <1>2, <2>18, AddEffect DEF AddProvider, At
  <2>19. CASE WritePicture(r)
    BY <2>19, PictureEffect
  <2>20. CASE ReadAvatar(r)
    BY <2>20, ReadAvatarEffect
  <2>21. CASE RefreshAvatar(r)
    BY <2>21, RefreshEffect
  <2>22. CASE Unlink(r)
    BY <2>22, UnlinkEffect
  <2>23. CASE FindLinked(r)
    BY <2>23, FindLinkedEffect
  <2>24. CASE ForceUnlink(r)
    BY <2>24, ForceEffect
  <2>25. CASE IdentifyUser(r)
    BY <2>25, IdentifyUserEffect
  <2>26. CASE InvalidateCodes(r)
    BY <2>26, InvalidateEffect
  <2>27. CASE InsertCode(r)
    BY <2>27, InsertCodeEffect
  <2>28. CASE FindCode(r)
    BY <2>28, FindCodeEffect
  <2>29. CASE CountFailure(r)
    BY <2>29, CountEffect
  <2>30. CASE UseCode(r)
    BY <2>30, UseEffect
  <2>31. CASE MintReset(r)
    BY <2>31, MintEffect
  <2>32. CASE ConfirmVerified(r)
    BY <2>32, VerifiedEffect
  <2>33. CASE WriteName(r)
    BY <1>2, <2>33, NameEffect DEF WriteName, At
  <2>34. CASE ChooseAvatar(r)
    BY <2>34, ChooseEffect
  <2>35. CASE ClearAvatar(r)
    BY <1>2, <2>35, ClearEffect DEF ClearAvatar, At
  <2> QED BY <2>1, <2>2, <2>3, <2>4, <2>5, <2>6, <2>7, <2>8, <2>9, <2>10, <2>11, <2>12, <2>13,
             <2>14, <2>15, <2>16, <2>17, <2>18, <2>19, <2>20, <2>21, <2>22, <2>23, <2>24,
             <2>25, <2>26, <2>27, <2>28, <2>29, <2>30, <2>31, <2>32, <2>33, <2>34, <2>35
          DEF Step
<1> QED BY <1>1, <1>2

(* ... and of the service.                                                 *)
LEMMA NextEffect ==
    ASSUME IInv, [Next]_vars
    PROVE  Effect
<1>1. ASSUME NEW r \in Reqs, NEW call \in Calls, Arrive(r, call)
      PROVE  Effect
  BY <1>1, ArriveEffect
<1>2. ASSUME NEW r \in Reqs, Step(r)
      PROVE  Effect
  BY <1>2, StepEffect
<1>3. ASSUME NEW r \in Reqs, Abort(r)
      PROVE  Effect
  BY <1>3, RefuseEffect DEF Abort
<1>4. CASE Tick
  BY <1>4, TickEffect
<1>5. ASSUME NEW c \in CodeIds, ExpireCode(c)
      PROVE  Effect
  BY <1>5, ExpireEffect
<1>6. CASE UNCHANGED vars
  BY <1>6, StutterEffect
<1> QED BY <1>1, <1>2, <1>3, <1>4, <1>5, <1>6 DEF Next
-----------------------------------------------------------------------------
(* In every state each request stands where its program puts it, with what *)
(* its last calls told it, which no other request has made wrong unless it *)
(* wrote in between: what the code relies on when it goes on after a call  *)
(* of the database.                                                        *)
THEOREM Invariance == Spec => []IInv
<1>1. Init => IInv
  BY InitHolds
<1>2. IInv /\ [Next]_vars => IInv'
  BY NextEffect DEF Effect
<1> QED BY <1>1, <1>2, PTL DEF Spec

(* The variables keep their types, and every request served has a step     *)
(* left to take.                                                           *)
THEOREM AccountsTypeCorrect == Spec => []TypeOK
<1>1. ASSUME IInv PROVE TypeOK
  <2>1. \A u \in Users : changed[u] \in 0 .. MaxTime
    <3>1. PICK n \in 0 .. MaxTime : n = now
      BY <1>1 DEF IInv, DataOK
    <3>2. \A u \in Users : changed[u] \in 0 .. n
      BY <1>1, <3>1 DEF IInv, DataOK
    <3> QED BY <3>1, <3>2, AccountsAssumption
  <2>2. changed \in [Users -> 0 .. MaxTime]
    BY <1>1, <2>1 DEF IInv, DataOK
  <2>3. ASSUME NEW r \in Reqs, req[r] # NULL
        PROVE  req[r].todo # <<>> /\ Head(req[r].todo) \in Steps
    <3>1. PICK op, x : x = req[r].todo /\ Chain(op, x, "end")
      BY <1>1, <2>3 DEF IInv, RequestsOK, Typed
    <3> QED BY <3>1, ChainTail
  <2>4. ASSUME NEW r \in Reqs, req[r] # NULL
        PROVE  req[r] \in Requests
    BY <1>1, <2>4, Served
  <2> QED BY <1>1, <2>2, <2>3, <2>4 DEF TypeOK, IInv, DataOK, RequestsOK, Requests
<1> QED BY <1>1, Invariance, PTL

(* Requests that do not overtake one another keep ended sessions ended:    *)
(* after a password change or reset, a rotation or a logout no token that  *)
(* was issued in an earlier second is accepted again.                      *)
THEOREM EndedSessionsStayEnded == Spec => []SessionsEnd
BY Invariance, PTL DEF IInv

(* Of the codes mailed to a user for one purpose only the latest works,    *)
(* unless two requests for a code overtook one another.                    *)
THEOREM LatestCodeOnly == Spec => []OneActiveCode
<1>1. ASSUME LatestOnly PROVE OneActiveCode
  <2>1. ASSUME serial, NEW u \in Users, NEW s \in Scopes
        PROVE  Cardinality(Active(u, s)) <= 1
    <3>1. CASE Active(u, s) = {}
      BY <3>1, FS_EmptySet
    <3>2. CASE Active(u, s) # {}
      <4>1. PICK c : c \in Active(u, s)
        BY <3>2
      <4>2. Active(u, s) = {c}
        BY <1>1, <2>1, <4>1 DEF LatestOnly
      <4> QED BY <4>2, FS_Singleton
    <3> QED BY <3>1, <3>2
  <2> QED BY <2>1 DEF OneActiveCode
<1> QED BY <1>1, Invariance, PTL DEF IInv

(* An identity, an address and a username belong to at most one account; a *)
(* sign-in, also one that lost the race to create its account, and a       *)
(* revocation at the provider go on with an account that holds the         *)
(* identity, or with one that crosses it: the lookup promises no more.     *)
THEOREM OnePersonOneAccount == Spec => OneAccount
<1>1. IInv => \A u, v \in Accounts : u # v => ~Clashes(u, acct[u])
  BY DEF IInv, UniqueKeys
<1>2. ASSUME IInv, [Next]_vars
      PROVE  \A r \in Reqs :
                LET before == req[r]  after == req'[r] IN
                /\ before # NULL /\ after # NULL
                /\ before.call.op \in {"signIn", "revoke"} /\ before.user = NULL /\ after.user # NULL
                => \/ <<Arg(r).provider, Arg(r).external>> \in Identities(acct'[after.user])
                   \/ Crosses(acct'[after.user], Arg(r).provider, Arg(r).external)
  BY <1>2, NextEffect DEF Effect, FindsIdentity, Answers, Searches, Op
<1> QED BY <1>1, <1>2, Invariance, PTL DEF Spec, OneAccount

(* Requests that do not overtake one another never take the last sign-in   *)
(* method of an account: only a revocation at the provider does.           *)
THEOREM MethodsAreKept == Spec => NeverLockedOut
<1>1. IInv /\ [Next]_vars => KeepsMethods
  BY NextEffect DEF Effect
<1> QED BY <1>1, Invariance, PTL DEF Spec, NeverLockedOut, KeepsMethods

(* A code that was used, replaced or burnt never works again, whatever     *)
(* requests race.                                                          *)
THEOREM UsedCodesStayUsed == Spec => CodesStayUsed
<1>1. IInv /\ [Next]_vars => KeepsCodes
  BY NextEffect DEF Effect
<1> QED BY <1>1, Invariance, PTL DEF Spec, CodesStayUsed, KeepsCodes

(* A sign-in or a link never replaces the avatar the user chose.           *)
THEOREM ChosenAvatarKept == Spec => AvatarChoiceKept
<1>1. ASSUME IInv, [Next]_vars
      PROVE  \A u \in Accounts : serial' /\ acct'[u].avatar # acct[u].avatar =>
                \E r \in Reqs : /\ At(r, "writeAvatar") \/ At(r, "clearAvatar")
                                /\ req'[r] # req[r]
  BY <1>1, NextEffect DEF Effect, KeepsAvatars
<1> QED BY <1>1, Invariance, PTL DEF Spec, AvatarChoiceKept
=============================================================================
