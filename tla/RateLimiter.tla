---------------------------- MODULE RateLimiter ----------------------------
(***************************************************************************)
(* The rate limits in front of the routes: routers/dependencies/           *)
(* rate_limiter.py and the counters it keeps in Redis.  A call is checked  *)
(* by the counters of its rule one after the other; a counter is counted   *)
(* up and given its expiry in one transaction, and how long a client that  *)
(* is refused has to wait is read in a call of its own.                    *)
(*                                                                         *)
(* Redis and its clock are external: the clock ticks, and a counter is     *)
(* gone when its time is over.                                             *)
(***************************************************************************)
EXTENDS Naturals, Sequences, FiniteSets

CONSTANTS
    Limit,   \* Limit[b]: the calls counted by a counter of bucket b that are let in
    Window,  \* Window[b]: the ticks a counter of bucket b lives
    NoKey    \* no such key in Redis

VARIABLES
    counter,  \* counter[k]: [count, ttl] of the Redis key k, NoKey if there is none
    attempt   \* attempt[c]: how far the call c is

limiter == <<counter, attempt>>

(* The rules of the routes, by whom they count.                            *)
IpRules == {"register", "refresh", "oauth-sign-in", "password_reset_req",
            "password_reset_validate", "email_verification_confirm"}
UserRules == {"password_change", "provider_mutation", "email_verification_req"}
ClubRules == {"club-ownership-action", "approve_pending", "remove_member", "change_role",
              "start_round", "finalize_round"}
Rules == IpRules \cup UserRules \cup ClubRules
            \cup {"login", "invite_direct", "invite_public"}

Buckets == IpRules \cup UserRules \cup ClubRules
              \cup {"login-ip", "login-account", "invite_create_direct"}

ASSUME LimiterAssumption ==
    /\ DOMAIN Limit = Buckets /\ DOMAIN Window = Buckets
    /\ \A b \in Buckets : Limit[b] \in Nat \ {0} /\ Window[b] \in Nat \ {0}
ASSUME NoKeyAssumption == NoKey \notin [count : Nat, ttl : Nat]

(* A call: [rule, ip, who, club], who the user signed in, or the account   *)
(* a login names.  The keys that count it, in the order they are asked.    *)
IpKeys(c) == <<[bucket |-> c.rule, of |-> <<c.ip>>]>>
LoginKeys(c) == <<[bucket |-> "login-ip", of |-> <<c.ip>>],
                  [bucket |-> "login-account", of |-> <<c.who>>]>>
UserKeys(c) == <<[bucket |-> c.rule, of |-> <<c.who>>]>>
InviteKeys(c) == IF c.rule = "invite_public" THEN <<>>
                 ELSE <<[bucket |-> "invite_create_direct", of |-> <<c.who>>]>>
ClubKeys(c) == <<[bucket |-> c.rule, of |-> <<c.club, c.who>>]>>

Keys(c) ==
    CASE c.rule \in IpRules -> IpKeys(c)
      [] c.rule = "login" -> LoginKeys(c)
      [] c.rule \in UserRules -> UserKeys(c)
      [] c.rule \in ClubRules -> ClubKeys(c)
      [] c.rule \in {"invite_direct", "invite_public"} -> InviteKeys(c)

(* age[i]: the ticks since key i counted the call, up to its window.       *)
Attempts == [pc : {"check", "ttl", "admitted", "refused", "failed"}, age : Seq(Nat), wait : Nat]

LimiterTypeOK ==
    /\ \A k \in DOMAIN counter : counter[k] = NoKey \/ counter[k] \in [count : Nat, ttl : Nat]
    /\ \A c \in DOMAIN attempt : attempt[c] \in Attempts
-----------------------------------------------------------------------------
Counted(c, k) ==
    \E i \in DOMAIN attempt[c].age : Keys(c)[i] = k /\ attempt[c].age[i] < Window[k.bucket]

(* The key that call c is to be counted by next, and the last that did.    *)
NextKey(c) == Keys(c)[Len(attempt[c].age) + 1]
LastKey(c) == Keys(c)[Len(attempt[c].age)]

(* The last key has let c in, or none has to.                              *)
Admit(c) ==
    /\ attempt[c].pc = "check" /\ Len(attempt[c].age) = Len(Keys(c))
    /\ attempt' = [attempt EXCEPT ![c].pc = "admitted"]
    /\ UNCHANGED counter

\* Mutant: EXPIRE without NX, which starts the window anew with every call.
ExpireAlways(k) == Window[k.bucket]
(* The ticks that counter k has to live after EXPIRE .. NX.                *)
ExpireNx(k) == IF counter[k] = NoKey THEN Window[k.bucket] ELSE counter[k].ttl

(* evaluate: MULTI, INCR, EXPIRE .. NX, EXEC.                              *)
Evaluate(c) ==
    LET k == NextKey(c)
        count == IF counter[k] = NoKey THEN 1 ELSE counter[k].count + 1
    IN  /\ attempt[c].pc = "check" /\ Len(attempt[c].age) < Len(Keys(c))
        /\ counter' = [counter EXCEPT ![k] = [count |-> count, ttl |-> ExpireNx(k)]]
        /\ attempt' = [attempt EXCEPT ![c].age = Append(@, 0),
                          ![c].pc = IF count > Limit[k.bucket] THEN "ttl" ELSE "check"]

(* The time to wait: what the counter still lives, if it does.             *)
ReadTtl(c) ==
    /\ attempt[c].pc = "ttl"
    /\ LET k == LastKey(c)
       IN  attempt' = [attempt EXCEPT ![c].pc = "refused",
              ![c].wait = IF counter[k] = NoKey THEN Window[k.bucket] ELSE counter[k].ttl]
    /\ UNCHANGED counter

(* Redis does not answer: the call ends with an error.                     *)
LimiterFails(c) ==
    /\ attempt[c].pc \in {"check", "ttl"} /\ Keys(c) # <<>>
    /\ attempt' = [attempt EXCEPT ![c].pc = "failed"]
    /\ UNCHANGED counter

Tick ==
    LET older(c, i) == IF attempt[c].age[i] < Window[Keys(c)[i].bucket]
                       THEN attempt[c].age[i] + 1 ELSE attempt[c].age[i]
    IN  /\ \E k \in DOMAIN counter : counter[k] # NoKey
        /\ counter' = [k \in DOMAIN counter |->
              IF counter[k] = NoKey \/ counter[k].ttl = 1 THEN NoKey
              ELSE [counter[k] EXCEPT !.ttl = @ - 1]]
        /\ attempt' = [c \in DOMAIN attempt |->
              [attempt[c] EXCEPT !.age = [i \in DOMAIN @ |-> older(c, i)]]]

LimiterInit(calls) ==
    /\ counter = [k \in UNION {{Keys(c)[i] : i \in DOMAIN Keys(c)} : c \in calls} |-> NoKey]
    /\ attempt = [c \in calls |-> [pc |-> "check", age |-> <<>>, wait |-> 0]]

LimiterNext ==
    \/ \E c \in DOMAIN attempt : Admit(c) \/ Evaluate(c) \/ ReadTtl(c) \/ LimiterFails(c)
    \/ Tick
-----------------------------------------------------------------------------
(* A limit refuses only whom it has to, and holds: a call that is refused  *)
(* was counted together with as many as the limit allows in the last       *)
(* window, so a client that keeps trying is not shut out for longer; and   *)
(* no span as long as the window lets in more than twice the limit, which  *)
(* two counters in a row may.                                              *)
WindowEnds ==
    \A k \in DOMAIN counter :
        LET within == {c \in DOMAIN attempt : Counted(c, k)}
            stopped(pcs) == {c \in within : attempt[c].pc \in pcs /\ LastKey(c) = k}
        IN  /\ \A c \in stopped({"ttl", "refused"}) :
                  attempt[c].age[Len(attempt[c].age)] = 0 => Cardinality(within) > Limit[k.bucket]
            /\ Cardinality(within \ stopped({"ttl", "refused", "failed"})) <= 2 * Limit[k.bucket]
=============================================================================
