------------------------- MODULE RateLimiterProofs -------------------------
(***************************************************************************)
(* Proofs about RateLimiter, for any limits and windows and any number of  *)
(* calls: that a counter of a fixed window refuses only when its limit is  *)
(* used up, and that two windows in a row let in twice the limit at most.  *)
(***************************************************************************)
EXTENDS RateLimiter, FiniteSetTheorems, TLAPS

(* The calls that key k has counted in the last window, those of them that *)
(* its counter still counts, and those it has not turned away.             *)
Within(k) == {c \in DOMAIN attempt : Counted(c, k)}
StillCounted(c, k) ==
    \E i \in DOMAIN attempt[c].age :
        Keys(c)[i] = k /\ attempt[c].age[i] + counter[k].ttl =< Window[k.bucket]
Since(k) == {c \in DOMAIN attempt : StillCounted(c, k)}
StoppedAt(c, k) == attempt[c].pc \in {"ttl", "refused", "failed"} /\ LastKey(c) = k
Passed(k) == {c \in Within(k) : ~StoppedAt(c, k)}
Just(c, k) == \E i \in DOMAIN attempt[c].age : Keys(c)[i] = k /\ attempt[c].age[i] = 0
Touched == {c \in DOMAIN attempt : attempt[c].age # <<>>}

(* What holds of every call: the keys that are to count it have a place in *)
(* Redis, and no age exceeds the window.                                   *)
CallFacts ==
    /\ IsFiniteSet(Touched)
    /\ \A c \in DOMAIN attempt :
          /\ c.rule \in Rules
          /\ \A i \in DOMAIN Keys(c) : Keys(c)[i] \in DOMAIN counter
          /\ Len(attempt[c].age) =< Len(Keys(c))
          /\ \A i \in DOMAIN attempt[c].age : attempt[c].age[i] =< Window[Keys(c)[i].bucket]
          /\ attempt[c].pc \in {"ttl", "refused"} => attempt[c].age # <<>>

(* The counter k counts the calls since it began, of which it lets in no   *)
(* more than its limit; it began after the counter before it was gone,     *)
(* which had let in no more than its limit either.                         *)
CounterFacts(k) ==
    /\ k.bucket \in Buckets
    /\ counter[k] = NoKey => /\ Cardinality(Passed(k)) =< Limit[k.bucket]
                             /\ \A c \in DOMAIN attempt : ~Just(c, k)
    /\ counter[k] # NoKey =>
          /\ counter[k].ttl \in 1..Window[k.bucket]
          /\ counter[k].count = Cardinality(Since(k))
          /\ Cardinality(Passed(k) \cap Since(k)) =< Limit[k.bucket]
          /\ Cardinality(Passed(k) \ Since(k)) =< Limit[k.bucket]
    /\ \A c \in DOMAIN attempt :
          /\ attempt[c].pc \in {"ttl", "refused"}
          /\ LastKey(c) = k
          /\ attempt[c].age[Len(attempt[c].age)] = 0
          => Cardinality(Within(k)) > Limit[k.bucket]

(* The inductive invariant.                                                *)
LimiterInv == LimiterTypeOK /\ CallFacts /\ \A k \in DOMAIN counter : CounterFacts(k)

(* The keys of a call: one or two, or none, no two the same.               *)
LEMMA KeysShape ==
    ASSUME NEW c, c.rule \in Rules
    PROVE  /\ Len(Keys(c)) \in Nat /\ DOMAIN Keys(c) = 1..Len(Keys(c))
           /\ \A i \in DOMAIN Keys(c) : Keys(c)[i].bucket \in Buckets
           /\ \A i, j \in DOMAIN Keys(c) : Keys(c)[i] = Keys(c)[j] => i = j
<1>1. CASE c.rule \in IpRules
  <2>1. Keys(c) = IpKeys(c)
    BY <1>1 DEF Keys, IpRules, UserRules, ClubRules
  <2>2. QED
    BY <2>1, <1>1 DEF IpKeys, Buckets
<1>2. CASE c.rule = "login"
  <2>1. Keys(c) = LoginKeys(c)
    BY <1>2 DEF Keys, IpRules, UserRules, ClubRules
  <2>2. QED
    BY <2>1 DEF LoginKeys, Buckets
<1>3. CASE c.rule \in UserRules
  <2>1. Keys(c) = UserKeys(c)
    BY <1>3 DEF Keys, IpRules, UserRules, ClubRules
  <2>2. QED
    BY <2>1, <1>3 DEF UserKeys, Buckets
<1>4. CASE c.rule \in ClubRules
  <2>1. Keys(c) = ClubKeys(c)
    BY <1>4 DEF Keys, IpRules, UserRules, ClubRules
  <2>2. QED
    BY <2>1, <1>4 DEF ClubKeys, Buckets
<1>5. CASE c.rule \in {"invite_direct", "invite_public"}
  <2>1. Keys(c) = InviteKeys(c)
    BY <1>5 DEF Keys, IpRules, UserRules, ClubRules
  <2>2. CASE c.rule = "invite_public"
    <3>1. Keys(c) = <<>>
      BY <2>1, <2>2 DEF InviteKeys
    <3>2. QED
      BY <3>1
  <2>3. CASE c.rule # "invite_public"
    BY <2>1, <2>3 DEF InviteKeys, Buckets
  <2>4. QED
    BY <2>2, <2>3
<1>6. QED
  BY <1>1, <1>2, <1>3, <1>4, <1>5 DEF Rules

LEMMA LimiterStarts ==
    ASSUME NEW calls, LimiterInit(calls), \A c \in calls : c.rule \in Rules
    PROVE  LimiterInv
<1>1. /\ DOMAIN attempt = calls
      /\ \A c \in calls : attempt[c] = [pc |-> "check", age |-> <<>>, wait |-> 0]
  BY DEF LimiterInit
<1>2. /\ DOMAIN counter = UNION {{Keys(c)[i] : i \in DOMAIN Keys(c)} : c \in calls}
      /\ \A k \in DOMAIN counter : counter[k] = NoKey
  BY DEF LimiterInit
<1>3. LimiterTypeOK
  <2>1. [pc |-> "check", age |-> <<>>, wait |-> 0] \in Attempts
    <3>1. <<>> \in Seq(Nat)
      OBVIOUS
    <3>2. QED
      BY <3>1 DEF Attempts
  <2>2. QED
    BY <1>1, <1>2, <2>1 DEF LimiterTypeOK
<1>4. Touched = {}
  BY <1>1 DEF Touched
<1>5. CallFacts
  <2>1. IsFiniteSet(Touched)
    BY <1>4, FS_EmptySet
  <2>2. ASSUME NEW c \in calls
        PROVE  Len(attempt[c].age) =< Len(Keys(c))
    BY <1>1, KeysShape
  <2>3. QED
    BY <1>1, <1>2, <2>1, <2>2 DEF CallFacts
<1>6. ASSUME NEW k \in DOMAIN counter
      PROVE  CounterFacts(k)
  <2>1. k.bucket \in Buckets
    BY <1>2, KeysShape
  <2>2. \A c \in DOMAIN attempt : ~Just(c, k) /\ ~Counted(c, k)
    BY <1>1 DEF Just, Counted
  <2>3. Passed(k) = {}
    BY <2>2 DEF Passed, Within
  <2>4. Cardinality(Passed(k)) =< Limit[k.bucket]
    BY <2>1, <2>3, FS_EmptySet, LimiterAssumption
  <2>5. QED
    BY <1>1, <1>2, <2>1, <2>2, <2>4 DEF CounterFacts
<1>7. QED
  BY <1>3, <1>5, <1>6 DEF LimiterInv

(* The sets that are counted are finite.                                   *)
LEMMA CountsFinite ==
    ASSUME CallFacts, NEW k
    PROVE  /\ IsFiniteSet(Within(k)) /\ IsFiniteSet(Since(k)) /\ IsFiniteSet(Passed(k))
           /\ Cardinality(Within(k)) \in Nat /\ Cardinality(Since(k)) \in Nat
           /\ Cardinality(Passed(k)) \in Nat
<1>1. IsFiniteSet(Touched)
  BY DEF CallFacts
<1>2. Within(k) \subseteq Touched /\ Since(k) \subseteq Touched /\ Passed(k) \subseteq Touched
  BY DEF Within, Since, Passed, Touched, Counted, StillCounted
<1>3. QED
  BY <1>1, <1>2, FS_Subset, FS_CardinalityType

(* A part of a finite set is no larger.                                    *)
LEMMA PartNoLarger ==
    ASSUME NEW S, NEW T, IsFiniteSet(T), S \subseteq T, NEW n \in Nat, Cardinality(T) =< n
    PROVE  Cardinality(S) =< n
BY FS_Subset, FS_CardinalityType

(* Calls that go on without being counted keep the invariant.              *)
LEMMA NothingCounted ==
    ASSUME LimiterInv, counter' = counter, DOMAIN attempt' = DOMAIN attempt,
           \A c \in DOMAIN attempt :
               /\ attempt'[c] \in Attempts
               /\ attempt'[c].age = attempt[c].age
               /\ attempt'[c].pc \in {"ttl", "refused"} => attempt[c].pc \in {"ttl", "refused"}
               /\ attempt[c].pc \in {"ttl", "refused", "failed"} =>
                     attempt'[c].pc \in {"ttl", "refused", "failed"}
    PROVE  LimiterInv'
<1>1. LimiterTypeOK'
  BY DEF LimiterInv, LimiterTypeOK
<1>2. Touched' = Touched
  BY DEF Touched
<1>3. CallFacts'
  BY <1>2 DEF LimiterInv, CallFacts
<1>4. ASSUME NEW k \in DOMAIN counter
      PROVE  CounterFacts(k)'
  <2>1. /\ CounterFacts(k) /\ CallFacts
        /\ \A c \in DOMAIN attempt : LastKey(c)' = LastKey(c)
        /\ \A c \in DOMAIN attempt : Just(c, k)' = Just(c, k)
    BY DEF LimiterInv, LastKey, Just
  <2>2. Within(k)' = Within(k) /\ Since(k)' = Since(k)
    BY DEF Within, Since, Counted, StillCounted
  <2>3. Passed(k)' \subseteq Passed(k)
    BY <2>1, <2>2 DEF Passed, StoppedAt, Within
  <2>4. Limit[k.bucket] \in Nat
    BY <2>1, LimiterAssumption DEF CounterFacts
  <2>5. IsFiniteSet(Passed(k))
    BY <2>1, CountsFinite
  <2>6. /\ IsFiniteSet(Passed(k) \cap Since(k)) /\ IsFiniteSet(Passed(k) \ Since(k))
    BY <2>5, FS_Subset
  <2>7. counter[k] = NoKey => Cardinality(Passed(k)') =< Limit[k.bucket]
    BY <2>1, <2>3, <2>4, <2>5, PartNoLarger DEF CounterFacts
  <2>8. counter[k] # NoKey => Cardinality(Passed(k)' \cap Since(k)) =< Limit[k.bucket]
    <3>1. Passed(k)' \cap Since(k) \subseteq Passed(k) \cap Since(k)
      BY <2>3
    <3>2. QED
      BY <3>1, <2>1, <2>4, <2>6, PartNoLarger DEF CounterFacts
  <2>9. counter[k] # NoKey => Cardinality(Passed(k)' \ Since(k)) =< Limit[k.bucket]
    <3>1. Passed(k)' \ Since(k) \subseteq Passed(k) \ Since(k)
      BY <2>3
    <3>2. QED
      BY <3>1, <2>1, <2>4, <2>6, PartNoLarger DEF CounterFacts
  <2>10. QED
    BY <2>1, <2>2, <2>7, <2>8, <2>9 DEF CounterFacts
<1>5. QED
  BY <1>1, <1>3, <1>4 DEF LimiterInv

LEMMA AdmitKeeps ==
    ASSUME LimiterInv, NEW c \in DOMAIN attempt, Admit(c)
    PROVE  LimiterInv'
<1>1. /\ counter' = counter /\ DOMAIN attempt' = DOMAIN attempt
      /\ \A d \in DOMAIN attempt : /\ attempt'[d] \in Attempts
                                   /\ attempt'[d].age = attempt[d].age
                                   /\ attempt'[d].pc = IF d = c THEN "admitted" ELSE attempt[d].pc
  BY DEF LimiterInv, LimiterTypeOK, Admit, Attempts
<1>2. attempt[c].pc = "check"
  BY DEF Admit
<1>3. QED
  BY <1>1, <1>2, NothingCounted

LEMMA ReadTtlKeeps ==
    ASSUME LimiterInv, NEW c \in DOMAIN attempt, ReadTtl(c)
    PROVE  LimiterInv'
<1>1. attempt[c].pc = "ttl" /\ counter' = counter /\ attempt[c] \in Attempts
  BY DEF ReadTtl, LimiterInv, LimiterTypeOK
<1>2. LastKey(c) \in DOMAIN counter /\ LastKey(c).bucket \in Buckets
  <2>1. /\ Len(attempt[c].age) =< Len(Keys(c)) /\ attempt[c].age # <<>> /\ c.rule \in Rules
        /\ \A i \in DOMAIN Keys(c) : Keys(c)[i] \in DOMAIN counter
    BY <1>1 DEF LimiterInv, CallFacts
  <2>2. Len(attempt[c].age) \in DOMAIN Keys(c)
    BY <1>1, <2>1, KeysShape DEF Attempts
  <2>3. QED
    BY <2>1, <2>2, KeysShape DEF LastKey
<1>3. PICK w : attempt' = [attempt EXCEPT ![c].pc = "refused", ![c].wait = w] /\ w \in Nat
  <2> DEFINE k == LastKey(c)
             w == IF counter[k] = NoKey THEN Window[k.bucket] ELSE counter[k].ttl
  <2>1. attempt' = [attempt EXCEPT ![c].pc = "refused", ![c].wait = w]
    BY DEF ReadTtl
  <2>2. w \in Nat
    BY <1>2, LimiterAssumption DEF LimiterInv, LimiterTypeOK
  <2>3. QED
    BY <2>1, <2>2
<1>4. /\ DOMAIN attempt' = DOMAIN attempt
      /\ \A d \in DOMAIN attempt : /\ attempt'[d] \in Attempts
                                   /\ attempt'[d].age = attempt[d].age
                                   /\ attempt'[d].pc = IF d = c THEN "refused" ELSE attempt[d].pc
  BY <1>3 DEF LimiterInv, LimiterTypeOK, Attempts
<1>5. QED
  BY <1>1, <1>4, NothingCounted

LEMMA FailureKeeps ==
    ASSUME LimiterInv, NEW c \in DOMAIN attempt, LimiterFails(c)
    PROVE  LimiterInv'
<1>1. /\ counter' = counter /\ DOMAIN attempt' = DOMAIN attempt
      /\ \A d \in DOMAIN attempt : /\ attempt'[d] \in Attempts
                                   /\ attempt'[d].age = attempt[d].age
                                   /\ attempt'[d].pc = IF d = c THEN "failed" ELSE attempt[d].pc
  BY DEF LimiterInv, LimiterTypeOK, LimiterFails, Attempts
<1>2. QED
  BY <1>1, NothingCounted

(* A call that a counter still counts was counted in the last window.      *)
LEMMA SinceWithin ==
    ASSUME LimiterInv, NEW k \in DOMAIN counter, counter[k] # NoKey
    PROVE  Since(k) \subseteq Within(k)
<1>1. counter[k].ttl \in 1..Window[k.bucket] /\ Window[k.bucket] \in Nat
  BY LimiterAssumption DEF LimiterInv, CounterFacts
<1>2. ASSUME NEW d \in DOMAIN attempt, StillCounted(d, k)
      PROVE  Counted(d, k)
  <2>1. attempt[d].age \in Seq(Nat)
    BY DEF LimiterInv, LimiterTypeOK, Attempts
  <2>2. PICK i \in DOMAIN attempt[d].age :
            Keys(d)[i] = k /\ attempt[d].age[i] + counter[k].ttl =< Window[k.bucket]
    BY <1>2 DEF StillCounted
  <2>3. attempt[d].age[i] \in Nat
    BY <2>1
  <2>4. attempt[d].age[i] < Window[k.bucket]
    BY <1>1, <2>2, <2>3
  <2>5. QED
    BY <2>2, <2>4 DEF Counted
<1>3. QED
  BY <1>2 DEF Since, Within

(* A call is counted by one more key, the last of its keys so far.         *)
LEMMA EvaluateKeeps ==
    ASSUME LimiterInv, NEW c \in DOMAIN attempt, Evaluate(c)
    PROVE  LimiterInv'
<1> DEFINE age == attempt[c].age
           j == Len(age) + 1
<1>1. /\ age \in Seq(Nat) /\ attempt[c].pc = "check" /\ c.rule \in Rules
      /\ j \in DOMAIN Keys(c) /\ Keys(c)[j] \in DOMAIN counter /\ Keys(c)[j].bucket \in Buckets
      /\ \A i \in DOMAIN age : i \in DOMAIN Keys(c) /\ Keys(c)[i] # Keys(c)[j]
  <2>1. age \in Seq(Nat) /\ attempt[c].pc = "check" /\ Len(age) < Len(Keys(c))
    BY DEF Evaluate, LimiterInv, LimiterTypeOK, Attempts
  <2>2. c.rule \in Rules /\ \A i \in DOMAIN Keys(c) : Keys(c)[i] \in DOMAIN counter
    BY DEF LimiterInv, CallFacts
  <2>3. j \in DOMAIN Keys(c) /\ \A i \in DOMAIN age : i \in DOMAIN Keys(c) /\ i # j
    BY <2>1, <2>2, KeysShape
  <2>4. QED
    BY <2>1, <2>2, <2>3, KeysShape
<1>2. PICK k0 : k0 = Keys(c)[j]
  OBVIOUS
<1>3. PICK n : n = IF counter[k0] = NoKey THEN 1 ELSE counter[k0].count + 1
  OBVIOUS
<1>4. PICK t : t = IF counter[k0] = NoKey THEN Window[k0.bucket] ELSE counter[k0].ttl
  OBVIOUS
<1>5. PICK p : p = IF n > Limit[k0.bucket] THEN "ttl" ELSE "check"
  OBVIOUS
<1>6. /\ counter' = [counter EXCEPT ![k0] = [count |-> n, ttl |-> t]]
      /\ attempt' = [attempt EXCEPT ![c].age = Append(age, 0), ![c].pc = p]
  BY <1>2, <1>3, <1>4, <1>5 DEF Evaluate, NextKey, ExpireNx
<1>7. /\ k0 \in DOMAIN counter /\ CounterFacts(k0) /\ CallFacts
      /\ Limit[k0.bucket] \in Nat \ {0} /\ Window[k0.bucket] \in Nat \ {0}
  BY <1>1, <1>2, LimiterAssumption DEF LimiterInv
<1>8. t \in 1..Window[k0.bucket] /\ n \in Nat
  BY <1>3, <1>4, <1>7 DEF CounterFacts, LimiterInv, LimiterTypeOK
<1>9. /\ DOMAIN counter' = DOMAIN counter /\ DOMAIN attempt' = DOMAIN attempt
      /\ counter'[k0] = [count |-> n, ttl |-> t]
      /\ \A k \in DOMAIN counter : k # k0 => counter'[k] = counter[k]
      /\ \A d \in DOMAIN attempt : d # c => attempt'[d] = attempt[d]
      /\ attempt'[c].pc = p /\ attempt'[c].wait = attempt[c].wait
      /\ attempt'[c].age = Append(age, 0)
      /\ attempt'[c] \in Attempts
      /\ counter'[k0] # NoKey
  <2>1. Append(age, 0) \in Seq(Nat) /\ attempt[c] \in Attempts
    BY <1>1 DEF LimiterInv, LimiterTypeOK
  <2>2. [count |-> n, ttl |-> t] # NoKey
    BY <1>7, <1>8, NoKeyAssumption
  <2>3. QED
    BY <1>5, <1>6, <1>7, <2>1, <2>2 DEF Attempts
<1>10. /\ DOMAIN attempt'[c].age = 1..j /\ Len(attempt'[c].age) = j /\ DOMAIN age = 1..(j - 1)
       /\ \A i \in 1..(j - 1) : attempt'[c].age[i] = age[i]
       /\ attempt'[c].age[j] = 0 /\ j \in Nat \ {0}
  BY <1>1, <1>9
<1>11. LimiterTypeOK'
  <2>1. [count |-> n, ttl |-> t] \in [count : Nat, ttl : Nat]
    BY <1>7, <1>8
  <2>2. QED
    BY <1>9, <2>1 DEF LimiterInv, LimiterTypeOK
<1>12. CallFacts'
  <2>1. Touched' = Touched \cup {c}
    <3>1. attempt'[c].age # <<>>
      BY <1>10
    <3>2. QED
      BY <1>9, <3>1 DEF Touched
  <2>2. IsFiniteSet(Touched')
    BY <1>7, <2>1, FS_AddElement DEF CallFacts
  <2>3. ASSUME NEW d \in DOMAIN attempt
        PROVE  /\ d.rule \in Rules
               /\ \A i \in DOMAIN Keys(d) : Keys(d)[i] \in DOMAIN counter'
               /\ Len(attempt'[d].age) =< Len(Keys(d))
               /\ \A i \in DOMAIN attempt'[d].age : attempt'[d].age[i] =< Window[Keys(d)[i].bucket]
               /\ attempt'[d].pc \in {"ttl", "refused"} => attempt'[d].age # <<>>
    <3>1. CASE d # c
      BY <1>7, <1>9, <3>1 DEF CallFacts
    <3>2. CASE d = c
      <4>1. Len(attempt'[c].age) =< Len(Keys(c))
        BY <1>1, <1>10, KeysShape
      <4>2. ASSUME NEW i \in DOMAIN attempt'[c].age
            PROVE  attempt'[c].age[i] =< Window[Keys(c)[i].bucket]
        <5>1. CASE i = j
          <6>1. Keys(c)[i] = k0 /\ attempt'[c].age[i] = 0
            BY <1>2, <1>10, <5>1
          <6>2. QED
            BY <1>7, <6>1
        <5>2. CASE i # j
          <6>1. i \in DOMAIN age /\ attempt'[c].age[i] = age[i]
            BY <1>10, <5>2
          <6>2. QED
            BY <1>1, <1>7, <6>1 DEF CallFacts
        <5>3. QED
          BY <5>1, <5>2
      <4>3. attempt'[c].age # <<>>
        BY <1>10
      <4>4. QED
        BY <1>7, <1>9, <3>2, <4>1, <4>2, <4>3 DEF CallFacts
    <3>3. QED
      BY <3>1, <3>2
  <2>4. QED
    BY <1>9, <2>2, <2>3 DEF CallFacts
<1>13. ASSUME NEW k \in DOMAIN counter, k # k0
       PROVE  CounterFacts(k)'
  <2>1. ASSUME NEW d \in DOMAIN attempt
        PROVE  /\ Counted(d, k)' <=> Counted(d, k)
               /\ StillCounted(d, k)' <=> StillCounted(d, k)
               /\ Just(d, k)' <=> Just(d, k)
               /\ StoppedAt(d, k)' <=> StoppedAt(d, k)
               /\ LastKey(d)' = k => d # c
    <3>1. CASE d # c
      BY <1>9, <1>13, <3>1 DEF Counted, StillCounted, Just, StoppedAt, LastKey
    <3>2. CASE d = c
      <4>1. \A i \in DOMAIN attempt'[c].age :
                Keys(c)[i] = k => i \in DOMAIN age /\ attempt'[c].age[i] = age[i]
        BY <1>2, <1>10, <1>13
      <4>2. \A i \in DOMAIN age : i \in DOMAIN attempt'[c].age /\ attempt'[c].age[i] = age[i]
        BY <1>10
      <4>3. LastKey(c)' = k0
        BY <1>2, <1>10 DEF LastKey
      <4>4. counter'[k] = counter[k]
        BY <1>9, <1>13
      <4>5. Counted(c, k)' <=> Counted(c, k)
        BY <4>1, <4>2 DEF Counted
      <4>6. StillCounted(c, k)' <=> StillCounted(c, k)
        BY <4>1, <4>2, <4>4 DEF StillCounted
      <4>7. Just(c, k)' <=> Just(c, k)
        BY <4>1, <4>2 DEF Just
      <4>8. ~StoppedAt(c, k)' /\ ~StoppedAt(c, k)
        BY <1>1, <1>13, <4>3 DEF StoppedAt
      <4>9. QED
        BY <1>13, <3>2, <4>3, <4>5, <4>6, <4>7, <4>8
    <3>3. QED
      BY <3>1, <3>2
  <2>2. Within(k)' = Within(k) /\ Since(k)' = Since(k) /\ Passed(k)' = Passed(k)
    BY <1>9, <2>1 DEF Within, Since, Passed
  <2>3. CounterFacts(k) /\ counter'[k] = counter[k]
    BY <1>9, <1>13 DEF LimiterInv
  <2>4. ASSUME NEW d \in DOMAIN attempt, attempt'[d].pc \in {"ttl", "refused"}, LastKey(d)' = k,
               attempt'[d].age[Len(attempt'[d].age)] = 0
        PROVE  Cardinality(Within(k)) > Limit[k.bucket]
    <3>1. attempt'[d] = attempt[d]
      BY <1>9, <2>1, <2>4
    <3>2. QED
      BY <2>3, <2>4, <3>1 DEF CounterFacts, LastKey
  <2>5. \A d \in DOMAIN attempt : Just(d, k)' <=> Just(d, k)
    BY <2>1
  <2>6. QED
    BY <1>9, <2>2, <2>3, <2>4, <2>5 DEF CounterFacts
<1>14. CounterFacts(k0)'
  <2>1. \A d \in DOMAIN attempt : d # c =>
            /\ Counted(d, k0)' <=> Counted(d, k0)
            /\ StoppedAt(d, k0)' <=> StoppedAt(d, k0)
            /\ LastKey(d)' = LastKey(d)
    BY <1>9 DEF Counted, StoppedAt, LastKey
  <2>2. /\ ~Counted(c, k0) /\ ~StillCounted(c, k0)
        /\ Keys(c)[j] = k0 /\ j \in DOMAIN attempt'[c].age /\ LastKey(c)' = k0
    BY <1>1, <1>2, <1>10 DEF Counted, StillCounted, LastKey
  <2>3. Counted(c, k0)'
    <3>1. attempt'[c].age[j] < Window[k0.bucket]
      BY <1>7, <1>10
    <3>2. QED
      BY <2>2, <3>1 DEF Counted
  <2>4. Within(k0)' = Within(k0) \cup {c} /\ Within(k0) \subseteq DOMAIN attempt
    BY <1>9, <2>1, <2>3 DEF Within
  <2>5. StillCounted(c, k0)'
    <3>1. attempt'[c].age[j] + counter'[k0].ttl =< Window[k0.bucket]
      BY <1>7, <1>8, <1>9, <1>10
    <3>2. QED
      BY <2>2, <3>1 DEF StillCounted
  <2>6. CASE counter[k0] = NoKey
    <3>1. \A d \in DOMAIN attempt : d # c => ~StillCounted(d, k0)'
      <4>1. SUFFICES ASSUME NEW d \in DOMAIN attempt, d # c, StillCounted(d, k0)'
                     PROVE  FALSE
        OBVIOUS
      <4>2. attempt'[d] = attempt[d] /\ counter'[k0].ttl = Window[k0.bucket]
        BY <1>4, <1>9, <2>6, <4>1
      <4>3. PICK i \in DOMAIN attempt[d].age :
                Keys(d)[i] = k0 /\ attempt[d].age[i] + Window[k0.bucket] =< Window[k0.bucket]
        BY <4>1, <4>2 DEF StillCounted
      <4>4. attempt[d].age[i] \in Nat
        BY DEF LimiterInv, LimiterTypeOK, Attempts
      <4>5. attempt[d].age[i] = 0
        BY <1>7, <4>3, <4>4
      <4>6. QED
        BY <1>7, <2>6, <4>3, <4>5 DEF CounterFacts, Just
    <3>2. Since(k0)' = {c}
      BY <1>9, <2>5, <3>1 DEF Since
    <3>3. n = 1 /\ Cardinality(Since(k0)') = n /\ IsFiniteSet(Since(k0)')
      BY <1>3, <2>6, <3>2, FS_Singleton
    <3>4. p = "check"
      BY <1>5, <1>7, <3>3
    <3>5. Passed(k0)' \ Since(k0)' \subseteq Passed(k0)
      BY <1>9, <2>1, <2>4, <3>2 DEF Passed
    <3>6. IsFiniteSet(Passed(k0)) /\ Cardinality(Passed(k0)) =< Limit[k0.bucket]
      BY <1>7, <2>6, CountsFinite DEF CounterFacts
    <3>7. Cardinality(Passed(k0)' \ Since(k0)') =< Limit[k0.bucket]
      BY <1>7, <3>5, <3>6, PartNoLarger
    <3>8. Cardinality(Passed(k0)' \cap Since(k0)') =< Limit[k0.bucket]
      <4>1. Cardinality(Since(k0)') =< Limit[k0.bucket]
        BY <1>7, <3>3
      <4>2. QED
        BY <1>7, <3>3, <4>1, PartNoLarger
    <3>9. ASSUME NEW d \in DOMAIN attempt, attempt'[d].pc \in {"ttl", "refused"},
                 LastKey(d)' = k0, attempt'[d].age[Len(attempt'[d].age)] = 0
          PROVE  FALSE
      <4>1. d # c
        BY <1>9, <3>4, <3>9
      <4>2. attempt'[d] = attempt[d] /\ LastKey(d) = k0
        BY <1>9, <2>1, <3>9, <4>1
      <4>3. attempt[d].age # <<>> /\ attempt[d].age \in Seq(Nat)
        BY <1>7, <3>9, <4>2 DEF CallFacts, LimiterInv, LimiterTypeOK, Attempts
      <4>4. Len(attempt[d].age) \in DOMAIN attempt[d].age
        BY <4>3
      <4>5. Just(d, k0)
        BY <3>9, <4>2, <4>4 DEF Just, LastKey
      <4>6. QED
        BY <1>7, <2>6, <4>5 DEF CounterFacts
    <3>10. counter'[k0] # NoKey => /\ counter'[k0].ttl \in 1..Window[k0.bucket]
                                   /\ counter'[k0].count = Cardinality(Since(k0)')
      BY <1>8, <1>9, <3>3
    <3>11. QED
      BY <1>7, <1>9, <3>7, <3>8, <3>9, <3>10 DEF CounterFacts
  <2>7. CASE counter[k0] # NoKey
    <3>1. counter'[k0].ttl = counter[k0].ttl /\ n = Cardinality(Since(k0)) + 1
      BY <1>3, <1>4, <1>7, <1>9, <2>7 DEF CounterFacts
    <3>2. Since(k0)' = Since(k0) \cup {c} /\ c \notin Since(k0)
      <4>1. \A d \in DOMAIN attempt : d # c => (StillCounted(d, k0)' <=> StillCounted(d, k0))
        BY <1>9, <3>1 DEF StillCounted
      <4>2. QED
        BY <1>9, <2>2, <2>5, <4>1 DEF Since
    <3>3. IsFiniteSet(Since(k0)') /\ Cardinality(Since(k0)') = n
      BY <1>7, <3>1, <3>2, CountsFinite, FS_AddElement
    <3>4. IsFiniteSet(Within(k0)') /\ Since(k0)' \subseteq Within(k0)'
      BY <1>7, <2>4, <2>7, <3>2, CountsFinite, FS_AddElement, SinceWithin
    <3>5. Passed(k0)' \subseteq Passed(k0) \cup {c} /\ (p = "ttl" => c \notin Passed(k0)')
      BY <1>9, <2>1, <2>2, <2>4 DEF Passed, StoppedAt
    <3>6. Cardinality(Passed(k0)' \cap Since(k0)') =< Limit[k0.bucket]
      <4>1. CASE n > Limit[k0.bucket]
        <5>1. Passed(k0)' \cap Since(k0)' \subseteq Passed(k0) \cap Since(k0)
          BY <1>5, <3>2, <3>5, <4>1
        <5>2. /\ IsFiniteSet(Passed(k0) \cap Since(k0))
              /\ Cardinality(Passed(k0) \cap Since(k0)) =< Limit[k0.bucket]
          BY <1>7, <2>7, CountsFinite, FS_Subset DEF CounterFacts
        <5>3. QED
          BY <1>7, <5>1, <5>2, PartNoLarger
      <4>2. CASE n =< Limit[k0.bucket]
        <5>1. Cardinality(Since(k0)') =< Limit[k0.bucket]
          BY <3>3, <4>2
        <5>2. QED
          BY <1>7, <3>3, <5>1, PartNoLarger
      <4>3. QED
        BY <1>7, <1>8, <4>1, <4>2
    <3>7. Cardinality(Passed(k0)' \ Since(k0)') =< Limit[k0.bucket]
      <4>1. Passed(k0)' \ Since(k0)' \subseteq Passed(k0) \ Since(k0)
        BY <3>2, <3>5
      <4>2. /\ IsFiniteSet(Passed(k0) \ Since(k0))
            /\ Cardinality(Passed(k0) \ Since(k0)) =< Limit[k0.bucket]
        BY <1>7, <2>7, CountsFinite, FS_Subset DEF CounterFacts
      <4>3. QED
        BY <1>7, <4>1, <4>2, PartNoLarger
    <3>8. ASSUME NEW d \in DOMAIN attempt, attempt'[d].pc \in {"ttl", "refused"},
                 LastKey(d)' = k0, attempt'[d].age[Len(attempt'[d].age)] = 0
          PROVE  Cardinality(Within(k0)') > Limit[k0.bucket]
      <4>1. CASE d = c
        <5>1. n > Limit[k0.bucket]
          BY <1>5, <1>9, <3>8, <4>1
        <5>2. n =< Cardinality(Within(k0)') /\ Cardinality(Within(k0)') \in Nat
          BY <3>3, <3>4, FS_Subset, FS_CardinalityType
        <5>3. QED
          BY <1>7, <1>8, <5>1, <5>2
      <4>2. CASE d # c
        <5>1. attempt'[d] = attempt[d] /\ LastKey(d) = k0
          BY <1>9, <2>1, <3>8, <4>2
        <5>2. Cardinality(Within(k0)) > Limit[k0.bucket]
          BY <1>7, <3>8, <5>1 DEF CounterFacts
        <5>3. Cardinality(Within(k0)) =< Cardinality(Within(k0)') /\ Cardinality(Within(k0)') \in Nat
          BY <2>4, <3>4, FS_Subset, FS_CardinalityType
        <5>4. Cardinality(Within(k0)) \in Nat
          BY <1>7, CountsFinite
        <5>5. QED
          BY <1>7, <5>2, <5>3, <5>4
      <4>3. QED
        BY <4>1, <4>2
    <3>9. /\ counter'[k0].ttl \in 1..Window[k0.bucket]
          /\ counter'[k0].count = Cardinality(Since(k0)')
      BY <1>8, <1>9, <3>3
    <3>10. QED
      BY <1>7, <1>9, <3>6, <3>7, <3>8, <3>9 DEF CounterFacts
  <2>8. QED
    BY <2>6, <2>7
<1>15. QED
  BY <1>9, <1>11, <1>12, <1>13, <1>14 DEF LimiterInv

(* The clock: ages grow up to the window, and a counter whose time is over *)
(* is gone.  At that moment it still counts whoever was counted in the     *)
(* last window.                                                            *)
LEMMA TickKeeps ==
    ASSUME LimiterInv, Tick
    PROVE  LimiterInv'
<1>1. /\ DOMAIN counter' = DOMAIN counter /\ DOMAIN attempt' = DOMAIN attempt
      /\ \A k \in DOMAIN counter :
            counter'[k] = IF counter[k] = NoKey \/ counter[k].ttl = 1 THEN NoKey
                          ELSE [counter[k] EXCEPT !.ttl = @ - 1]
  BY DEF Tick
<1>2. \A c \in DOMAIN attempt :
          attempt'[c] = [attempt[c] EXCEPT !.age = [i \in DOMAIN attempt[c].age |->
              IF attempt[c].age[i] < Window[Keys(c)[i].bucket]
              THEN attempt[c].age[i] + 1 ELSE attempt[c].age[i]]]
  BY DEF Tick
<1>3. \A k \in DOMAIN counter : /\ k.bucket \in Buckets
                                /\ Window[k.bucket] \in Nat \ {0} /\ Limit[k.bucket] \in Nat \ {0}
  BY LimiterAssumption DEF LimiterInv, CounterFacts
<1>4. ASSUME NEW c \in DOMAIN attempt
      PROVE  /\ attempt[c] \in Attempts /\ attempt'[c] \in Attempts
             /\ attempt'[c].pc = attempt[c].pc
             /\ DOMAIN attempt'[c].age = DOMAIN attempt[c].age
             /\ Len(attempt'[c].age) = Len(attempt[c].age)
             /\ \A i \in DOMAIN attempt[c].age :
                   /\ attempt[c].age[i] \in Nat
                   /\ Keys(c)[i] \in DOMAIN counter
                   /\ attempt[c].age[i] =< Window[Keys(c)[i].bucket]
                   /\ attempt'[c].age[i] = IF attempt[c].age[i] < Window[Keys(c)[i].bucket]
                                           THEN attempt[c].age[i] + 1 ELSE attempt[c].age[i]
  <2>1. attempt[c] \in Attempts /\ attempt[c].age \in Seq(Nat)
    BY DEF LimiterInv, LimiterTypeOK, Attempts
  <2>2. \A i \in DOMAIN attempt[c].age : /\ attempt[c].age[i] \in Nat
                                         /\ Keys(c)[i] \in DOMAIN counter
                                         /\ attempt[c].age[i] =< Window[Keys(c)[i].bucket]
    <3>1. /\ c.rule \in Rules /\ Len(attempt[c].age) =< Len(Keys(c))
          /\ \A i \in DOMAIN Keys(c) : Keys(c)[i] \in DOMAIN counter
          /\ \A i \in DOMAIN attempt[c].age : attempt[c].age[i] =< Window[Keys(c)[i].bucket]
      BY DEF LimiterInv, CallFacts
    <3>2. DOMAIN attempt[c].age \subseteq DOMAIN Keys(c)
      BY <2>1, <3>1, KeysShape
    <3>3. QED
      BY <2>1, <3>1, <3>2
  <2>3. PICK a : a = [i \in DOMAIN attempt[c].age |->
                         IF attempt[c].age[i] < Window[Keys(c)[i].bucket]
                         THEN attempt[c].age[i] + 1 ELSE attempt[c].age[i]]
    OBVIOUS
  <2>4. attempt'[c] = [attempt[c] EXCEPT !.age = a]
    BY <1>2, <2>3
  <2>5. a \in [1..Len(attempt[c].age) -> Nat] /\ Len(attempt[c].age) \in Nat
    BY <2>1, <2>2, <2>3
  <2>6. a \in Seq(Nat) /\ Len(a) = Len(attempt[c].age) /\ DOMAIN a = DOMAIN attempt[c].age
    BY <2>1, <2>5
  <2>7. attempt'[c].pc = attempt[c].pc /\ attempt'[c].age = a /\ attempt'[c] \in Attempts
    BY <2>1, <2>4, <2>6 DEF Attempts
  <2>8. QED
    BY <2>1, <2>2, <2>3, <2>6, <2>7
<1>5. LimiterTypeOK'
  <2>1. ASSUME NEW k \in DOMAIN counter
        PROVE  counter'[k] = NoKey \/ counter'[k] \in [count : Nat, ttl : Nat]
    <3>1. CASE counter[k] = NoKey \/ counter[k].ttl = 1
      BY <1>1, <3>1
    <3>2. CASE counter[k] # NoKey /\ counter[k].ttl # 1
      <4>1. counter[k] \in [count : Nat, ttl : Nat] /\ counter[k].ttl \in 1..Window[k.bucket]
        BY <3>2 DEF LimiterInv, LimiterTypeOK, CounterFacts
      <4>2. counter'[k] = [counter[k] EXCEPT !.ttl = counter[k].ttl - 1]
        BY <1>1, <3>2
      <4>3. QED
        BY <1>3, <4>1, <4>2
    <3>3. QED
      BY <3>1, <3>2
  <2>2. QED
    BY <1>1, <1>4, <2>1 DEF LimiterTypeOK
<1>6. CallFacts'
  <2>1. Touched' = Touched
    BY <1>1, <1>4 DEF Touched, Attempts
  <2>2. \A c \in DOMAIN attempt : attempt'[c].pc \in {"ttl", "refused"} => attempt'[c].age # <<>>
    BY <1>4 DEF LimiterInv, CallFacts, Attempts
  <2>3. \A c \in DOMAIN attempt : \A i \in DOMAIN attempt'[c].age :
            attempt'[c].age[i] =< Window[Keys(c)[i].bucket]
    BY <1>3, <1>4
  <2>4. QED
    BY <1>1, <1>4, <2>1, <2>2, <2>3 DEF LimiterInv, CallFacts
<1>7. ASSUME NEW k \in DOMAIN counter, NEW c \in DOMAIN attempt
      PROVE  /\ Counted(c, k)' => Counted(c, k)
             /\ StoppedAt(c, k)' <=> StoppedAt(c, k)
             /\ ~Just(c, k)'
             /\ LastKey(c)' = LastKey(c)
  <2>1. LastKey(c)' = LastKey(c) /\ (StoppedAt(c, k)' <=> StoppedAt(c, k))
    BY <1>4 DEF LastKey, StoppedAt
  <2>2. \A i \in DOMAIN attempt[c].age : Keys(c)[i] = k =>
            /\ attempt'[c].age[i] # 0
            /\ attempt'[c].age[i] < Window[k.bucket] => attempt[c].age[i] < Window[k.bucket]
    BY <1>3, <1>4
  <2>3. QED
    BY <1>4, <2>1, <2>2 DEF Counted, Just
<1>8. ASSUME NEW k \in DOMAIN counter
      PROVE  Within(k)' \subseteq Within(k) /\ Passed(k)' \subseteq Passed(k)
  BY <1>1, <1>7 DEF Within, Passed
<1>9. ASSUME NEW k \in DOMAIN counter
      PROVE  CounterFacts(k)'
  <2>1. /\ CounterFacts(k) /\ CallFacts
        /\ IsFiniteSet(Passed(k)) /\ IsFiniteSet(Passed(k) \cap Since(k))
        /\ IsFiniteSet(Passed(k) \ Since(k))
    BY CountsFinite, FS_Subset DEF LimiterInv
  <2>2. ASSUME NEW c \in DOMAIN attempt, attempt'[c].pc \in {"ttl", "refused"}, LastKey(c)' = k,
               attempt'[c].age[Len(attempt'[c].age)] = 0
        PROVE  FALSE
    <3>1. attempt[c].age # <<>> /\ attempt[c].age \in Seq(Nat)
      BY <1>4, <2>1, <2>2 DEF CallFacts, Attempts
    <3>2. Len(attempt'[c].age) \in DOMAIN attempt'[c].age
      BY <1>4, <3>1
    <3>3. Just(c, k)'
      BY <2>2, <3>2 DEF Just, LastKey
    <3>4. QED
      BY <1>7, <3>3
  <2>3. CASE counter[k] = NoKey
    <3>1. counter'[k] = NoKey
      BY <1>1, <2>3
    <3>2. Cardinality(Passed(k)') =< Limit[k.bucket]
      BY <1>3, <1>8, <2>1, <2>3, PartNoLarger DEF CounterFacts
    <3>3. QED
      BY <1>1, <1>3, <1>7, <2>2, <3>1, <3>2 DEF CounterFacts
  <2>4. CASE counter[k] # NoKey /\ counter[k].ttl = 1
    <3>1. counter'[k] = NoKey
      BY <1>1, <2>4
    <3>2. ASSUME NEW c \in DOMAIN attempt, Counted(c, k)'
          PROVE  StillCounted(c, k)
      <4>1. PICK i \in DOMAIN attempt[c].age :
                Keys(c)[i] = k /\ attempt'[c].age[i] < Window[k.bucket]
        BY <1>4, <3>2 DEF Counted
      <4>2. attempt[c].age[i] + 1 =< Window[k.bucket]
        BY <1>3, <1>4, <4>1
      <4>3. QED
        BY <2>4, <4>1, <4>2 DEF StillCounted
    <3>3. Passed(k)' \subseteq Passed(k) \cap Since(k)
      BY <1>1, <1>8, <3>2 DEF Within, Passed, Since
    <3>4. Cardinality(Passed(k)') =< Limit[k.bucket]
      BY <1>3, <2>1, <2>4, <3>3, PartNoLarger DEF CounterFacts
    <3>5. QED
      BY <1>1, <1>3, <1>7, <2>2, <3>1, <3>4 DEF CounterFacts
  <2>5. CASE counter[k] # NoKey /\ counter[k].ttl # 1
    <3>1. PICK t : t = counter[k].ttl
      OBVIOUS
    <3>2. /\ t \in 1..Window[k.bucket] /\ t # 1 /\ counter[k] \in [count : Nat, ttl : Nat]
      BY <2>1, <2>5, <3>1 DEF CounterFacts, LimiterInv, LimiterTypeOK
    <3>3. /\ counter'[k].ttl = t - 1 /\ counter'[k].count = counter[k].count
          /\ counter'[k] # NoKey /\ t - 1 \in 1..Window[k.bucket]
      <4>1. counter'[k] = [counter[k] EXCEPT !.ttl = t - 1]
        BY <1>1, <2>5, <3>1
      <4>2. counter'[k] \in [count : Nat, ttl : Nat]
        BY <1>3, <3>2, <4>1
      <4>3. counter'[k] # NoKey
        BY <4>2, NoKeyAssumption
      <4>4. QED
        BY <1>3, <3>2, <4>1, <4>3
    <3>4. ASSUME NEW c \in DOMAIN attempt
          PROVE  StillCounted(c, k)' <=> StillCounted(c, k)
      <4>1. \A i \in DOMAIN attempt[c].age : Keys(c)[i] = k =>
                (attempt'[c].age[i] + (t - 1) =< Window[k.bucket]
                    <=> attempt[c].age[i] + t =< Window[k.bucket])
        BY <1>3, <1>4, <3>2
      <4>2. QED
        BY <1>4, <3>1, <3>3, <4>1 DEF StillCounted
    <3>5. Since(k)' = Since(k)
      BY <1>1, <3>4 DEF Since
    <3>6. Cardinality(Passed(k)' \cap Since(k)') =< Limit[k.bucket]
      <4>1. Passed(k)' \cap Since(k)' \subseteq Passed(k) \cap Since(k)
        BY <1>8, <3>5
      <4>2. QED
        BY <1>3, <2>1, <2>5, <4>1, PartNoLarger DEF CounterFacts
    <3>7. Cardinality(Passed(k)' \ Since(k)') =< Limit[k.bucket]
      <4>1. Passed(k)' \ Since(k)' \subseteq Passed(k) \ Since(k)
        BY <1>8, <3>5
      <4>2. QED
        BY <1>3, <2>1, <2>5, <4>1, PartNoLarger DEF CounterFacts
    <3>8. counter'[k].count = Cardinality(Since(k)')
      BY <2>1, <2>5, <3>3, <3>5 DEF CounterFacts
    <3>9. QED
      BY <1>1, <1>3, <2>2, <3>3, <3>6, <3>7, <3>8 DEF CounterFacts
  <2>6. QED
    BY <2>3, <2>4, <2>5
<1>10. QED
  BY <1>1, <1>5, <1>6, <1>9 DEF LimiterInv

LEMMA LimiterNextKeeps ==
    ASSUME LimiterInv, LimiterNext
    PROVE  LimiterInv'
BY AdmitKeeps, EvaluateKeeps, ReadTtlKeeps, FailureKeeps, TickKeeps DEF LimiterNext

LEMMA LimiterStays ==
    ASSUME LimiterInv, UNCHANGED limiter
    PROVE  LimiterInv'
<1>1. counter' = counter /\ attempt' = attempt
  BY DEF limiter
<1>2. \A c \in DOMAIN attempt : attempt'[c] \in Attempts
  BY <1>1 DEF LimiterInv, LimiterTypeOK
<1>3. QED
  BY <1>1, <1>2, NothingCounted

LEMMA CountsAddUp ==
    ASSUME NEW A, NEW B, NEW C, IsFiniteSet(A), IsFiniteSet(B), C = A \cup B, A \cap B = {}
    PROVE  Cardinality(C) = Cardinality(A) + Cardinality(B)
<1>1. Cardinality(A \cup B) = Cardinality(A) + Cardinality(B) - Cardinality(A \cap B)
  BY FS_Union
<1>2. Cardinality(A \cap B) = 0
  BY FS_EmptySet
<1>3. Cardinality(A) \in Nat /\ Cardinality(B) \in Nat
  BY FS_CardinalityType
<1>4. QED
  BY <1>1, <1>2, <1>3

(* What is let in is what the counter still counts and what the one before *)
(* it let in: no more than the limit each.                                 *)
LEMMA LimiterInvWindowEnds ==
    ASSUME LimiterInv
    PROVE  WindowEnds
<1>1. ASSUME NEW k \in DOMAIN counter
      PROVE  /\ \A c \in DOMAIN attempt :
                   /\ attempt[c].pc \in {"ttl", "refused"} /\ LastKey(c) = k
                   /\ attempt[c].age[Len(attempt[c].age)] = 0
                   => Cardinality(Within(k)) > Limit[k.bucket]
             /\ Cardinality(Passed(k)) =< 2 * Limit[k.bucket]
  <2>1. CounterFacts(k) /\ CallFacts /\ Limit[k.bucket] \in Nat
    BY LimiterAssumption DEF LimiterInv, CounterFacts
  <2>2. IsFiniteSet(Passed(k)) /\ Cardinality(Passed(k)) \in Nat
    BY <2>1, CountsFinite
  <2>3. Cardinality(Passed(k)) =< 2 * Limit[k.bucket]
    <3>1. CASE counter[k] = NoKey
      BY <2>1, <2>2, <3>1 DEF CounterFacts
    <3>2. CASE counter[k] # NoKey
      <4>1. /\ IsFiniteSet(Passed(k) \cap Since(k)) /\ IsFiniteSet(Passed(k) \ Since(k))
            /\ Cardinality(Passed(k) \cap Since(k)) \in Nat
            /\ Cardinality(Passed(k) \ Since(k)) \in Nat
        BY <2>2, FS_Subset, FS_CardinalityType
      <4>2. /\ Passed(k) = (Passed(k) \cap Since(k)) \cup (Passed(k) \ Since(k))
            /\ (Passed(k) \cap Since(k)) \cap (Passed(k) \ Since(k)) = {}
        OBVIOUS
      <4>3. Cardinality(Passed(k)) = Cardinality(Passed(k) \cap Since(k))
                                        + Cardinality(Passed(k) \ Since(k))
        BY <4>1, <4>2, CountsAddUp
      <4>4. QED
        BY <2>1, <3>2, <4>1, <4>3 DEF CounterFacts
    <3>3. QED
      BY <3>1, <3>2
  <2>4. QED
    BY <2>1, <2>3 DEF CounterFacts
<1>2. ASSUME NEW k \in DOMAIN counter
      PROVE  LET within == {c \in DOMAIN attempt : Counted(c, k)}
                 stopped(pcs) == {c \in within : attempt[c].pc \in pcs /\ LastKey(c) = k}
             IN  /\ within = Within(k)
                 /\ within \ stopped({"ttl", "refused", "failed"}) = Passed(k)
  BY DEF Within, Passed, StoppedAt
<1>3. QED
  BY <1>1, <1>2 DEF WindowEnds
=============================================================================
