------------------------ MODULE EmailPipelineProofs -------------------------
(***************************************************************************)
(* Proofs about EmailPipeline, for any mails, addresses, jobs at once,     *)
(* webhooks and unsubscriptions.                                           *)
(***************************************************************************)
EXTENDS EmailPipeline, TLAPS

(* The mail m of the dispatch d has not been put on the queue yet.         *)
Undispatched(d, m) == m \in d /\ (desk[d].pc # "enqueue" \/ m \in desk[d].left)
Queued(m) == \E i \in 1 .. Len(queue) : queue[i] = m
Worked(m) == \E w \in Workers : worker[w] # NULL /\ worker[w].mail = m

(* A mail is at one place at a time, and accepted upstream from nowhere    *)
(* but a job.                                                              *)
OnePlace ==
    /\ \A d \in DOMAIN desk : \A m \in d :
          Undispatched(d, m) => ~Queued(m) /\ m \notin later /\ ~Worked(m) /\ handed[m] = 0
    /\ \A i, j \in 1 .. Len(queue) : queue[i] = queue[j] => i = j
    /\ \A m \in Mails : Queued(m) => m \notin later /\ ~Worked(m) /\ handed[m] = 0
    /\ \A m \in later : ~Worked(m) /\ handed[m] = 0
    /\ \A w \in Workers : worker[w] # NULL => handed[worker[w].mail] = 0
    /\ \A w, x \in Workers : /\ worker[w] # NULL /\ worker[x] # NULL
                             /\ worker[w].mail = worker[x].mail
                             => w = x
    /\ AtMostOnce

HookSteps == {"due", "find", "exists", "block", "write", "evict", "key", "done"}
Desks(d) == [pc : {"load", "gate", "enqueue"}, left : SUBSET d,
             prefs : [d -> EmailPreferences \cup {NULL}] \cup {NULL}]

Types ==
    /\ prefs \in [Addresses -> EmailPreferences \cup {NULL}]
    /\ blocked \in SUBSET Addresses /\ lock \in BOOLEAN
    /\ cache \in [Addresses -> EmailPreferences \cup {NULL}]
    /\ queue \in Seq(Mails) /\ later \in SUBSET Mails
    /\ DOMAIN desk = workload.dispatches /\ \A d \in DOMAIN desk : desk[d] \in Desks(d)
    /\ worker \in [Workers -> Jobs \cup {NULL}]
    /\ \A w \in Workers : worker[w] # NULL /\ worker[w].pc = "save" => worker[w].prefs # NULL
    /\ hook \in [workload.events -> HookSteps] /\ seen \in SUBSET workload.events
    /\ unsub \in [workload.unsubs -> {"due", "write", "evict", "done"}]
    /\ handed \in [Mails -> Nat]
    /\ answered \in [Addresses -> SUBSET Scopes] /\ stale \in SUBSET Addresses
    /\ workload \in Workloads

(* What the preferences p keep from their owner.                           *)
Denied(p) == p.suppressed \cup p.optOut

(* What a webhook suppresses.                                              *)
Owes(h) == CASE h.type \in Fatal -> EmailCategory
             [] h.type = "COMPLAINED" -> {"engagement", "promotional"}
             [] OTHER -> {}

(* The preferences of e refuse what is in D ...                            *)
Refused(e, D) == D = {} \/ (prefs[e] # NULL /\ D \subseteq Denied(prefs[e]))

(* ... and so does the entry in the cache, unless it is stale.             *)
Honoured(e, D) ==
    /\ Refused(e, D)
    /\ cache[e] # NULL /\ e \notin stale => D \subseteq Denied(cache[e])

(* Webhooks and unsubscriptions on their way.                              *)
HookOK(h) ==
    /\ hook[h] = "write" => prefs[h.to] # NULL
    /\ hook[h] = "evict" => Refused(h.to, Owes(h))
    /\ hook[h] = "key" /\ h.to \notin blocked => Honoured(h.to, Owes(h))
UnsubOK(u) ==
    /\ unsub[u] = "write" => prefs[u.to] # NULL
    /\ unsub[u] = "evict" => Refused(u.to, {u.scope})
RequestsOK == /\ \A h \in workload.events : HookOK(h)
              /\ \A u \in workload.unsubs : UnsubOK(u)

(* A job keeps what its recipient need not expect since it started.        *)
JobOK(j) ==
    /\ Honoured(j.mail.to, j.owed)
    /\ j.pc = "save" => prefs[j.mail.to] # NULL /\ j.owed \subseteq Denied(j.prefs)
    /\ j.pc = "send" /\ ~j.excused => Kinds(j.mail) \cap j.owed = {}

(* What was answered is kept from now on.                                  *)
Kept ==
    /\ \A e \in Addresses \ blocked : Honoured(e, answered[e])
    /\ \A e \in Addresses : cache[e] # NULL => prefs[e] # NULL
    /\ \A w \in Workers : worker[w] # NULL => JobOK(worker[w])

IInv == Types /\ OnePlace /\ RequestsOK /\ Kept /\ CacheCoherent

-----------------------------------------------------------------------------
(* The constants.                                                          *)
LEMMA MailShape ==
    ASSUME NEW m \in Mails
    PROVE  /\ m.to \in Addresses /\ m.template.category \in EmailCategory
           /\ m.template.scoped => m.club \in Clubs
BY PipelineAssumption DEF Templates

(* What a workload asks of addresses.                                      *)
LEMMA WorkloadShape ==
    ASSUME NEW wl \in Workloads
    PROVE  /\ \A d \in wl.dispatches : d \subseteq Mails
           /\ \A d1, d2 \in wl.dispatches : d1 # d2 => d1 \cap d2 = {}
           /\ \A h \in wl.events : h.to \in Addresses /\ h.type \in EventType
           /\ \A u \in wl.unsubs : u.to \in Addresses /\ u.scope \in Scopes
<1>1. Workloadable(wl)
  BY PipelineAssumption
<1>2. \A d \in wl.dispatches : d \subseteq Mails
  BY DEF Mails
<1> QED BY <1>1, <1>2 DEF Workloadable, Events

(* None is neither preferences nor a job.                                  *)
LEMMA NotNull == NULL \notin EmailPreferences /\ NULL \notin Jobs
BY PipelineAssumption

(* Preferences that differ in the verification only refuse the same.       *)
LEMMA AlikeFields ==
    ASSUME NEW p \in EmailPreferences, NEW q \in EmailPreferences
    PROVE  Alike(p, q) <=> /\ p.failed = q.failed /\ p.suppressed = q.suppressed
                           /\ p.optOut = q.optOut
<1>1. PICK x : x = [p EXCEPT !.verified = TRUE]
  OBVIOUS
<1>2. PICK y : y = [q EXCEPT !.verified = TRUE]
  OBVIOUS
<1>3. /\ x \in EmailPreferences /\ x.failed = p.failed /\ x.suppressed = p.suppressed
      /\ x.optOut = p.optOut /\ x.verified = TRUE
  BY <1>1 DEF EmailPreferences
<1>4. /\ y \in EmailPreferences /\ y.failed = q.failed /\ y.suppressed = q.suppressed
      /\ y.optOut = q.optOut /\ y.verified = TRUE
  BY <1>2 DEF EmailPreferences
<1>5. (x = y) <=> /\ x.failed = y.failed /\ x.suppressed = y.suppressed
                  /\ x.optOut = y.optOut
  BY <1>3, <1>4 DEF EmailPreferences
<1> QED BY <1>1, <1>2, <1>3, <1>4, <1>5 DEF Alike

(* Mail that is allowed is of no kind that the preferences refuse.         *)
LEMMA AllowedKinds ==
    ASSUME NEW m \in Mails, NEW p \in EmailPreferences, IsDeliveryAllowed(m, p),
           NEW D, D \subseteq Denied(p)
    PROVE  Kinds(m) \cap D = {}
<1>1. Kinds(m) \cap p.optOut = {} /\ m.template.category \notin p.suppressed
  BY DEF IsDeliveryAllowed
<1>2. p.suppressed \subseteq EmailCategory
  BY DEF EmailPreferences
<1>3. \A x \in Kinds(m) : x = m.template.category \/ x \in Clubs
  BY MailShape DEF Kinds
<1>4. \A x \in Clubs : x \notin EmailCategory
  BY PipelineAssumption
<1> QED BY <1>1, <1>2, <1>3, <1>4 DEF Denied
-----------------------------------------------------------------------------
(* Where a mail is.                                                        *)

(* The places of mails do not change but for those that are given up.      *)
LEMMA PlacesShrink ==
    ASSUME OnePlace, UNCHANGED <<queue, later, handed>>, DOMAIN desk' = DOMAIN desk,
           \A d \in DOMAIN desk : \A m \in d : Undispatched(d, m)' => Undispatched(d, m),
           \A x \in Workers : worker'[x] # NULL =>
              worker[x] # NULL /\ worker'[x].mail = worker[x].mail
    PROVE  OnePlace'
<1>1. \A m : Worked(m)' => Worked(m)
  BY DEF Worked
<1>2. \A m : Queued(m)' <=> Queued(m)
  BY DEF Queued
<1>3. \A d \in DOMAIN desk' : \A m \in d : Undispatched(d, m)' =>
          ~Queued(m)' /\ m \notin later' /\ ~Worked(m)' /\ handed'[m] = 0
  BY <1>1, <1>2 DEF OnePlace
<1>4. \A m \in Mails : Queued(m)' => m \notin later' /\ ~Worked(m)' /\ handed'[m] = 0
  BY <1>1, <1>2 DEF OnePlace
<1>5. \A m \in later' : ~Worked(m)' /\ handed'[m] = 0
  BY <1>1 DEF OnePlace
<1>6. \A w \in Workers : worker'[w] # NULL => handed'[worker'[w].mail] = 0
  BY DEF OnePlace
<1>7. \A w, x \in Workers : /\ worker'[w] # NULL /\ worker'[x] # NULL
                            /\ worker'[w].mail = worker'[x].mail
                            => w = x
  BY DEF OnePlace
<1>8. (\A i, j \in 1 .. Len(queue) : queue[i] = queue[j] => i = j)'
  BY DEF OnePlace
<1>9. AtMostOnce'
  BY DEF OnePlace, AtMostOnce
<1> QED BY <1>3, <1>4, <1>5, <1>6, <1>7, <1>8, <1>9 DEF OnePlace

(* A mail is put at the end of the queue from elsewhere.                   *)
LEMMA QueueGrows ==
    ASSUME NEW m \in Mails, queue \in Seq(Mails), queue' = Append(queue, m)
    PROVE  /\ \A x : Queued(x)' <=> Queued(x) \/ x = m
           /\ (\A i, j \in 1 .. Len(queue) : queue[i] = queue[j] => i = j) /\ ~Queued(m) =>
                 (\A i, j \in 1 .. Len(queue) : queue[i] = queue[j] => i = j)'
<1>1. /\ Len(queue') = Len(queue) + 1 /\ Len(queue) \in Nat /\ queue'[Len(queue) + 1] = m
      /\ \A i \in 1 .. Len(queue) : queue'[i] = queue[i]
  OBVIOUS
<1>2. PICK n \in Nat : n = Len(queue) /\ Len(queue') = n + 1
  BY <1>1
<1>3. \A i \in 1 .. n + 1 : i \in 1 .. n \/ i = n + 1
  BY <1>2
<1>4. ASSUME NEW x
      PROVE  Queued(x)' <=> Queued(x) \/ x = m
  <2>1. n + 1 \in 1 .. n + 1 /\ \A i \in 1 .. n : i \in 1 .. n + 1
    BY <1>2
  <2> QED BY <1>1, <1>2, <1>3, <2>1 DEF Queued
<1>5. ASSUME \A i, j \in 1 .. n : queue[i] = queue[j] => i = j, ~Queued(m),
             NEW i \in 1 .. n + 1, NEW j \in 1 .. n + 1, queue'[i] = queue'[j]
      PROVE  i = j
  <2>1. \A k \in 1 .. n : queue'[k] = queue[k] /\ queue[k] # m
    BY <1>1, <1>2, <1>5 DEF Queued
  <2>2. queue'[n + 1] = m
    BY <1>1, <1>2
  <2> QED BY <1>3, <1>5, <2>1, <2>2
<1> QED BY <1>2, <1>4, <1>5

(* The first mail of the queue is taken.                                   *)
LEMMA QueueShrinks ==
    ASSUME queue \in Seq(Mails), queue # <<>>, queue' = Tail(queue),
           \A i, j \in 1 .. Len(queue) : queue[i] = queue[j] => i = j
    PROVE  /\ \A x : Queued(x)' <=> Queued(x) /\ x # Head(queue)
           /\ (\A i, j \in 1 .. Len(queue) : queue[i] = queue[j] => i = j)'
           /\ Queued(Head(queue)) /\ Head(queue) \in Mails
<1>1. PICK n \in Nat \ {0} : n = Len(queue)
  OBVIOUS
<1>2. /\ Len(queue') = n - 1 /\ Head(queue) = queue[1]
      /\ \A i \in 1 .. n - 1 : queue'[i] = queue[i + 1]
  BY <1>1
<1>3. \A i \in 1 .. n - 1 : i + 1 \in 1 .. n
  BY <1>1
<1>4. \A i \in 1 .. n : i = 1 \/ (i - 1 \in 1 .. n - 1 /\ (i - 1) + 1 = i)
  BY <1>1
<1>5. 1 \in 1 .. n /\ Queued(Head(queue)) /\ Head(queue) \in Mails
  BY <1>1, <1>2 DEF Queued
<1>6. ASSUME NEW x
      PROVE  Queued(x)' <=> Queued(x) /\ x # Head(queue)
  <2>1. ASSUME NEW i \in 1 .. n - 1, queue'[i] = x
        PROVE  Queued(x) /\ x # Head(queue)
    <3>1. i + 1 \in 1 .. n /\ i + 1 # 1 /\ queue[i + 1] = x
      BY <1>2, <1>3, <2>1
    <3> QED BY <1>1, <1>2, <1>5, <3>1 DEF Queued
  <2>2. ASSUME NEW i \in 1 .. n, queue[i] = x, x # Head(queue)
        PROVE  \E k \in 1 .. n - 1 : queue'[k] = x
    BY <1>2, <1>4, <2>2
  <2> QED BY <1>1, <1>2, <2>1, <2>2 DEF Queued
<1>7. ASSUME NEW i \in 1 .. n - 1, NEW j \in 1 .. n - 1, queue'[i] = queue'[j]
      PROVE  i = j
  <2>1. queue[i + 1] = queue[j + 1] /\ i + 1 \in 1 .. n /\ j + 1 \in 1 .. n
    BY <1>2, <1>3, <1>7
  <2>2. i + 1 = j + 1
    BY <1>1, <2>1
  <2> QED BY <2>2
<1> QED BY <1>1, <1>2, <1>5, <1>6, <1>7
-----------------------------------------------------------------------------
(* What is refused stays refused.                                          *)
PrefsGrow ==
    \A e \in Addresses : prefs[e] # NULL =>
       prefs'[e] # NULL /\ Denied(prefs[e]) \subseteq Denied(prefs'[e])
CacheMoves ==
    \A e \in Addresses : cache'[e] # NULL =>
       \/ cache[e] # NULL /\ cache'[e] = cache[e] /\ (e \in stale => e \in stale')
       \/ e \in stale'
       \/ prefs[e] # NULL /\ Denied(prefs[e]) \subseteq Denied(cache'[e])

(* No step that only adds to refusals, and that caches what is in the      *)
(* database or marks it stale, takes back what an address is refused.      *)
LEMMA HonouredStays ==
    ASSUME PrefsGrow, CacheMoves, NEW e \in Addresses, NEW D
    PROVE  (Refused(e, D) => Refused(e, D)') /\ (Honoured(e, D) => Honoured(e, D)')
<1>1. Refused(e, D) => Refused(e, D)'
  BY DEF Refused, PrefsGrow
<1>2. ASSUME Honoured(e, D), cache'[e] # NULL, e \notin stale'
      PROVE  D \subseteq Denied(cache'[e])
  <2>1. CASE cache[e] # NULL /\ cache'[e] = cache[e] /\ (e \in stale => e \in stale')
    BY <1>2, <2>1 DEF Honoured
  <2>2. CASE prefs[e] # NULL /\ Denied(prefs[e]) \subseteq Denied(cache'[e])
    BY <1>2, <2>2 DEF Honoured, Refused
  <2> QED BY <1>2, <2>1, <2>2 DEF CacheMoves
<1>3. Honoured(e, D) => Honoured(e, D)'
  BY <1>1, <1>2 DEF Honoured
<1> QED BY <1>1, <1>3

(* A job that goes on as it is keeps what its recipient need not expect.   *)
LEMMA JobStays ==
    ASSUME PrefsGrow, CacheMoves, NEW j \in Jobs, JobOK(j)
    PROVE  JobOK(j)'
<1>1. j.mail.to \in Addresses
  BY MailShape DEF Jobs
<1>2. Honoured(j.mail.to, j.owed)'
  BY <1>1, HonouredStays DEF JobOK
<1>3. j.pc = "save" => prefs'[j.mail.to] # NULL
  BY <1>1 DEF JobOK, PrefsGrow
<1> QED BY <1>2, <1>3 DEF JobOK

(* What a step must show of the workers, the webhooks and the              *)
(* unsubscriptions that it moves; the others are as before.                *)
LEMMA StateStays ==
    ASSUME Types, RequestsOK, Kept, PrefsGrow, CacheMoves, blocked \subseteq blocked',
           UNCHANGED workload,
           \A e \in Addresses : cache'[e] # NULL => prefs'[e] # NULL,
           \A e \in Addresses \ blocked' :
              answered'[e] = answered[e] \/ Honoured(e, answered[e])',
           \A w \in Workers : worker'[w] # NULL => worker'[w] = worker[w] \/ JobOK(worker[w])',
           \A h \in workload.events : hook'[h] = hook[h] \/ HookOK(h)',
           \A u \in workload.unsubs : unsub'[u] = unsub[u] \/ UnsubOK(u)'
    PROVE  RequestsOK' /\ Kept'
<1>1. ASSUME NEW e \in Addresses \ blocked'
      PROVE  Honoured(e, answered[e])'
  <2>1. PICK D : D = answered[e]
    OBVIOUS
  <2>2. Honoured(e, D)
    BY <2>1 DEF Kept
  <2>3. Honoured(e, D)'
    BY <2>2, HonouredStays
  <2>4. CASE answered'[e] = answered[e]
    BY <2>1, <2>3, <2>4 DEF Honoured, Refused
  <2> QED BY <2>4
<1>2. ASSUME NEW w \in Workers, worker'[w] # NULL
      PROVE  JobOK(worker[w])'
  <2>1. CASE worker'[w] = worker[w]
    <3>1. PICK j \in Jobs : j = worker[w]
      BY <1>2, <2>1 DEF Types
    <3>2. JobOK(j)
      BY <1>2, <2>1, <3>1 DEF Kept
    <3>3. JobOK(j)'
      BY <3>2, JobStays
    <3> QED BY <2>1, <3>1, <3>3 DEF JobOK, Honoured, Refused
  <2> QED BY <1>2, <2>1
<1>3. ASSUME NEW h \in workload.events
      PROVE  HookOK(h)'
  <2>1. h.to \in Addresses
    BY WorkloadShape DEF Types
  <2>2. CASE hook'[h] = hook[h]
    <3>1. HookOK(h)
      BY DEF RequestsOK
    <3>2. hook'[h] = "write" => prefs'[h.to] # NULL
      BY <2>1, <2>2, <3>1 DEF HookOK, PrefsGrow
    <3>3. hook'[h] = "evict" => Refused(h.to, Owes(h))'
      BY <2>1, <2>2, <3>1, HonouredStays DEF HookOK
    <3>4. hook'[h] = "key" /\ h.to \notin blocked' => Honoured(h.to, Owes(h))'
      BY <2>1, <2>2, <3>1, HonouredStays DEF HookOK
    <3> QED BY <3>2, <3>3, <3>4 DEF HookOK
  <2> QED BY <2>2
<1>4. ASSUME NEW u \in workload.unsubs
      PROVE  UnsubOK(u)'
  <2>1. u.to \in Addresses
    BY WorkloadShape DEF Types
  <2>2. CASE unsub'[u] = unsub[u]
    <3>1. UnsubOK(u)
      BY DEF RequestsOK
    <3>2. unsub'[u] = "write" => prefs'[u.to] # NULL
      BY <2>1, <2>2, <3>1 DEF UnsubOK, PrefsGrow
    <3>3. unsub'[u] = "evict" => Refused(u.to, {u.scope})'
      BY <2>1, <2>2, <3>1, HonouredStays DEF UnsubOK
    <3> QED BY <3>2, <3>3 DEF UnsubOK
  <2> QED BY <2>2
<1>5. RequestsOK'
  BY <1>3, <1>4 DEF RequestsOK
<1>6. Kept'
  BY <1>1, <1>2 DEF Kept
<1> QED BY <1>5, <1>6

(* What is about to evict the cached preferences of e.                     *)
Evicting(e) ==
    \/ \E h \in DOMAIN hook : h.to = e /\ hook[h] = "evict"
    \/ \E u \in DOMAIN unsub : u.to = e /\ unsub[u] = "evict"

(* An address is left alone, or its cached entry is accounted for.         *)
LEMMA CoherentStays ==
    ASSUME CacheCoherent,
           \A e \in Addresses : cache'[e] # NULL =>
              \/ e \in stale' \/ Alike(cache'[e], prefs'[e]) \/ Evicting(e)'
              \/ /\ cache'[e] = cache[e] /\ (e \in stale => e \in stale')
                 /\ Alike(prefs[e], prefs'[e]) /\ (Evicting(e) => Evicting(e)')
    PROVE  CacheCoherent'
<1>1. ASSUME NEW e \in Addresses, cache'[e] # NULL, ~Alike(cache'[e], prefs'[e]),
             e \notin stale'
      PROVE  Evicting(e)'
  <2>1. CASE /\ cache'[e] = cache[e] /\ (e \in stale => e \in stale')
             /\ Alike(prefs[e], prefs'[e]) /\ (Evicting(e) => Evicting(e)')
    <3>1. ~Alike(cache[e], prefs[e])
      BY <1>1, <2>1 DEF Alike
    <3>2. Evicting(e)
      BY <1>1, <2>1, <3>1 DEF CacheCoherent, Evicting
    <3> QED BY <2>1, <3>2
  <2> QED BY <1>1, <2>1
<1> QED BY <1>1 DEF CacheCoherent, Evicting
-----------------------------------------------------------------------------
(* The jobs of the worker.                                                 *)

(* A step of the job of w that changes nothing but the job, which becomes  *)
(* j or is over.                                                           *)
LEMMA ReadsKeep ==
    ASSUME IInv, NEW w \in Workers, worker[w] # NULL, NEW j \in Jobs \cup {NULL}, Reads(w, j),
           j # NULL => /\ j.mail = worker[w].mail /\ JobOK(j)
                       /\ j.pc = "save" => j.prefs # NULL
    PROVE  IInv'
<1>1. /\ worker' = [worker EXCEPT ![w] = j]
      /\ UNCHANGED <<prefs, blocked, cache, lock, queue, later, handed, desk, hook, seen, unsub,
                     answered, stale, workload>>
  BY DEF Reads, Working, Continue, requests
<1>2. Types /\ OnePlace /\ RequestsOK /\ Kept /\ CacheCoherent
  BY DEF IInv
<1>3. /\ worker' \in [Workers -> Jobs \cup {NULL}] /\ worker'[w] = j
      /\ \A x \in Workers \ {w} : worker'[x] = worker[x]
  BY <1>1, <1>2 DEF Types
<1>4. \A x \in Workers : worker'[x] # NULL /\ worker'[x].pc = "save" => worker'[x].prefs # NULL
  BY <1>2, <1>3 DEF Types
<1>5. Types'
  BY <1>1, <1>2, <1>3, <1>4 DEF Types, Desks
<1>6. OnePlace'
  <2>1. \A x \in Workers : worker'[x] # NULL =>
           worker[x] # NULL /\ worker'[x].mail = worker[x].mail
    BY <1>3
  <2>2. \A d \in DOMAIN desk : \A m \in d : Undispatched(d, m)' => Undispatched(d, m)
    BY <1>1 DEF Undispatched
  <2> QED BY <1>1, <1>2, <2>1, <2>2, PlacesShrink
<1>7. PrefsGrow /\ CacheMoves
  BY <1>1 DEF PrefsGrow, CacheMoves
<1>8. \A x \in Workers : worker'[x] # NULL => worker'[x] = worker[x] \/ JobOK(worker[x])'
  <2>1. j # NULL => JobOK(j)'
    BY <1>1 DEF JobOK, Honoured, Refused
  <2>2. j # NULL => JobOK(worker[w])'
    BY <1>3, <2>1 DEF JobOK, Honoured, Refused
  <2> QED BY <1>3, <2>2
<1>9. \A e \in Addresses : cache'[e] # NULL => prefs'[e] # NULL
  BY <1>1, <1>2 DEF Kept
<1>10. RequestsOK' /\ Kept'
  BY <1>1, <1>2, <1>7, <1>8, <1>9, StateStays
<1>11. CacheCoherent'
  BY <1>1, <1>2 DEF CacheCoherent
<1> QED BY <1>5, <1>6, <1>10, <1>11 DEF IInv

(* What is known of the job of w.                                          *)
LEMMA TheJob ==
    ASSUME IInv, NEW w \in Workers, worker[w] # NULL
    PROVE  /\ worker[w] \in Jobs /\ worker[w].mail \in Mails /\ Owner(w) \in Addresses
           /\ JobOK(worker[w])
           /\ prefs[Owner(w)] \in EmailPreferences \cup {NULL}
           /\ cache[Owner(w)] \in EmailPreferences \cup {NULL}
<1>1. worker[w] \in Jobs /\ JobOK(worker[w])
  BY DEF IInv, Types, Kept
<1>2. worker[w].mail \in Mails /\ Owner(w) \in Addresses
  BY <1>1, MailShape DEF Jobs, Owner
<1> QED BY <1>1, <1>2 DEF IInv, Types

(* The preferences p decide whether the job goes on.                       *)
LEMMA ResolvedJob ==
    ASSUME NEW w \in Workers, worker[w] \in Jobs, NEW p \in EmailPreferences,
           NEW j, j = Resolved(w, p), j # NULL
    PROVE  /\ j \in Jobs /\ j.mail = worker[w].mail /\ j.owed = worker[w].owed
           /\ j.excused = worker[w].excused /\ j.pc \in {"postpone", "gate", "send"}
           /\ j.pc = "send" => IsDeliveryAllowed(j.mail, p)
<1>1. PICK k \in Jobs : k = worker[w]
  OBVIOUS
<1>2. \A pc \in {"postpone", "gate", "send"} :
         LET l == [k EXCEPT !.pc = pc, !.prefs = NULL]
         IN  /\ l \in Jobs /\ l.mail = k.mail /\ l.owed = k.owed /\ l.excused = k.excused
             /\ l.pc = pc
  BY DEF Jobs
<1>3. \/ j = [k EXCEPT !.pc = "postpone", !.prefs = NULL]
      \/ j = [k EXCEPT !.pc = "gate", !.prefs = NULL]
      \/ j = [k EXCEPT !.pc = "send", !.prefs = NULL] /\ IsDeliveryAllowed(k.mail, p)
  BY <1>1 DEF Resolved
<1>4. CASE j = [k EXCEPT !.pc = "postpone", !.prefs = NULL]
  BY <1>1, <1>2, <1>4
<1>5. CASE j = [k EXCEPT !.pc = "gate", !.prefs = NULL]
  BY <1>1, <1>2, <1>5
<1>6. CASE j = [k EXCEPT !.pc = "send", !.prefs = NULL] /\ IsDeliveryAllowed(k.mail, p)
  <2>1. j.mail = k.mail
    BY <1>2, <1>6
  <2> QED BY <1>1, <1>2, <1>6, <2>1
<1> QED BY <1>3, <1>4, <1>5, <1>6

(* A job goes on to a step at which nothing is asked of it.                *)
LEMMA Onward ==
    ASSUME NEW j \in Jobs, JobOK(j),
           NEW pc \in {"quota", "find", "read", "postpone", "gate", "lock"}
    PROVE  [j EXCEPT !.pc = pc] \in Jobs /\ [j EXCEPT !.pc = pc].mail = j.mail
           /\ JobOK([j EXCEPT !.pc = pc]) /\ [j EXCEPT !.pc = pc].pc # "save"
<1>1. PICK k : k = [j EXCEPT !.pc = pc]
  OBVIOUS
<1>2. k \in Jobs /\ k.mail = j.mail /\ k.owed = j.owed /\ k.pc = pc
  BY <1>1 DEF Jobs
<1>3. JobOK(k)
  BY <1>2 DEF JobOK
<1> QED BY <1>1, <1>2, <1>3

(* The quota, or the staleness of the mail, decides where the job goes on. *)
LEMMA QuotaStep ==
    ASSUME IInv, NEW w \in Workers, IsQuotaLockActive(w) \/ IsStaleLowPriorityTask(w)
    PROVE  IInv'
<1>1. worker[w] # NULL /\ worker[w] \in Jobs /\ JobOK(worker[w])
  BY TheJob DEF IsQuotaLockActive, IsStaleLowPriorityTask, At
<1>2. PICK pc \in {"postpone", "find", "gate"} : Reads(w, Then(w, pc))
  <2>1. CASE IsQuotaLockActive(w)
    <3>1. PICK to : to = IF lock /\ ~High(w) THEN "postpone" ELSE "find"
      OBVIOUS
    <3>2. Reads(w, Then(w, to))
      BY <2>1, <3>1 DEF IsQuotaLockActive
    <3> QED BY <3>1, <3>2
  <2>2. CASE IsStaleLowPriorityTask(w)
    BY <2>2 DEF IsStaleLowPriorityTask
  <2> QED BY <2>1, <2>2
<1>3. PICK k \in Jobs : k = worker[w]
  BY <1>1
<1>4. PICK j : j = [k EXCEPT !.pc = pc]
  OBVIOUS
<1>5. JobOK(k) /\ pc \in {"quota", "find", "read", "postpone", "gate", "lock"}
  BY <1>1, <1>3
<1>6. j \in Jobs /\ j.mail = k.mail /\ JobOK(j) /\ j.pc # "save"
  BY <1>4, <1>5, Onward
<1>7. Reads(w, j)
  BY <1>2, <1>3, <1>4 DEF Then
<1> QED BY <1>1, <1>3, <1>6, <1>7, ReadsKeep

(* The job fails.                                                          *)
LEMMA FailStep ==
    ASSUME IInv, NEW w \in Workers, Fail(w)
    PROVE  IInv'
<1>1. worker[w] # NULL /\ Reads(w, NULL)
  BY DEF Fail
<1> QED BY <1>1, ReadsKeep

(* The cached preferences decide, if there are any.  What the recipient    *)
(* need not expect is in them, or the entry is stale.                      *)
LEMMA FindStep ==
    ASSUME IInv, NEW w \in Workers, FindCachedPreferences(w)
    PROVE  IInv'
<1>1. worker[w] # NULL /\ worker[w] \in Jobs /\ JobOK(worker[w]) /\ worker[w].mail \in Mails
      /\ cache[Owner(w)] \in EmailPreferences \cup {NULL}
  BY TheJob DEF FindCachedPreferences, At
<1>2. PICK k \in Jobs : k = worker[w]
  BY <1>1
<1>3. CASE cache[Owner(w)] = NULL
  <2>1. PICK j : j = [k EXCEPT !.pc = "read"]
    OBVIOUS
  <2>2. j \in Jobs /\ j.mail = worker[w].mail /\ JobOK(j) /\ j.pc # "save"
    BY <1>1, <1>2, <2>1, Onward
  <2>3. Reads(w, j)
    BY <1>2, <1>3, <2>1 DEF FindCachedPreferences, Then
  <2> QED BY <1>1, <2>2, <2>3, ReadsKeep
<1>4. CASE cache[Owner(w)] # NULL
  <2>1. PICK p \in EmailPreferences : p = cache[Owner(w)]
    BY <1>1, <1>4
  <2>2. PICK j : j = Resolved(w, p)
    OBVIOUS
  <2>3. CASE j = NULL
    <3>1. Reads(w, NULL)
      BY <1>4, <2>1, <2>2, <2>3 DEF FindCachedPreferences
    <3> QED BY <1>1, <3>1, ReadsKeep
  <2>4. CASE j # NULL
    <3>1. /\ j \in Jobs /\ j.mail = worker[w].mail /\ j.owed = worker[w].owed
          /\ j.pc \in {"postpone", "gate", "send"}
          /\ j.pc = "send" => IsDeliveryAllowed(j.mail, p)
      BY <1>1, <2>2, <2>4, ResolvedJob
    <3>2. PICK b \in BOOLEAN : b = (j.pc = "send" /\ Owner(w) \in stale)
      OBVIOUS
    <3>3. PICK l : l = [j EXCEPT !.excused = b]
      OBVIOUS
    <3>4. /\ l \in Jobs /\ l.mail = j.mail /\ l.owed = j.owed /\ l.pc = j.pc
          /\ l.excused = b
      BY <3>1, <3>3 DEF Jobs
    <3>5. Reads(w, l)
      BY <1>4, <2>1, <2>2, <2>4, <3>2, <3>3 DEF FindCachedPreferences
    <3>6. Honoured(l.mail.to, l.owed)
      BY <1>1, <3>1, <3>4 DEF JobOK
    <3>7. ASSUME l.pc = "send", ~l.excused
          PROVE  Kinds(l.mail) \cap l.owed = {}
      <4>1. Owner(w) \notin stale /\ l.mail.to = Owner(w)
        BY <3>1, <3>2, <3>4, <3>7 DEF Owner
      <4>2. l.owed \subseteq Denied(p)
        BY <1>4, <2>1, <3>6, <4>1 DEF Honoured
      <4>3. IsDeliveryAllowed(l.mail, p) /\ l.mail \in Mails
        BY <1>1, <3>1, <3>4, <3>7
      <4> QED BY <4>2, <4>3, AllowedKinds
    <3>8. JobOK(l) /\ l.pc # "save"
      BY <3>1, <3>4, <3>6, <3>7 DEF JobOK
    <3> QED BY <1>1, <3>1, <3>4, <3>5, <3>8, ReadsKeep
  <2> QED BY <2>3, <2>4
<1> QED BY <1>3, <1>4

(* Preferences read from the database refuse what they must; an address    *)
(* without an account is owed nothing.                                     *)
LEMMA ReadStep ==
    ASSUME IInv, NEW w \in Workers, FindPreferencesByEmail(w)
    PROVE  IInv'
<1>1. worker[w] # NULL /\ worker[w] \in Jobs /\ JobOK(worker[w]) /\ worker[w].mail \in Mails
      /\ prefs[Owner(w)] \in EmailPreferences \cup {NULL}
  BY TheJob DEF FindPreferencesByEmail, At
<1>2. PICK k \in Jobs : k = worker[w]
  BY <1>1
<1>3. Honoured(k.mail.to, k.owed) /\ k.mail.to = Owner(w)
  BY <1>1, <1>2 DEF JobOK, Owner
<1>4. CASE prefs[Owner(w)] = NULL
  <2>1. NewPreferences \in EmailPreferences
    BY DEF NewPreferences, EmailPreferences
  <2>2. PICK j : j = Resolved(w, NewPreferences)
    OBVIOUS
  <2>3. Reads(w, j)
    BY <1>4, <2>2 DEF FindPreferencesByEmail
  <2>4. ASSUME j # NULL
        PROVE  j \in Jobs /\ j.mail = worker[w].mail /\ JobOK(j) /\ j.pc # "save"
    <3>1. j \in Jobs /\ j.mail = k.mail /\ j.owed = k.owed /\ j.pc \in {"postpone", "gate", "send"}
      BY <1>1, <1>2, <2>1, <2>2, <2>4, ResolvedJob
    <3>2. j.owed = {}
      BY <1>3, <1>4, <3>1 DEF Honoured, Refused
    <3>3. JobOK(j)
      BY <1>3, <3>1, <3>2 DEF JobOK
    <3> QED BY <1>2, <3>1, <3>3
  <2> QED BY <1>1, <2>3, <2>4, ReadsKeep
<1>5. CASE prefs[Owner(w)] # NULL
  <2>1. PICK p \in EmailPreferences : p = prefs[Owner(w)]
    BY <1>1, <1>5
  <2>2. PICK j : j = [k EXCEPT !.pc = "save", !.prefs = p]
    OBVIOUS
  <2>3. j \in Jobs /\ j.mail = k.mail /\ j.owed = k.owed /\ j.pc = "save" /\ j.prefs = p
    BY <2>2 DEF Jobs
  <2>4. Reads(w, j)
    BY <1>2, <1>5, <2>1, <2>2 DEF FindPreferencesByEmail
  <2>5. j.owed \subseteq Denied(p)
    BY <1>3, <2>1, <2>3 DEF Honoured, Refused
  <2>6. JobOK(j)
    BY <1>3, <1>5, <2>3, <2>5 DEF JobOK
  <2>7. p # NULL
    BY NotNull
  <2> QED BY <1>1, <1>2, <2>3, <2>4, <2>6, <2>7, ReadsKeep
<1> QED BY <1>1, <1>4, <1>5

(* The task starts: from here on it keeps what was answered.               *)
LEMMA GateStep ==
    ASSUME IInv, NEW w \in Workers, IsExternalSuppressed(w)
    PROVE  IInv'
<1>1. worker[w] # NULL /\ worker[w] \in Jobs /\ Owner(w) \in Addresses
  BY TheJob DEF IsExternalSuppressed, At
<1>2. CASE Owner(w) \in blocked
  <2>1. Reads(w, NULL)
    BY <1>2 DEF IsExternalSuppressed
  <2> QED BY <1>1, <2>1, ReadsKeep
<1>3. CASE Owner(w) \notin blocked
  <2>1. PICK k \in Jobs : k = worker[w]
    BY <1>1
  <2>2. PICK D \in SUBSET Scopes : D = answered[Owner(w)]
    BY <1>1 DEF IInv, Types
  <2>3. PICK j : j = [k EXCEPT !.pc = "find", !.phase = "task", !.owed = D]
    OBVIOUS
  <2>4. j \in Jobs /\ j.mail = k.mail /\ j.owed = D /\ j.pc = "find"
    BY <2>3 DEF Jobs
  <2>5. Reads(w, j)
    BY <1>3, <2>1, <2>2, <2>3 DEF IsExternalSuppressed
  <2>6. Honoured(Owner(w), D)
    BY <1>1, <1>3, <2>2 DEF IInv, Kept
  <2>7. JobOK(j)
    BY <2>1, <2>4, <2>6 DEF JobOK, Owner
  <2> QED BY <1>1, <2>1, <2>4, <2>5, <2>7, ReadsKeep
<1> QED BY <1>2, <1>3

(* A step that only moves mails and jobs.                                  *)
LEMMA OthersStay ==
    ASSUME IInv, UNCHANGED <<prefs, blocked, cache, stale, hook, unsub, answered, workload>>,
           \A w \in Workers : worker'[w] # NULL => worker'[w] = worker[w] \/ JobOK(worker[w])'
    PROVE  RequestsOK' /\ Kept' /\ CacheCoherent'
<1>1. Types /\ RequestsOK /\ Kept /\ CacheCoherent
  BY DEF IInv
<1>2. PrefsGrow /\ CacheMoves
  BY DEF PrefsGrow, CacheMoves
<1>3. \A e \in Addresses : cache'[e] # NULL => prefs'[e] # NULL
  BY <1>1 DEF Kept
<1>4. RequestsOK' /\ Kept'
  BY <1>1, <1>2, <1>3, StateStays
<1>5. CacheCoherent'
  BY <1>1 DEF CacheCoherent
<1> QED BY <1>4, <1>5

(* The job of w is over, and its mail with it.                             *)
LEMMA JobEnds ==
    ASSUME IInv, NEW w \in Workers, worker' = [worker EXCEPT ![w] = NULL]
    PROVE  /\ worker' \in [Workers -> Jobs \cup {NULL}]
           /\ worker'[w] = NULL /\ \A x \in Workers \ {w} : worker'[x] = worker[x]
           /\ \A x \in Workers : worker'[x] # NULL => worker'[x] = worker[x]
           /\ \A x \in Workers : worker'[x] # NULL /\ worker'[x].pc = "save" =>
                 worker'[x].prefs # NULL
<1>1. /\ worker' \in [Workers -> Jobs \cup {NULL}]
      /\ worker'[w] = NULL /\ \A x \in Workers \ {w} : worker'[x] = worker[x]
  BY DEF IInv, Types
<1>2. \A x \in Workers : worker'[x] # NULL => worker'[x] = worker[x]
  BY <1>1
<1>3. \A x \in Workers : worker'[x] # NULL /\ worker'[x].pc = "save" => worker'[x].prefs # NULL
  BY <1>2 DEF IInv, Types
<1> QED BY <1>1, <1>2, <1>3

(* The mail of a job is nowhere else.                                      *)
LEMMA MailOfJob ==
    ASSUME IInv, NEW w \in Workers, worker[w] # NULL,
           NEW m, m = worker[w].mail
    PROVE  /\ m \in Mails /\ ~Queued(m) /\ m \notin later /\ handed[m] = 0
           /\ \A d \in DOMAIN desk : m \in d => ~Undispatched(d, m)
           /\ \A x \in Workers \ {w} : worker[x] # NULL => worker[x].mail # m
<1>1. m \in Mails
  BY TheJob
<1>2. Worked(m)
  BY DEF Worked
<1>3. OnePlace
  BY DEF IInv
<1> QED BY <1>1, <1>2, <1>3 DEF OnePlace

(* The mail is put off: it waits to be scheduled, and the job is over.     *)
LEMMA RequeueStep ==
    ASSUME IInv, NEW w \in Workers, Requeue(w)
    PROVE  IInv'
<1>1. /\ worker[w] # NULL /\ later' = later \cup {worker[w].mail}
      /\ worker' = [worker EXCEPT ![w] = NULL]
      /\ UNCHANGED <<prefs, blocked, cache, lock, queue, handed, desk, hook, seen, unsub,
                     answered, stale, workload>>
  BY DEF Requeue, At, Continue, requests
<1>2. PICK m : m = worker[w].mail
  OBVIOUS
<1>3. /\ m \in Mails /\ ~Queued(m) /\ m \notin later /\ handed[m] = 0
      /\ \A d \in DOMAIN desk : m \in d => ~Undispatched(d, m)
      /\ \A x \in Workers \ {w} : worker[x] # NULL => worker[x].mail # m
  BY <1>1, <1>2, MailOfJob
<1>4. /\ worker' \in [Workers -> Jobs \cup {NULL}]
      /\ worker'[w] = NULL /\ \A x \in Workers \ {w} : worker'[x] = worker[x]
      /\ \A x \in Workers : worker'[x] # NULL => worker'[x] = worker[x]
      /\ \A x \in Workers : worker'[x] # NULL /\ worker'[x].pc = "save" =>
            worker'[x].prefs # NULL
  BY <1>1, JobEnds
<1>5. Types'
  <2>1. Types
    BY DEF IInv
  <2>2. later' \in SUBSET Mails
    BY <1>1, <1>2, <1>3, <2>1 DEF Types
  <2> QED BY <1>1, <1>4, <2>1, <2>2 DEF Types, Desks
<1>6. OnePlace'
  <2>1. later' = later \cup {m}
    BY <1>1, <1>2
  <2>2. /\ \A x : Queued(x)' <=> Queued(x)
        /\ \A x : Worked(x)' => Worked(x) /\ x # m
        /\ \A d \in DOMAIN desk : \A x \in d : Undispatched(d, x)' <=> Undispatched(d, x)
    BY <1>1, <1>3, <1>4 DEF Queued, Worked, Undispatched
  <2>3. OnePlace
    BY DEF IInv
  <2>4. \A d \in DOMAIN desk' : \A x \in d : Undispatched(d, x)' =>
            ~Queued(x)' /\ x \notin later' /\ ~Worked(x)' /\ handed'[x] = 0
    BY <1>1, <1>3, <2>1, <2>2, <2>3 DEF OnePlace
  <2>5. \A x \in Mails : Queued(x)' => x \notin later' /\ ~Worked(x)' /\ handed'[x] = 0
    BY <1>1, <1>3, <2>1, <2>2, <2>3 DEF OnePlace
  <2>6. \A x \in later' : ~Worked(x)' /\ handed'[x] = 0
    BY <1>1, <1>3, <2>1, <2>2, <2>3 DEF OnePlace
  <2>7. /\ \A x \in Workers : worker'[x] # NULL => handed'[worker'[x].mail] = 0
        /\ \A x, y \in Workers : /\ worker'[x] # NULL /\ worker'[y] # NULL
                                 /\ worker'[x].mail = worker'[y].mail
                                 => x = y
    BY <1>1, <1>4, <2>3 DEF OnePlace
  <2>8. (\A i, j \in 1 .. Len(queue) : queue[i] = queue[j] => i = j)' /\ AtMostOnce'
    BY <1>1, <2>3 DEF OnePlace, AtMostOnce
  <2> QED BY <2>4, <2>5, <2>6, <2>7, <2>8 DEF OnePlace
<1>7. RequestsOK' /\ Kept' /\ CacheCoherent'
  BY <1>1, <1>4, OthersStay
<1> QED BY <1>5, <1>6, <1>7 DEF IInv

(* A mail is taken from the queue, by a worker that is owed nothing yet.   *)
LEMMA TakeStep ==
    ASSUME IInv, NEW w \in Workers, Take(w)
    PROVE  IInv'
<1>1. /\ worker[w] = NULL /\ queue # <<>> /\ queue' = Tail(queue)
      /\ UNCHANGED <<prefs, blocked, cache, lock, later, handed, desk, hook, seen, unsub,
                     answered, stale, workload>>
  BY DEF Take, requests
<1>2. Types /\ OnePlace /\ Kept
  BY DEF IInv
<1>3. queue \in Seq(Mails) /\ \A i, j \in 1 .. Len(queue) : queue[i] = queue[j] => i = j
  BY <1>2 DEF Types, OnePlace
<1>4. PICK m : m = Head(queue)
  OBVIOUS
<1>5. /\ \A x : Queued(x)' <=> Queued(x) /\ x # m
      /\ (\A i, j \in 1 .. Len(queue) : queue[i] = queue[j] => i = j)'
      /\ Queued(m) /\ m \in Mails
  BY <1>1, <1>3, <1>4, QueueShrinks
<1>6. PICK j : j = [mail |-> m, pc |-> "quota", phase |-> "hook", prefs |-> NULL,
                    owed |-> {}, excused |-> FALSE]
  OBVIOUS
<1>7. j \in Jobs /\ j.mail = m /\ j.pc = "quota" /\ j.owed = {}
  BY <1>5, <1>6 DEF Jobs
<1>8. worker' = [worker EXCEPT ![w] = j]
  BY <1>4, <1>6 DEF Take, Continue
<1>9. /\ worker' \in [Workers -> Jobs \cup {NULL}] /\ worker'[w] = j /\ j # NULL
      /\ \A x \in Workers \ {w} : worker'[x] = worker[x]
  BY <1>2, <1>7, <1>8, NotNull DEF Types
<1>10. Types'
  <2>1. \A x \in Workers : worker'[x] # NULL /\ worker'[x].pc = "save" => worker'[x].prefs # NULL
    BY <1>2, <1>7, <1>9 DEF Types
  <2>2. queue' \in Seq(Mails)
    BY <1>1, <1>3
  <2> QED BY <1>1, <1>2, <1>9, <2>1, <2>2 DEF Types, Desks
<1>11. OnePlace'
  <2>1. /\ \A x : Worked(x)' => Worked(x) \/ x = m
        /\ \A d \in DOMAIN desk : \A x \in d : Undispatched(d, x)' <=> Undispatched(d, x)
    BY <1>1, <1>7, <1>9 DEF Worked, Undispatched
  <2>2. m \notin later /\ ~Worked(m) /\ handed[m] = 0
    BY <1>2, <1>5 DEF OnePlace
  <2>3. \A d \in DOMAIN desk' : \A x \in d : Undispatched(d, x)' =>
            ~Queued(x)' /\ x \notin later' /\ ~Worked(x)' /\ handed'[x] = 0
    BY <1>1, <1>2, <1>5, <2>1 DEF OnePlace
  <2>4. \A x \in Mails : Queued(x)' => x \notin later' /\ ~Worked(x)' /\ handed'[x] = 0
    BY <1>1, <1>2, <1>5, <2>1 DEF OnePlace
  <2>5. \A x \in later' : ~Worked(x)' /\ handed'[x] = 0
    BY <1>1, <1>2, <2>1, <2>2 DEF OnePlace
  <2>6. \A x \in Workers : worker'[x] # NULL => handed'[worker'[x].mail] = 0
    BY <1>1, <1>2, <1>7, <1>9, <2>2 DEF OnePlace
  <2>7. \A x \in Workers \ {w} : worker'[x] # NULL => worker'[x].mail # m
    BY <1>9, <2>2 DEF Worked
  <2>8. \A x, y \in Workers : /\ worker'[x] # NULL /\ worker'[y] # NULL
                              /\ worker'[x].mail = worker'[y].mail
                              => x = y
    BY <1>2, <1>7, <1>9, <2>7 DEF OnePlace
  <2>9. AtMostOnce'
    BY <1>1, <1>2 DEF OnePlace, AtMostOnce
  <2> QED BY <1>5, <2>3, <2>4, <2>5, <2>6, <2>8, <2>9 DEF OnePlace
<1>12. RequestsOK' /\ Kept' /\ CacheCoherent'
  <2>1. m.to \in Addresses
    BY <1>5, MailShape
  <2>2. JobOK(j)'
    <3>1. Honoured(m.to, {})'
      BY DEF Honoured, Refused
    <3> QED BY <1>7, <3>1 DEF JobOK
  <2>3. JobOK(worker[w])'
    BY <1>9, <2>2 DEF JobOK, Honoured, Refused
  <2>4. \A x \in Workers : worker'[x] # NULL => worker'[x] = worker[x] \/ JobOK(worker[x])'
    BY <1>9, <2>3
  <2> QED BY <1>1, <2>4, OthersStay
<1> QED BY <1>10, <1>11, <1>12 DEF IInv

(* The job of w is over and nothing else moves but the lock.               *)
LEMMA EndKeeps ==
    ASSUME IInv, NEW w \in Workers, worker[w] # NULL, Working(w, NULL),
           UNCHANGED <<cache, stale, handed>>, lock' \in BOOLEAN
    PROVE  IInv'
<1>1. /\ worker' = [worker EXCEPT ![w] = NULL]
      /\ UNCHANGED <<prefs, blocked, cache, queue, later, handed, desk, hook, seen, unsub,
                     answered, stale, workload>>
  BY DEF Working, Continue, requests
<1>2. /\ worker' \in [Workers -> Jobs \cup {NULL}]
      /\ \A x \in Workers : worker'[x] # NULL => worker'[x] = worker[x]
      /\ \A x \in Workers : worker'[x] # NULL /\ worker'[x].pc = "save" =>
            worker'[x].prefs # NULL
  BY <1>1, JobEnds
<1>3. Types /\ OnePlace
  BY DEF IInv
<1>4. Types'
  BY <1>1, <1>2, <1>3 DEF Types, Desks
<1>5. OnePlace'
  <2>1. \A d \in DOMAIN desk : \A m \in d : Undispatched(d, m)' => Undispatched(d, m)
    BY <1>1 DEF Undispatched
  <2> QED BY <1>1, <1>2, <1>3, <2>1, PlacesShrink
<1>6. RequestsOK' /\ Kept' /\ CacheCoherent'
  BY <1>1, <1>2, OthersStay
<1> QED BY <1>4, <1>5, <1>6 DEF IInv

(* The provider takes the mail, or refuses it, or has no quota left.       *)
LEMMA SendStep ==
    ASSUME IInv, NEW w \in Workers, Send(w)
    PROVE  IInv'
<1>1. worker[w] # NULL /\ UNCHANGED <<cache, lock, stale>>
  BY DEF Send, At
<1>2. Types /\ OnePlace
  BY DEF IInv
<1>3. CASE Working(w, NULL) /\ handed' = [handed EXCEPT ![worker[w].mail] = @ + 1]
  <2>1. /\ worker' = [worker EXCEPT ![w] = NULL]
        /\ UNCHANGED <<prefs, blocked, cache, lock, queue, later, desk, hook, seen, unsub,
                       answered, stale, workload>>
    BY <1>1, <1>3 DEF Working, Continue, requests
  <2>2. PICK m : m = worker[w].mail
    OBVIOUS
  <2>3. /\ m \in Mails /\ ~Queued(m) /\ m \notin later /\ handed[m] = 0
        /\ \A d \in DOMAIN desk : m \in d => ~Undispatched(d, m)
        /\ \A x \in Workers \ {w} : worker[x] # NULL => worker[x].mail # m
    BY <1>1, <2>2, MailOfJob
  <2>4. /\ worker' \in [Workers -> Jobs \cup {NULL}] /\ worker'[w] = NULL
        /\ \A x \in Workers : worker'[x] # NULL => worker'[x] = worker[x]
        /\ \A x \in Workers : worker'[x] # NULL /\ worker'[x].pc = "save" =>
              worker'[x].prefs # NULL
    BY <2>1, JobEnds
  <2>5. /\ handed' \in [Mails -> Nat] /\ handed'[m] = 1
        /\ \A x : x # m => handed'[x] = handed[x] \/ x \notin Mails
    BY <1>2, <1>3, <2>2, <2>3 DEF Types
  <2>6. Types'
    BY <1>2, <2>1, <2>4, <2>5 DEF Types, Desks
  <2>7. OnePlace'
    <3>1. /\ \A x : Queued(x)' <=> Queued(x)
          /\ \A x : Worked(x)' => Worked(x) /\ x # m
          /\ \A d \in DOMAIN desk : \A x \in d : Undispatched(d, x)' <=> Undispatched(d, x)
      BY <2>1, <2>3, <2>4 DEF Queued, Worked, Undispatched
    <3>2. \A d \in DOMAIN desk : d \subseteq Mails
      BY <1>2, WorkloadShape DEF Types
    <3>3. \A d \in DOMAIN desk' : \A x \in d : Undispatched(d, x)' =>
              ~Queued(x)' /\ x \notin later' /\ ~Worked(x)' /\ handed'[x] = 0
      BY <1>2, <2>1, <2>3, <2>5, <3>1, <3>2 DEF OnePlace
    <3>4. \A x \in Mails : Queued(x)' => x \notin later' /\ ~Worked(x)' /\ handed'[x] = 0
      BY <1>2, <2>1, <2>3, <2>5, <3>1 DEF OnePlace
    <3>5. later \subseteq Mails
      BY <1>2 DEF Types
    <3>6. \A x \in later' : ~Worked(x)' /\ handed'[x] = 0
      BY <1>2, <2>1, <2>3, <2>5, <3>1, <3>5 DEF OnePlace
    <3>7. \A x \in Workers : worker'[x] # NULL =>
             worker[x] # NULL /\ worker'[x].mail = worker[x].mail /\ worker[x].mail # m
                /\ worker[x].mail \in Mails
      BY <2>3, <2>4, TheJob
    <3>8. \A x \in Workers : worker'[x] # NULL => handed'[worker'[x].mail] = 0
      BY <1>2, <2>5, <3>7 DEF OnePlace
    <3>9. \A x, y \in Workers : /\ worker'[x] # NULL /\ worker'[y] # NULL
                                /\ worker'[x].mail = worker'[y].mail
                                => x = y
      BY <1>2, <3>7 DEF OnePlace
    <3>10. (\A i, j \in 1 .. Len(queue) : queue[i] = queue[j] => i = j)'
      BY <1>2, <2>1 DEF OnePlace
    <3>11. AtMostOnce'
      BY <1>2, <2>5 DEF OnePlace, AtMostOnce
    <3> QED BY <3>3, <3>4, <3>6, <3>8, <3>9, <3>10, <3>11 DEF OnePlace
  <2>8. RequestsOK' /\ Kept' /\ CacheCoherent'
    BY <2>1, <2>4, OthersStay
  <2> QED BY <2>6, <2>7, <2>8 DEF IInv
<1>4. CASE Working(w, NULL) /\ UNCHANGED handed
  BY <1>1, <1>2, <1>4, EndKeeps DEF Types
<1>5. CASE Working(w, Then(w, "lock")) /\ UNCHANGED handed
  <2>1. worker[w] \in Jobs /\ JobOK(worker[w])
    BY <1>1, TheJob
  <2>2. PICK k \in Jobs : k = worker[w]
    BY <2>1
  <2>3. PICK j : j = [k EXCEPT !.pc = "lock"]
    OBVIOUS
  <2>4. j \in Jobs /\ j.mail = worker[w].mail /\ JobOK(j) /\ j.pc # "save"
    BY <2>1, <2>2, <2>3, Onward
  <2>5. Reads(w, j)
    BY <1>1, <1>5, <2>2, <2>3 DEF Then, Reads
  <2> QED BY <1>1, <2>4, <2>5, ReadsKeep
<1> QED BY <1>3, <1>4, <1>5 DEF Send

(* The quota is used up.                                                   *)
LEMMA QuotaLockStep ==
    ASSUME IInv, NEW w \in Workers, SaveQuotaLock(w)
    PROVE  IInv'
<1>1. worker[w] # NULL /\ Working(w, NULL) /\ UNCHANGED <<cache, stale, handed>>
      /\ lock' \in BOOLEAN
  BY DEF SaveQuotaLock, At
<1> QED BY <1>1, EndKeeps

(* What was read from the database is cached.  If it has changed since,    *)
(* the entry is stale.                                                     *)
LEMMA SaveStep ==
    ASSUME IInv, NEW w \in Workers, SavePreferences(w)
    PROVE  IInv'
<1>1. Types /\ OnePlace /\ RequestsOK /\ Kept /\ CacheCoherent
  BY DEF IInv
<1>2. /\ worker[w] # NULL /\ worker[w] \in Jobs /\ worker[w].mail \in Mails
      /\ Owner(w) \in Addresses /\ JobOK(worker[w]) /\ worker[w].pc = "save"
      /\ prefs[Owner(w)] \in EmailPreferences \cup {NULL}
  BY TheJob DEF SavePreferences, At
<1>3. PICK k \in Jobs : k = worker[w]
  BY <1>2
<1>4. PICK p \in EmailPreferences : p = worker[w].prefs
  BY <1>1, <1>2 DEF Types, Jobs
<1>5. PICK e \in Addresses : e = Owner(w)
  BY <1>2
<1>6. PICK j : j = Resolved(w, p)
  OBVIOUS
<1>7. /\ cache' = [cache EXCEPT ![e] = p]
      /\ stale' = IF Alike(p, prefs[e]) THEN stale \ {e} ELSE stale \cup {e}
      /\ worker' = [worker EXCEPT ![w] = j]
      /\ UNCHANGED <<prefs, blocked, lock, queue, later, handed, desk, hook, seen, unsub,
                     answered, workload>>
  BY <1>4, <1>5, <1>6 DEF SavePreferences, Working, Continue, requests
<1>8. /\ cache' \in [Addresses -> EmailPreferences \cup {NULL}] /\ cache'[e] = p
      /\ \A x \in Addresses \ {e} : cache'[x] = cache[x]
      /\ stale' \in SUBSET Addresses
  BY <1>1, <1>7 DEF Types
<1>9. j # NULL => /\ j \in Jobs /\ j.mail = k.mail /\ j.owed = k.owed
                  /\ j.pc \in {"postpone", "gate", "send"}
                  /\ j.pc = "send" => IsDeliveryAllowed(j.mail, p)
  BY <1>2, <1>3, <1>6, ResolvedJob
<1>10. /\ worker' \in [Workers -> Jobs \cup {NULL}] /\ worker'[w] = j
       /\ \A x \in Workers \ {w} : worker'[x] = worker[x]
  BY <1>1, <1>7, <1>9 DEF Types
<1>11. Types'
  <2>1. \A x \in Workers : worker'[x] # NULL /\ worker'[x].pc = "save" => worker'[x].prefs # NULL
    BY <1>1, <1>9, <1>10 DEF Types
  <2> QED BY <1>1, <1>7, <1>8, <1>10, <2>1 DEF Types, Desks
<1>12. OnePlace'
  <2>1. \A x \in Workers : worker'[x] # NULL =>
           worker[x] # NULL /\ worker'[x].mail = worker[x].mail
    BY <1>2, <1>3, <1>9, <1>10
  <2>2. \A d \in DOMAIN desk : \A m \in d : Undispatched(d, m)' => Undispatched(d, m)
    BY <1>7 DEF Undispatched
  <2> QED BY <1>1, <1>7, <2>1, <2>2, PlacesShrink
<1>13. prefs[e] \in EmailPreferences /\ Honoured(e, k.owed) /\ k.owed \subseteq Denied(p)
       /\ k.mail.to = e
  BY <1>2, <1>3, <1>4, <1>5 DEF JobOK, Owner
<1>14. Alike(p, prefs[e]) => Denied(prefs[e]) = Denied(p)
  BY <1>13, AlikeFields DEF Denied
<1>15. PrefsGrow /\ CacheMoves
  <2>1. PrefsGrow
    BY <1>7 DEF PrefsGrow
  <2>2. prefs[e] # NULL
    BY <1>13, NotNull
  <2>3. \/ e \in stale'
        \/ prefs[e] # NULL /\ Denied(prefs[e]) \subseteq Denied(cache'[e])
    BY <1>7, <1>8, <1>14, <2>2
  <2>4. \A x \in Addresses \ {e} : x \in stale => x \in stale'
    BY <1>7
  <2>5. CacheMoves
    BY <1>8, <2>3, <2>4 DEF CacheMoves
  <2> QED BY <2>1, <2>5
<1>16. RequestsOK' /\ Kept'
  <2>1. j # NULL => JobOK(j)'
    <3>1. ASSUME j # NULL
          PROVE  JobOK(j)'
      <4>1. PICK D : D = k.owed
        OBVIOUS
      <4>2. Honoured(e, D)'
        BY <1>13, <1>15, <4>1, HonouredStays
      <4>3. j.mail.to = e /\ j.owed = D
        BY <1>9, <1>13, <3>1, <4>1
      <4>4. j.pc = "send" => Kinds(j.mail) \cap j.owed = {}
        <5>1. j.mail \in Mails /\ j.owed \subseteq Denied(p)
          BY <1>2, <1>3, <1>9, <1>13, <3>1
        <5> QED BY <1>9, <3>1, <5>1, AllowedKinds
      <4> QED BY <1>9, <3>1, <4>2, <4>3, <4>4 DEF JobOK
    <3> QED BY <3>1
  <2>2. \A x \in Workers : worker'[x] # NULL => worker'[x] = worker[x] \/ JobOK(worker[x])'
    <3>1. worker'[w] # NULL => JobOK(worker[w])'
      BY <1>10, <2>1 DEF JobOK, Honoured, Refused
    <3> QED BY <1>10, <3>1
  <2>3. prefs[e] # NULL
    BY <1>13, NotNull
  <2>4. \A x \in Addresses : cache'[x] # NULL => prefs'[x] # NULL
    BY <1>1, <1>7, <1>8, <2>3 DEF Kept
  <2> QED BY <1>1, <1>7, <1>15, <2>2, <2>4, StateStays
<1>17. CacheCoherent'
  <2>1. e \in stale' \/ Alike(cache'[e], prefs'[e])
    BY <1>7, <1>8
  <2>2. \A x \in Addresses \ {e} : x \in stale => x \in stale'
    BY <1>7
  <2>3. \A x : Evicting(x) => Evicting(x)'
    BY <1>7 DEF Evicting
  <2>4. \A x : Alike(prefs[x], prefs'[x])
    BY <1>7 DEF Alike
  <2> QED BY <1>1, <1>8, <2>1, <2>2, <2>3, <2>4, CoherentStays
<1> QED BY <1>11, <1>12, <1>16, <1>17 DEF IInv
-----------------------------------------------------------------------------
(* The dispatchers and the schedule.                                       *)

(* A mail gets into the queue from where it was, and nothing else moves.   *)
LEMMA Queues ==
    ASSUME IInv, NEW m \in Mails, queue' = Append(queue, m),
           UNCHANGED <<worker, handed>>, DOMAIN desk' = DOMAIN desk,
           later' = later \ {m},
           \A d \in DOMAIN desk : \A x \in d : Undispatched(d, x)' => Undispatched(d, x) /\ x # m,
           ~Queued(m) /\ ~Worked(m) /\ handed[m] = 0
    PROVE  OnePlace'
<1>1. Types /\ OnePlace
  BY DEF IInv
<1>2. /\ \A x : Queued(x)' <=> Queued(x) \/ x = m
      /\ (\A i, j \in 1 .. Len(queue) : queue[i] = queue[j] => i = j)'
  <2>1. queue \in Seq(Mails) /\ \A i, j \in 1 .. Len(queue) : queue[i] = queue[j] => i = j
    BY <1>1 DEF Types, OnePlace
  <2> QED BY <2>1, QueueGrows
<1>3. \A x : Worked(x)' <=> Worked(x)
  BY DEF Worked
<1>4. \A d \in DOMAIN desk' : \A x \in d : Undispatched(d, x)' =>
          ~Queued(x)' /\ x \notin later' /\ ~Worked(x)' /\ handed'[x] = 0
  BY <1>1, <1>2, <1>3 DEF OnePlace
<1>5. \A x \in Mails : Queued(x)' => x \notin later' /\ ~Worked(x)' /\ handed'[x] = 0
  BY <1>1, <1>2, <1>3 DEF OnePlace
<1>6. \A x \in later' : ~Worked(x)' /\ handed'[x] = 0
  BY <1>1, <1>3 DEF OnePlace
<1>7. /\ \A x \in Workers : worker'[x] # NULL => handed'[worker'[x].mail] = 0
      /\ \A x, y \in Workers : /\ worker'[x] # NULL /\ worker'[y] # NULL
                               /\ worker'[x].mail = worker'[y].mail
                               => x = y
  BY <1>1 DEF OnePlace
<1>8. AtMostOnce'
  BY <1>1 DEF OnePlace, AtMostOnce
<1> QED BY <1>2, <1>4, <1>5, <1>6, <1>7, <1>8 DEF OnePlace

(* A scheduled job is due.                                                 *)
LEMMA DueStep ==
    ASSUME IInv, NEW m \in Mails, Due(m)
    PROVE  IInv'
<1>1. /\ m \in later /\ later' = later \ {m} /\ queue' = Append(queue, m)
      /\ UNCHANGED <<prefs, blocked, cache, lock, worker, handed, desk, hook, seen, unsub,
                     answered, stale, workload>>
  BY DEF Due, requests
<1>2. Types /\ OnePlace
  BY DEF IInv
<1>3. ~Queued(m) /\ ~Worked(m) /\ handed[m] = 0
  BY <1>1, <1>2 DEF OnePlace
<1>4. \A d \in DOMAIN desk : \A x \in d : Undispatched(d, x)' => Undispatched(d, x) /\ x # m
  BY <1>1, <1>2 DEF OnePlace, Undispatched
<1>5. OnePlace'
  BY <1>1, <1>3, <1>4, Queues
<1>6. Types'
  <2>1. queue' \in Seq(Mails) /\ later' \in SUBSET Mails
    BY <1>1, <1>2 DEF Types
  <2> QED BY <1>1, <1>2, <2>1 DEF Types, Desks
<1>7. RequestsOK' /\ Kept' /\ CacheCoherent'
  BY <1>1, OthersStay
<1> QED BY <1>5, <1>6, <1>7 DEF IInv

(* What is known of the dispatch d.                                        *)
LEMMA TheDispatch ==
    ASSUME IInv, NEW d \in DOMAIN desk
    PROVE  desk[d] \in Desks(d) /\ d \in workload.dispatches /\ d \subseteq Mails
<1>1. desk[d] \in Desks(d) /\ d \in workload.dispatches /\ workload \in Workloads
  BY DEF IInv, Types
<1> QED BY <1>1, WorkloadShape

(* A dispatch goes on as k, no further from the queue than it was.         *)
LEMMA DeskKeeps ==
    ASSUME IInv, NEW d \in DOMAIN desk, NEW k \in Desks(d), DOMAIN desk' = DOMAIN desk,
           desk'[d] = k, \A c \in DOMAIN desk \ {d} : desk'[c] = desk[c],
           \A m \in d : (k.pc # "enqueue" \/ m \in k.left) => Undispatched(d, m),
           UNCHANGED <<prefs, blocked, cache, lock, jobs, hook, seen, unsub, answered, stale,
                       workload>>
    PROVE  IInv'
<1>1. UNCHANGED <<queue, later, worker, handed>>
  BY DEF jobs
<1>2. Types /\ OnePlace
  BY DEF IInv
<1>3. Types'
  <2>1. \A c \in DOMAIN desk' : desk'[c] \in Desks(c)
    BY <1>2 DEF Types
  <2> QED BY <1>1, <1>2, <2>1 DEF Types, Desks
<1>4. OnePlace'
  <2>1. \A c \in DOMAIN desk : \A m \in c : Undispatched(c, m)' => Undispatched(c, m)
    BY DEF Undispatched
  <2> QED BY <1>1, <1>2, <2>1, PlacesShrink
<1>5. RequestsOK' /\ Kept' /\ CacheCoherent'
  BY <1>1, OthersStay
<1> QED BY <1>3, <1>4, <1>5 DEF IInv

(* A use case loads the accounts of the recipients.                        *)
LEMMA LoadStep ==
    ASSUME IInv, NEW d \in DOMAIN desk, Load(d)
    PROVE  IInv'
<1>1. PICK k : k = [pc |-> "gate", left |-> d,
                    prefs |-> [m \in d |-> IF m.known THEN prefs[m.to] ELSE NULL]]
  OBVIOUS
<1>2. d \subseteq Mails /\ prefs \in [Addresses -> EmailPreferences \cup {NULL}]
  BY TheDispatch DEF IInv, Types
<1>3. \A m \in d : m.to \in Addresses
  BY <1>2, MailShape
<1>4. k \in Desks(d)
  BY <1>1, <1>2, <1>3 DEF Desks
<1>5. \A m \in d : Undispatched(d, m)
  BY DEF Load, Undispatched
<1>6. /\ DOMAIN desk' = DOMAIN desk /\ desk'[d] = k
      /\ \A c \in DOMAIN desk \ {d} : desk'[c] = desk[c]
      /\ UNCHANGED <<prefs, blocked, cache, lock, jobs, hook, seen, unsub, answered, stale,
                     workload>>
  BY <1>1 DEF Load
<1> QED BY <1>4, <1>5, <1>6, DeskKeeps

(* The mails that may go are left.                                         *)
LEMMA CheckStep ==
    ASSUME IInv, NEW d \in DOMAIN desk, CheckExternalSuppressions(d)
    PROVE  IInv'
<1> DEFINE L == {m \in d : /\ m.to \notin blocked
                           /\ desk[d].prefs[m] # NULL => IsDeliveryAllowed(m, desk[d].prefs[m])}
<1>1. L \in SUBSET d /\ desk' = [desk EXCEPT ![d].pc = "enqueue", ![d].left = L]
  BY DEF CheckExternalSuppressions
<1> HIDE DEF L
<1>2. desk[d] \in Desks(d)
  BY TheDispatch
<1>3. PICK k : k = [desk[d] EXCEPT !.pc = "enqueue", !.left = L]
  OBVIOUS
<1>4. k \in Desks(d)
  BY <1>1, <1>2, <1>3 DEF Desks
<1>5. \A m \in d : Undispatched(d, m)
  BY DEF CheckExternalSuppressions, Undispatched
<1>6. /\ DOMAIN desk' = DOMAIN desk /\ desk'[d] = k
      /\ \A c \in DOMAIN desk \ {d} : desk'[c] = desk[c]
  BY <1>1, <1>3
<1>7. UNCHANGED <<prefs, blocked, cache, lock, jobs, hook, seen, unsub, answered, stale,
                  workload>>
  BY DEF CheckExternalSuppressions
<1> QED BY <1>4, <1>5, <1>6, <1>7, DeskKeeps

(* A mail is put on the queue.  It is of this dispatch only.               *)
LEMMA EnqueueStep ==
    ASSUME IInv, NEW d \in DOMAIN desk, Enqueue(d)
    PROVE  IInv'
<1>1. desk[d] \in Desks(d) /\ d \in workload.dispatches /\ d \subseteq Mails
  BY TheDispatch
<1>2. PICK m \in desk[d].left :
         queue' = Append(queue, m) /\ desk' = [desk EXCEPT ![d].left = @ \ {m}]
  BY DEF Enqueue
<1>3. /\ desk[d].pc = "enqueue"
      /\ UNCHANGED <<prefs, blocked, cache, lock, later, worker, handed, hook, seen, unsub,
                     answered, stale, workload>>
  BY DEF Enqueue
<1>4. Types /\ OnePlace
  BY DEF IInv
<1>5. m \in d /\ m \in Mails
  BY <1>1, <1>2 DEF Desks
<1>6. Undispatched(d, m)
  BY <1>2, <1>5 DEF Undispatched
<1>7. m \notin later /\ ~Queued(m) /\ ~Worked(m) /\ handed[m] = 0
  BY <1>4, <1>5, <1>6 DEF OnePlace
<1>8. /\ DOMAIN desk' = DOMAIN desk
      /\ \A c \in DOMAIN desk \ {d} : desk'[c] = desk[c]
      /\ desk'[d] \in Desks(d) /\ desk'[d].pc = "enqueue"
      /\ desk'[d].left = desk[d].left \ {m}
  BY <1>1, <1>2, <1>3 DEF Desks
<1>9. \A c \in DOMAIN desk \ {d} : m \notin c
  BY <1>1, <1>4, <1>5, WorkloadShape DEF Types
<1>10. \A c \in DOMAIN desk : \A x \in c : Undispatched(c, x)' => Undispatched(c, x) /\ x # m
  BY <1>3, <1>8, <1>9 DEF Undispatched
<1>11. OnePlace'
  <2>1. later' = later \ {m}
    BY <1>3, <1>7
  <2> QED BY <1>2, <1>3, <1>5, <1>7, <1>8, <1>10, <2>1, Queues
<1>12. Types'
  <2>1. queue' \in Seq(Mails)
    BY <1>2, <1>4, <1>5 DEF Types
  <2>2. \A c \in DOMAIN desk' : desk'[c] \in Desks(c)
    BY <1>4, <1>8 DEF Types
  <2> QED BY <1>3, <1>4, <1>8, <2>1, <2>2 DEF Types, Desks
<1>13. RequestsOK' /\ Kept' /\ CacheCoherent'
  BY <1>3, OthersStay
<1> QED BY <1>11, <1>12, <1>13 DEF IInv
-----------------------------------------------------------------------------
(* The stores, the webhooks and the unsubscriptions.                       *)

(* A step that leaves mails and jobs alone, with what it must show.        *)
LEMMA StoreKeeps ==
    ASSUME IInv, Types', UNCHANGED <<queue, later, worker, handed, desk, workload>>,
           PrefsGrow, CacheMoves, blocked \subseteq blocked',
           \A e \in Addresses : cache'[e] # NULL => prefs'[e] # NULL,
           \A e \in Addresses \ blocked' :
              answered'[e] = answered[e] \/ Honoured(e, answered[e])',
           \A h \in workload.events : hook'[h] = hook[h] \/ HookOK(h)',
           \A u \in workload.unsubs : unsub'[u] = unsub[u] \/ UnsubOK(u)',
           \A e \in Addresses : cache'[e] # NULL =>
              \/ e \in stale' \/ Alike(cache'[e], prefs'[e]) \/ Evicting(e)'
              \/ /\ cache'[e] = cache[e] /\ (e \in stale => e \in stale')
                 /\ Alike(prefs[e], prefs'[e]) /\ (Evicting(e) => Evicting(e)')
    PROVE  IInv'
<1>1. Types /\ OnePlace /\ RequestsOK /\ Kept /\ CacheCoherent
  BY DEF IInv
<1>2. OnePlace'
  <2>1. \A d \in DOMAIN desk : \A m \in d : Undispatched(d, m)' => Undispatched(d, m)
    BY DEF Undispatched
  <2>2. \A x \in Workers : worker'[x] # NULL =>
           worker[x] # NULL /\ worker'[x].mail = worker[x].mail
    OBVIOUS
  <2> QED BY <1>1, <2>1, <2>2, PlacesShrink
<1>3. RequestsOK' /\ Kept'
  <2>1. \A x \in Workers : worker'[x] # NULL => worker'[x] = worker[x] \/ JobOK(worker[x])'
    OBVIOUS
  <2> QED BY <1>1, <2>1, StateStays
<1>4. CacheCoherent'
  BY <1>1, CoherentStays
<1> QED BY <1>2, <1>3, <1>4 DEF IInv

(* The lock expires.                                                       *)
LEMMA LockExpiryStep ==
    ASSUME IInv, QuotaLockExpires
    PROVE  IInv'
<1>1. /\ lock' = FALSE
      /\ UNCHANGED <<prefs, blocked, cache, queue, later, worker, handed, desk, hook, seen,
                     unsub, answered, stale, workload>>
  BY DEF QuotaLockExpires, jobs, requests
<1>2. Types /\ OnePlace
  BY DEF IInv
<1>3. Types'
  BY <1>1, <1>2 DEF Types, Desks
<1>4. OnePlace'
  <2>1. \A d \in DOMAIN desk : \A m \in d : Undispatched(d, m)' => Undispatched(d, m)
    BY <1>1 DEF Undispatched
  <2> QED BY <1>1, <1>2, <2>1, PlacesShrink
<1>5. RequestsOK' /\ Kept' /\ CacheCoherent'
  BY <1>1, OthersStay
<1> QED BY <1>3, <1>4, <1>5 DEF IInv

(* The cached preferences of one address are evicted: those of the others  *)
(* are as coherent as before.                                              *)
LEMMA EvictMoves ==
    ASSUME IInv, NEW e \in Addresses, Evict(e), UNCHANGED prefs,
           \A x \in Addresses \ {e} : Evicting(x) => Evicting(x)'
    PROVE  /\ cache' \in [Addresses -> EmailPreferences \cup {NULL}] /\ cache'[e] = NULL
           /\ stale' \in SUBSET Addresses
           /\ PrefsGrow /\ CacheMoves
           /\ \A x \in Addresses : cache'[x] # NULL => prefs'[x] # NULL
           /\ \A x \in Addresses : cache'[x] # NULL =>
                /\ cache'[x] = cache[x] /\ (x \in stale => x \in stale')
                /\ Alike(prefs[x], prefs'[x]) /\ (Evicting(x) => Evicting(x)')
<1>1. Types /\ Kept
  BY DEF IInv
<1>2. /\ cache' \in [Addresses -> EmailPreferences \cup {NULL}] /\ cache'[e] = NULL
      /\ stale' \in SUBSET Addresses
      /\ \A x \in Addresses \ {e} : cache'[x] = cache[x] /\ (x \in stale => x \in stale')
  BY <1>1 DEF Types, Evict
<1>3. PrefsGrow /\ CacheMoves
  BY <1>2 DEF PrefsGrow, CacheMoves
<1>4. \A x \in Addresses : cache'[x] # NULL => prefs'[x] # NULL
  BY <1>1, <1>2 DEF Kept
<1>5. \A x : Alike(prefs[x], prefs'[x])
  BY DEF Alike
<1> QED BY <1>2, <1>3, <1>4, <1>5

(* A cached entry expires.                                                 *)
LEMMA CacheExpiryStep ==
    ASSUME IInv, NEW e \in Addresses, CacheExpires(e)
    PROVE  IInv'
<1>1. /\ Evict(e)
      /\ UNCHANGED <<prefs, blocked, lock, queue, later, worker, handed, desk, hook, seen,
                     unsub, answered, workload>>
  BY DEF CacheExpires, jobs, requests
<1>2. \A x : Evicting(x) => Evicting(x)'
  BY <1>1 DEF Evicting
<1>3. /\ cache' \in [Addresses -> EmailPreferences \cup {NULL}] /\ stale' \in SUBSET Addresses
      /\ PrefsGrow /\ CacheMoves
      /\ \A x \in Addresses : cache'[x] # NULL => prefs'[x] # NULL
      /\ \A x \in Addresses : cache'[x] # NULL =>
           /\ cache'[x] = cache[x] /\ (x \in stale => x \in stale')
           /\ Alike(prefs[x], prefs'[x]) /\ (Evicting(x) => Evicting(x)')
  BY <1>1, <1>2, EvictMoves
<1>4. Types'
  <2>1. Types
    BY DEF IInv
  <2> QED BY <1>1, <1>3, <2>1 DEF Types, Desks
<1> QED BY <1>1, <1>3, <1>4, StoreKeeps

(* The suppression of an address without an account is over: nobody is     *)
(* about to be told of it.                                                 *)
LEMMA SuppressionExpiryStep ==
    ASSUME IInv, NEW e \in Addresses, SuppressionExpires(e)
    PROVE  IInv'
<1>1. /\ blocked' = blocked \ {e} /\ answered' = [answered EXCEPT ![e] = {}]
      /\ \A h \in DOMAIN hook : hook[h] = "key" => h.to # e
      /\ UNCHANGED <<prefs, cache, lock, queue, later, worker, handed, desk, hook, seen,
                     unsub, stale, workload>>
  BY DEF SuppressionExpires, jobs
<1>2. Types /\ OnePlace /\ RequestsOK /\ Kept /\ CacheCoherent
  BY DEF IInv
<1>3. Types'
  BY <1>1, <1>2 DEF Types, Desks
<1>4. OnePlace'
  <2>1. \A d \in DOMAIN desk : \A m \in d : Undispatched(d, m)' => Undispatched(d, m)
    BY <1>1 DEF Undispatched
  <2> QED BY <1>1, <1>2, <2>1, PlacesShrink
<1>5. \A x, D : (Refused(x, D)' <=> Refused(x, D)) /\ (Honoured(x, D)' <=> Honoured(x, D))
  BY <1>1 DEF Honoured, Refused
<1>6. RequestsOK'
  <2>1. ASSUME NEW h \in workload.events
        PROVE  HookOK(h)'
    <3>1. HookOK(h) /\ h \in DOMAIN hook
      BY <1>2, <2>1 DEF RequestsOK, Types
    <3>2. hook[h] = "key" /\ h.to \notin blocked' => h.to \notin blocked
      BY <1>1, <3>1
    <3> QED BY <1>1, <1>5, <3>1, <3>2 DEF HookOK
  <2>2. ASSUME NEW u \in workload.unsubs
        PROVE  UnsubOK(u)'
    BY <1>1, <1>2, <1>5 DEF RequestsOK, UnsubOK
  <2> QED BY <1>1, <2>1, <2>2 DEF RequestsOK
<1>7. Kept'
  <2>1. \A x \in Addresses \ blocked' : Honoured(x, answered[x])'
    <3>1. ASSUME NEW x \in Addresses \ blocked'
          PROVE  Honoured(x, answered[x])'
      <4>1. answered \in [Addresses -> SUBSET Scopes]
        BY <1>2 DEF Types
      <4>2. CASE x = e
        BY <1>1, <4>1, <4>2 DEF Honoured, Refused
      <4>3. CASE x # e
        <5>1. answered'[x] = answered[x] /\ x \notin blocked
          BY <1>1, <3>1, <4>1, <4>3
        <5>2. Honoured(x, answered[x])
          BY <1>2, <3>1, <5>1 DEF Kept
        <5> QED BY <1>1, <5>1, <5>2 DEF Honoured, Refused
      <4> QED BY <4>2, <4>3
    <3> QED BY <3>1
  <2>2. \A w \in Workers : worker'[w] # NULL => JobOK(worker[w])'
    BY <1>1, <1>2, <1>5 DEF Kept, JobOK
  <2> QED BY <1>1, <1>2, <2>1, <2>2 DEF Kept
<1>8. CacheCoherent'
  BY <1>1, <1>2 DEF CacheCoherent
<1> QED BY <1>3, <1>4, <1>6, <1>7, <1>8 DEF IInv

(* A webhook is not known any more.                                        *)
LEMMA WebhookExpiryStep ==
    ASSUME IInv, NEW h \in DOMAIN hook, WebhookExpires(h)
    PROVE  IInv'
<1>1. /\ seen' = seen \ {h}
      /\ UNCHANGED <<prefs, blocked, cache, lock, queue, later, worker, handed, desk, hook,
                     unsub, answered, stale, workload>>
  BY DEF WebhookExpires, jobs
<1>2. Types /\ OnePlace
  BY DEF IInv
<1>3. Types'
  BY <1>1, <1>2 DEF Types, Desks
<1>4. OnePlace'
  <2>1. \A d \in DOMAIN desk : \A m \in d : Undispatched(d, m)' => Undispatched(d, m)
    BY <1>1 DEF Undispatched
  <2> QED BY <1>1, <1>2, <2>1, PlacesShrink
<1>5. RequestsOK' /\ Kept' /\ CacheCoherent'
  BY <1>1, OthersStay
<1> QED BY <1>3, <1>4, <1>5 DEF IInv

(* The preferences of e become p, which refuse what they refused; the      *)
(* cache is left alone.                                                    *)
LEMMA PrefsMove ==
    ASSUME IInv, NEW e \in Addresses, NEW p \in EmailPreferences,
           prefs' = [prefs EXCEPT ![e] = p], UNCHANGED <<cache, stale>>,
           prefs[e] # NULL => Denied(prefs[e]) \subseteq Denied(p)
    PROVE  /\ prefs' \in [Addresses -> EmailPreferences \cup {NULL}] /\ prefs'[e] = p
           /\ \A x \in Addresses \ {e} : prefs'[x] = prefs[x]
           /\ PrefsGrow /\ CacheMoves /\ p # NULL
           /\ \A x \in Addresses : cache'[x] # NULL => prefs'[x] # NULL
<1>1. Types /\ Kept
  BY DEF IInv
<1>2. /\ prefs' \in [Addresses -> EmailPreferences \cup {NULL}] /\ prefs'[e] = p
      /\ \A x \in Addresses \ {e} : prefs'[x] = prefs[x]
  BY <1>1 DEF Types
<1>3. p # NULL
  BY NotNull
<1>4. PrefsGrow /\ CacheMoves
  BY <1>2, <1>3 DEF PrefsGrow, CacheMoves
<1>5. \A x \in Addresses : cache'[x] # NULL => prefs'[x] # NULL
  BY <1>1, <1>2, <1>3 DEF Kept
<1> QED BY <1>2, <1>3, <1>4, <1>5

(* An account is made, or its address verified: neither refuses anything   *)
(* less, and the cached preferences differ in the verification only.       *)
LEMMA AccountStep ==
    ASSUME IInv, NEW e \in Addresses, Register(e) \/ MarkEmailAsVerified(e)
    PROVE  IInv'
<1>1. UNCHANGED <<blocked, cache, lock, queue, later, worker, handed, desk, hook, seen, unsub,
                  answered, stale, workload>>
  BY DEF Register, MarkEmailAsVerified, jobs, requests
<1>2. Types /\ Kept
  BY DEF IInv
<1>3. PICK p \in EmailPreferences : /\ prefs' = [prefs EXCEPT ![e] = p]
                                    /\ prefs[e] # NULL => Alike(prefs[e], p)
                                    /\ prefs[e] # NULL => prefs[e] \in EmailPreferences
  <2>1. prefs[e] \in EmailPreferences \cup {NULL}
    BY <1>2 DEF Types
  <2>2. CASE Register(e)
    <3>1. PICK v \in BOOLEAN : prefs' = [prefs EXCEPT ![e] = [NewPreferences EXCEPT !.verified = v]]
      BY <2>2 DEF Register
    <3>2. [NewPreferences EXCEPT !.verified = v] \in EmailPreferences
      BY DEF NewPreferences, EmailPreferences
    <3>3. prefs[e] = NULL
      BY <2>2 DEF Register
    <3> QED BY <3>1, <3>2, <3>3
  <2>3. CASE MarkEmailAsVerified(e)
    <3>1. prefs' = [prefs EXCEPT ![e].verified = TRUE] /\ prefs[e] # NULL
      BY <2>3 DEF MarkEmailAsVerified
    <3>2. PICK q \in EmailPreferences : q = prefs[e]
      BY <2>1, <3>1
    <3>3. PICK p : p = [q EXCEPT !.verified = TRUE]
      OBVIOUS
    <3>4. p \in EmailPreferences /\ p.failed = q.failed /\ p.suppressed = q.suppressed
          /\ p.optOut = q.optOut
      BY <3>3 DEF EmailPreferences
    <3>5. prefs' = [prefs EXCEPT ![e] = p]
      BY <3>1, <3>2, <3>3
    <3> QED BY <3>2, <3>4, <3>5, AlikeFields
  <2> QED BY <2>2, <2>3
<1>4. prefs[e] # NULL => Denied(prefs[e]) \subseteq Denied(p)
  BY <1>3, AlikeFields DEF Denied
<1>5. /\ prefs' \in [Addresses -> EmailPreferences \cup {NULL}] /\ prefs'[e] = p
      /\ \A x \in Addresses \ {e} : prefs'[x] = prefs[x]
      /\ PrefsGrow /\ CacheMoves
      /\ \A x \in Addresses : cache'[x] # NULL => prefs'[x] # NULL
  BY <1>1, <1>3, <1>4, PrefsMove
<1>6. Types'
  BY <1>1, <1>2, <1>5 DEF Types, Desks
<1>7. \A x \in Addresses : cache'[x] # NULL =>
         /\ cache'[x] = cache[x] /\ (x \in stale => x \in stale')
         /\ Alike(prefs[x], prefs'[x]) /\ (Evicting(x) => Evicting(x)')
  <2>1. \A x : Evicting(x) => Evicting(x)'
    BY <1>1 DEF Evicting
  <2>2. \A x \in Addresses : cache[x] # NULL => prefs[x] # NULL
    BY <1>2 DEF Kept
  <2>3. \A x \in Addresses : cache[x] # NULL => Alike(prefs[x], prefs'[x])
    BY <1>3, <1>5, <2>2 DEF Alike
  <2> QED BY <1>1, <2>1, <2>3
<1> QED BY <1>1, <1>5, <1>6, <1>7, StoreKeeps

(* What is known of the webhook h.                                         *)
LEMMA TheHook ==
    ASSUME IInv, NEW h \in DOMAIN hook
    PROVE  /\ h \in workload.events /\ h.to \in Addresses /\ h.type \in EventType
           /\ HookOK(h) /\ prefs[h.to] \in EmailPreferences \cup {NULL}
<1>1. h \in workload.events /\ workload \in Workloads
  BY DEF IInv, Types
<1>2. h.to \in Addresses /\ h.type \in EventType
  BY <1>1, WorkloadShape
<1> QED BY <1>1, <1>2 DEF IInv, Types, RequestsOK

(* The webhook h moves, the others do not.                                 *)
LEMMA HookMoves ==
    ASSUME IInv, NEW h \in DOMAIN hook, NEW to \in HookSteps,
           hook' = [hook EXCEPT ![h] = to], UNCHANGED <<unsub, workload>>
    PROVE  /\ hook' \in [workload.events -> HookSteps] /\ hook'[h] = to
           /\ \A g \in workload.events : g # h => hook'[g] = hook[g]
           /\ hook[h] # "evict" => \A x : Evicting(x) => Evicting(x)'
           /\ \A x : x # h.to => (Evicting(x) => Evicting(x)')
           /\ to = "evict" => Evicting(h.to)'
<1>1. hook \in [workload.events -> HookSteps]
  BY DEF IInv, Types
<1>2. /\ hook' \in [workload.events -> HookSteps] /\ hook'[h] = to
      /\ \A g \in workload.events : g # h => hook'[g] = hook[g]
  BY <1>1
<1> QED BY <1>1, <1>2 DEF Evicting

(* A step of a webhook that touches neither preferences nor cache, nor     *)
(* leaves an eviction out without a mark.                                  *)
LEMMA HookKeeps ==
    ASSUME IInv, NEW h \in DOMAIN hook, NEW to \in HookSteps \ {"evict"},
           hook' = [hook EXCEPT ![h] = to], Webhook(h), UNCHANGED <<prefs, cache, answered>>,
           blocked' \in SUBSET Addresses, blocked \subseteq blocked',
           seen' \in SUBSET workload.events, stale' \in SUBSET Addresses,
           stale \subseteq stale',
           hook[h] = "evict" /\ cache[h.to] # NULL => h.to \in stale',
           to = "write" => prefs[h.to] # NULL,
           to = "key" => h.to \in blocked' \/ Owes(h) = {}
    PROVE  IInv'
<1>1. UNCHANGED <<lock, queue, later, worker, handed, desk, unsub, workload>>
  BY DEF Webhook, jobs
<1>2. Types /\ Kept
  BY DEF IInv
<1>3. /\ hook' \in [workload.events -> HookSteps] /\ hook'[h] = to
      /\ \A g \in workload.events : g # h => hook'[g] = hook[g]
      /\ hook[h] # "evict" => \A x : Evicting(x) => Evicting(x)'
      /\ \A x : x # h.to => (Evicting(x) => Evicting(x)')
  BY <1>1, HookMoves
<1>4. Types'
  BY <1>1, <1>2, <1>3 DEF Types, Desks
<1>5. PrefsGrow /\ CacheMoves
  BY DEF PrefsGrow, CacheMoves
<1>6. \A x \in Addresses : cache'[x] # NULL => prefs'[x] # NULL
  BY <1>2 DEF Kept
<1>7. HookOK(h)'
  <2>1. Owes(h) = {} => Honoured(h.to, Owes(h))'
    BY DEF Honoured, Refused
  <2> QED BY <1>3, <2>1 DEF HookOK
<1>8. \A g \in workload.events : hook'[g] = hook[g] \/ HookOK(g)'
  BY <1>3, <1>7
<1>9. \A x \in Addresses : cache'[x] # NULL =>
        \/ x \in stale'
        \/ /\ cache'[x] = cache[x] /\ (x \in stale => x \in stale')
           /\ Alike(prefs[x], prefs'[x]) /\ (Evicting(x) => Evicting(x)')
  <2>1. \A x : Alike(prefs[x], prefs'[x])
    BY DEF Alike
  <2> QED BY <1>3, <2>1
<1> QED BY <1>1, <1>4, <1>5, <1>6, <1>8, <1>9, StoreKeeps

(* The delivery comes in, or is known, or looks for the account, or        *)
(* suppresses an address without one, or fails.                            *)
LEMMA HookStep ==
    ASSUME IInv, NEW h \in DOMAIN hook,
           \/ Deliver(h) \/ FindWebhook(h) \/ ExistsByEmail(h) \/ SuppressExternal(h)
           \/ WebhookFails(h)
    PROVE  IInv'
<1>1. /\ h \in workload.events /\ h.to \in Addresses /\ h.type \in EventType
      /\ HookOK(h) /\ prefs[h.to] \in EmailPreferences \cup {NULL}
  BY TheHook
<1>2. blocked \in SUBSET Addresses /\ seen \in SUBSET workload.events
      /\ stale \in SUBSET Addresses
  BY DEF IInv, Types
<1>3. Webhook(h) /\ UNCHANGED <<prefs, cache, seen, answered>>
  BY DEF Deliver, FindWebhook, ExistsByEmail, SuppressExternal, WebhookFails
<1>4. CASE Deliver(h) \/ FindWebhook(h)
  <2>1. PICK to \in {"find", "done", "exists"} :
           hook' = [hook EXCEPT ![h] = to] /\ hook[h] # "evict"
    BY <1>4 DEF Deliver, FindWebhook, Goes
  <2>2. UNCHANGED <<blocked, stale>>
    BY <1>4 DEF Deliver, FindWebhook
  <2>3. to \in HookSteps \ {"evict"} /\ to # "write" /\ to # "key"
    BY DEF HookSteps
  <2> QED BY <1>2, <1>3, <2>1, <2>2, <2>3, HookKeeps
<1>5. CASE ExistsByEmail(h)
  <2>1. PICK to : to = CASE prefs[h.to] # NULL -> "write"
                         [] prefs[h.to] = NULL /\ h.type \in Fatal \cup {"COMPLAINED"} -> "block"
                         [] OTHER -> "key"
    OBVIOUS
  <2>2. hook' = [hook EXCEPT ![h] = to] /\ hook[h] # "evict" /\ UNCHANGED <<blocked, stale>>
    BY <1>5, <2>1 DEF ExistsByEmail, Goes
  <2>3. to \in HookSteps \ {"evict"}
    BY <2>1 DEF HookSteps
  <2>4. to = "write" => prefs[h.to] # NULL
    BY <2>1
  <2>5. to = "key" => Owes(h) = {}
    BY <2>1 DEF Owes
  <2> QED BY <1>2, <1>3, <2>2, <2>3, <2>4, <2>5, HookKeeps
<1>6. CASE SuppressExternal(h)
  <2>1. /\ hook' = [hook EXCEPT ![h] = "key"] /\ hook[h] # "evict" /\ UNCHANGED stale
        /\ blocked' = blocked \cup {h.to}
    BY <1>6 DEF SuppressExternal, Goes
  <2>2. "key" \in HookSteps \ {"evict"}
    BY DEF HookSteps
  <2> QED BY <1>1, <1>2, <1>3, <2>1, <2>2, HookKeeps
<1>7. CASE WebhookFails(h)
  <2>1. /\ hook' = [hook EXCEPT ![h] = "due"] /\ UNCHANGED blocked
        /\ stale' = IF hook[h] = "evict" /\ cache[h.to] # NULL THEN stale \cup {h.to} ELSE stale
    BY <1>7 DEF WebhookFails
  <2>2. "due" \in HookSteps \ {"evict"}
    BY DEF HookSteps
  <2>3. stale' \in SUBSET Addresses /\ stale \subseteq stale'
        /\ (hook[h] = "evict" /\ cache[h.to] # NULL => h.to \in stale')
    BY <1>1, <1>2, <2>1
  <2> QED BY <1>2, <1>3, <2>1, <2>2, <2>3, HookKeeps
<1> QED BY <1>4, <1>5, <1>6, <1>7

(* The evaluation of a webhook only adds to what is refused, and adds what *)
(* the webhook suppresses.                                                 *)
LEMMA EvaluatedPrefs ==
    ASSUME NEW h, h.type \in EventType, NEW p \in EmailPreferences
    PROVE  /\ Evaluated(h, p) \in EmailPreferences
           /\ Denied(p) \subseteq Denied(Evaluated(h, p))
           /\ Owes(h) \subseteq Denied(Evaluated(h, p))
<1>1. PICK q : q = Evaluated(h, p)
  OBVIOUS
<1>2. CASE h.type \in Fatal
  <2>1. q = [p EXCEPT !.failed = TRUE, !.suppressed = EmailCategory]
    BY <1>1, <1>2 DEF Evaluated, ApplyGlobalSuppression, Fatal
  <2>2. q \in EmailPreferences /\ q.suppressed = EmailCategory /\ q.optOut = p.optOut
    BY <2>1 DEF EmailPreferences
  <2>3. Owes(h) = EmailCategory /\ p.suppressed \subseteq EmailCategory
    BY <1>2 DEF Owes, Fatal, EmailPreferences
  <2> QED BY <1>1, <2>2, <2>3 DEF Denied
<1>3. CASE h.type = "COMPLAINED"
  <2>1. PICK S : S = p.suppressed \cup {"engagement", "promotional"}
    OBVIOUS
  <2>2. q = [p EXCEPT !.failed = TRUE, !.suppressed = S]
    BY <1>1, <1>3, <2>1 DEF Evaluated, ApplySpamSuppression, Fatal
  <2>3. S \subseteq EmailCategory
    BY <2>1 DEF EmailPreferences, EmailCategory
  <2>4. q \in EmailPreferences /\ q.suppressed = S /\ q.optOut = p.optOut
    BY <2>2, <2>3 DEF EmailPreferences
  <2>5. Owes(h) = {"engagement", "promotional"}
    BY <1>3 DEF Owes, Fatal
  <2> QED BY <1>1, <2>1, <2>4, <2>5 DEF Denied
<1>4. CASE h.type \in {"FAILED", "DELIVERED"}
  <2>1. PICK b \in BOOLEAN : q = [p EXCEPT !.failed = b]
    BY <1>1, <1>4 DEF Evaluated, SetDeliveryFailed, Fatal
  <2>2. q \in EmailPreferences /\ q.suppressed = p.suppressed /\ q.optOut = p.optOut
    BY <2>1 DEF EmailPreferences
  <2>3. Owes(h) = {}
    BY <1>4 DEF Owes, Fatal
  <2> QED BY <1>1, <2>2, <2>3 DEF Denied
<1> QED BY <1>2, <1>3, <1>4 DEF EventType

(* A webhook is evaluated: an eviction follows, unless nothing changed.    *)
LEMMA EvaluateStep ==
    ASSUME IInv, NEW h \in DOMAIN hook, Evaluate(h)
    PROVE  IInv'
<1>1. /\ h \in workload.events /\ h.to \in Addresses /\ h.type \in EventType
      /\ HookOK(h) /\ prefs[h.to] \in EmailPreferences \cup {NULL}
  BY TheHook
<1>2. Types /\ Kept
  BY DEF IInv
<1>3. hook[h] = "write"
  BY DEF Evaluate, Goes
<1>4. PICK q \in EmailPreferences : q = prefs[h.to]
  BY <1>1, <1>3 DEF HookOK
<1>5. PICK p : p = Evaluated(h, q)
  OBVIOUS
<1>6. PICK to : to = IF h.type = "DELIVERED" /\ p = q THEN "key" ELSE "evict"
  OBVIOUS
<1>7. /\ hook' = [hook EXCEPT ![h] = to] /\ prefs' = [prefs EXCEPT ![h.to] = p]
      /\ Webhook(h) /\ UNCHANGED <<blocked, cache, stale, seen, answered>>
  BY <1>4, <1>5, <1>6 DEF Evaluate, Goes
<1>8. UNCHANGED <<lock, queue, later, worker, handed, desk, unsub, workload>>
  BY <1>7 DEF Webhook, jobs
<1>9. /\ p \in EmailPreferences /\ Denied(q) \subseteq Denied(p)
      /\ Owes(h) \subseteq Denied(p)
  BY <1>1, <1>5, EvaluatedPrefs
<1>10. /\ prefs' \in [Addresses -> EmailPreferences \cup {NULL}] /\ prefs'[h.to] = p
       /\ \A x \in Addresses \ {h.to} : prefs'[x] = prefs[x]
       /\ PrefsGrow /\ CacheMoves /\ p # NULL
       /\ \A x \in Addresses : cache'[x] # NULL => prefs'[x] # NULL
  BY <1>1, <1>4, <1>7, <1>9, PrefsMove
<1>11. to \in {"key", "evict"} /\ to \in HookSteps
  BY <1>6 DEF HookSteps
<1>12. /\ hook' \in [workload.events -> HookSteps] /\ hook'[h] = to
       /\ \A g \in workload.events : g # h => hook'[g] = hook[g]
       /\ \A x : Evicting(x) => Evicting(x)'
       /\ to = "evict" => Evicting(h.to)'
  BY <1>3, <1>7, <1>8, <1>11, HookMoves
<1>13. Types'
  BY <1>2, <1>7, <1>8, <1>10, <1>12 DEF Types, Desks
<1>14. HookOK(h)'
  <2>1. to = "key" => Owes(h) = {}
    BY <1>6 DEF Owes, Fatal
  <2>2. Owes(h) = {} => Honoured(h.to, Owes(h))'
    BY DEF Honoured, Refused
  <2>3. Refused(h.to, Owes(h))'
    BY <1>9, <1>10 DEF Refused
  <2> QED BY <1>11, <1>12, <2>1, <2>2, <2>3 DEF HookOK
<1>15. \A g \in workload.events : hook'[g] = hook[g] \/ HookOK(g)'
  BY <1>12, <1>14
<1>16. \A x \in Addresses : cache'[x] # NULL =>
         \/ Evicting(x)'
         \/ /\ cache'[x] = cache[x] /\ (x \in stale => x \in stale')
            /\ Alike(prefs[x], prefs'[x]) /\ (Evicting(x) => Evicting(x)')
  <2>1. to = "key" => p = q
    BY <1>6
  <2>2. to = "key" => Alike(prefs[h.to], prefs'[h.to])
    BY <1>4, <1>10, <2>1 DEF Alike
  <2>3. \A x \in Addresses \ {h.to} : Alike(prefs[x], prefs'[x])
    BY <1>10 DEF Alike
  <2> QED BY <1>7, <1>11, <1>12, <2>2, <2>3
<1> QED BY <1>7, <1>8, <1>10, <1>13, <1>15, <1>16, StoreKeeps

(* The cached preferences are evicted after a webhook.                     *)
LEMMA HookEvictStep ==
    ASSUME IInv, NEW h \in DOMAIN hook, EvictPreferences(h)
    PROVE  IInv'
<1>1. h \in workload.events /\ h.to \in Addresses /\ HookOK(h)
  BY TheHook
<1>2. Types
  BY DEF IInv
<1>3. /\ hook[h] = "evict" /\ hook' = [hook EXCEPT ![h] = "key"] /\ Evict(h.to)
      /\ Webhook(h) /\ UNCHANGED <<prefs, blocked, seen, answered>>
  BY DEF EvictPreferences, Goes
<1>4. UNCHANGED <<lock, queue, later, worker, handed, desk, unsub, workload>>
  BY <1>3 DEF Webhook, jobs
<1>5. "key" \in HookSteps
  BY DEF HookSteps
<1>6. /\ hook' \in [workload.events -> HookSteps] /\ hook'[h] = "key"
      /\ \A g \in workload.events : g # h => hook'[g] = hook[g]
      /\ \A x : x # h.to => (Evicting(x) => Evicting(x)')
  BY <1>3, <1>4, <1>5, HookMoves
<1>7. /\ cache' \in [Addresses -> EmailPreferences \cup {NULL}] /\ cache'[h.to] = NULL
      /\ stale' \in SUBSET Addresses
      /\ PrefsGrow /\ CacheMoves
      /\ \A x \in Addresses : cache'[x] # NULL => prefs'[x] # NULL
      /\ \A x \in Addresses : cache'[x] # NULL =>
           /\ cache'[x] = cache[x] /\ (x \in stale => x \in stale')
           /\ Alike(prefs[x], prefs'[x]) /\ (Evicting(x) => Evicting(x)')
  BY <1>1, <1>3, <1>6, EvictMoves
<1>8. Types'
  BY <1>2, <1>3, <1>4, <1>6, <1>7 DEF Types, Desks
<1>9. HookOK(h)'
  <2>1. Refused(h.to, Owes(h))'
    BY <1>1, <1>3 DEF HookOK, Refused
  <2>2. Honoured(h.to, Owes(h))'
    BY <1>7, <2>1 DEF Honoured
  <2> QED BY <1>6, <2>2 DEF HookOK
<1>10. \A g \in workload.events : hook'[g] = hook[g] \/ HookOK(g)'
  BY <1>6, <1>9
<1> QED BY <1>3, <1>4, <1>7, <1>8, <1>10, StoreKeeps

(* An address is owed what it was, and more that is refused already.       *)
LEMMA AnsweredGrows ==
    ASSUME IInv, NEW e \in Addresses, NEW D \in SUBSET Scopes,
           answered' = [answered EXCEPT ![e] = @ \cup D],
           PrefsGrow, CacheMoves, blocked' = blocked, e \notin blocked => Honoured(e, D)'
    PROVE  /\ answered' \in [Addresses -> SUBSET Scopes]
           /\ \A x \in Addresses \ blocked' :
                 answered'[x] = answered[x] \/ Honoured(x, answered[x])'
<1>1. Types /\ Kept
  BY DEF IInv
<1>2. PICK A : A = answered[e]
  OBVIOUS
<1>3. /\ answered' \in [Addresses -> SUBSET Scopes] /\ answered'[e] = A \cup D
      /\ \A x \in Addresses \ {e} : answered'[x] = answered[x]
  BY <1>1, <1>2 DEF Types
<1>4. ASSUME e \notin blocked
      PROVE  Honoured(e, answered[e])'
  <2>1. Honoured(e, A)
    BY <1>1, <1>2, <1>4 DEF Kept
  <2>2. Honoured(e, A)' /\ Honoured(e, D)'
    BY <1>4, <2>1, HonouredStays
  <2>3. Honoured(e, A \cup D)'
    BY <2>2 DEF Honoured, Refused
  <2> QED BY <1>3, <2>3 DEF Honoured, Refused
<1> QED BY <1>3, <1>4

(* A webhook is answered: its suppression is owed, and in effect.          *)
LEMMA SaveHookStep ==
    ASSUME IInv, NEW h \in DOMAIN hook, SaveWebhook(h)
    PROVE  IInv'
<1>1. h \in workload.events /\ h.to \in Addresses /\ HookOK(h)
  BY TheHook
<1>2. Types /\ Kept
  BY DEF IInv
<1>3. /\ hook[h] = "key" /\ hook' = [hook EXCEPT ![h] = "done"] /\ seen' = seen \cup {h}
      /\ Webhook(h) /\ UNCHANGED <<prefs, blocked, cache, stale>>
  BY DEF SaveWebhook, Goes
<1>4. UNCHANGED <<lock, queue, later, worker, handed, desk, unsub, workload>>
  BY <1>3 DEF Webhook, jobs
<1>5. PICK D \in SUBSET Scopes : D = Owes(h)
  BY DEF Owes, Scopes, EmailCategory
<1>6. answered' = [answered EXCEPT ![h.to] = @ \cup D]
  BY <1>5 DEF SaveWebhook, Owes
<1>7. PrefsGrow /\ CacheMoves
  BY <1>3 DEF PrefsGrow, CacheMoves
<1>8. h.to \notin blocked => Honoured(h.to, D)'
  <2>1. h.to \notin blocked => Honoured(h.to, D)
    BY <1>1, <1>3, <1>5 DEF HookOK
  <2> QED BY <1>1, <1>7, <2>1, HonouredStays
<1>9. /\ answered' \in [Addresses -> SUBSET Scopes]
      /\ \A x \in Addresses \ blocked' :
            answered'[x] = answered[x] \/ Honoured(x, answered[x])'
  BY <1>1, <1>3, <1>6, <1>7, <1>8, AnsweredGrows
<1>10. "done" \in HookSteps
  BY DEF HookSteps
<1>11. /\ hook' \in [workload.events -> HookSteps] /\ hook'[h] = "done"
       /\ \A g \in workload.events : g # h => hook'[g] = hook[g]
       /\ \A x : Evicting(x) => Evicting(x)'
  BY <1>3, <1>4, <1>10, HookMoves
<1>12. Types'
  <2>1. seen' \in SUBSET workload.events
    BY <1>1, <1>2, <1>3 DEF Types
  <2> QED BY <1>2, <1>3, <1>4, <1>9, <1>11, <2>1 DEF Types, Desks
<1>13. \A g \in workload.events : hook'[g] = hook[g] \/ HookOK(g)'
  <2>1. HookOK(h)'
    BY <1>11 DEF HookOK
  <2> QED BY <1>11, <2>1
<1>14. /\ \A x \in Addresses : cache'[x] # NULL => prefs'[x] # NULL
       /\ \A x : Alike(prefs[x], prefs'[x])
  BY <1>2, <1>3 DEF Kept, Alike
<1> QED BY <1>3, <1>4, <1>7, <1>9, <1>11, <1>12, <1>13, <1>14, StoreKeeps

(* What is known of the unsubscription u.                                  *)
LEMMA TheUnsub ==
    ASSUME IInv, NEW u \in DOMAIN unsub
    PROVE  /\ u \in workload.unsubs /\ u.to \in Addresses /\ u.scope \in Scopes
           /\ UnsubOK(u) /\ prefs[u.to] \in EmailPreferences \cup {NULL}
<1>1. u \in workload.unsubs /\ workload \in Workloads
  BY DEF IInv, Types
<1>2. u.to \in Addresses /\ u.scope \in Scopes
  BY <1>1, WorkloadShape
<1> QED BY <1>1, <1>2 DEF IInv, Types, RequestsOK

(* The unsubscription u moves, the others do not.                          *)
LEMMA UnsubMoves ==
    ASSUME IInv, NEW u \in DOMAIN unsub, NEW to \in {"due", "write", "evict", "done"},
           unsub' = [unsub EXCEPT ![u] = to], UNCHANGED <<hook, workload>>
    PROVE  /\ unsub' \in [workload.unsubs -> {"due", "write", "evict", "done"}]
           /\ unsub'[u] = to
           /\ \A v \in workload.unsubs : v # u => unsub'[v] = unsub[v]
           /\ unsub[u] # "evict" => \A x : Evicting(x) => Evicting(x)'
           /\ \A x : x # u.to => (Evicting(x) => Evicting(x)')
           /\ to = "evict" => Evicting(u.to)'
<1>1. unsub \in [workload.unsubs -> {"due", "write", "evict", "done"}]
  BY DEF IInv, Types
<1>2. /\ unsub' \in [workload.unsubs -> {"due", "write", "evict", "done"}] /\ unsub'[u] = to
      /\ \A v \in workload.unsubs : v # u => unsub'[v] = unsub[v]
  BY <1>1
<1> QED BY <1>1, <1>2 DEF Evicting

(* The link is followed, or the request fails: an eviction that is left    *)
(* out is marked.                                                          *)
LEMMA UnsubStep ==
    ASSUME IInv, NEW u \in DOMAIN unsub, Follow(u) \/ UnsubscribeFails(u)
    PROVE  IInv'
<1>1. u \in workload.unsubs /\ u.to \in Addresses
  BY TheUnsub
<1>2. Types /\ Kept
  BY DEF IInv
<1>3. UNCHANGED <<prefs, cache, answered, blocked, lock, queue, later, worker, handed, desk,
                  hook, seen, workload>>
  BY DEF Follow, UnsubscribeFails, Unsubscribing, jobs
<1>4. PICK to \in {"write", "done"} :
         /\ unsub' = [unsub EXCEPT ![u] = to] /\ (to = "write" => prefs[u.to] # NULL)
         /\ stale' \in SUBSET Addresses /\ stale \subseteq stale'
         /\ unsub[u] = "evict" /\ cache[u.to] # NULL => u.to \in stale'
  <2>1. stale \in SUBSET Addresses
    BY <1>2 DEF Types
  <2>2. CASE Follow(u)
    <3>1. /\ unsub' = [unsub EXCEPT ![u] = "write"] /\ prefs[u.to] # NULL /\ stale' = stale
          /\ unsub[u] = "due"
      BY <2>2 DEF Follow
    <3> QED BY <2>1, <3>1
  <2>3. CASE UnsubscribeFails(u)
    <3>1. /\ unsub' = [unsub EXCEPT ![u] = "done"]
          /\ stale' = IF unsub[u] = "evict" /\ cache[u.to] # NULL THEN stale \cup {u.to} ELSE stale
      BY <2>3 DEF UnsubscribeFails
    <3>2. /\ stale' \in SUBSET Addresses /\ stale \subseteq stale'
          /\ unsub[u] = "evict" /\ cache[u.to] # NULL => u.to \in stale'
      BY <1>1, <2>1, <3>1
    <3> QED BY <3>1, <3>2
  <2> QED BY <2>2, <2>3
<1>5. /\ unsub' \in [workload.unsubs -> {"due", "write", "evict", "done"}]
      /\ unsub'[u] = to
      /\ \A v \in workload.unsubs : v # u => unsub'[v] = unsub[v]
      /\ unsub[u] # "evict" => \A x : Evicting(x) => Evicting(x)'
      /\ \A x : x # u.to => (Evicting(x) => Evicting(x)')
  BY <1>3, <1>4, UnsubMoves
<1>6. Types'
  BY <1>2, <1>3, <1>4, <1>5 DEF Types, Desks
<1>7. PrefsGrow /\ CacheMoves
  BY <1>3, <1>4 DEF PrefsGrow, CacheMoves
<1>8. UnsubOK(u)'
  BY <1>3, <1>4, <1>5 DEF UnsubOK
<1>9. \A v \in workload.unsubs : unsub'[v] = unsub[v] \/ UnsubOK(v)'
  BY <1>5, <1>8
<1>10. \A x \in Addresses : cache'[x] # NULL =>
         \/ x \in stale'
         \/ /\ cache'[x] = cache[x] /\ (x \in stale => x \in stale')
            /\ Alike(prefs[x], prefs'[x]) /\ (Evicting(x) => Evicting(x)')
  <2>1. \A x : Alike(prefs[x], prefs'[x])
    BY <1>3 DEF Alike
  <2> QED BY <1>3, <1>4, <1>5, <2>1
<1>11. \A x \in Addresses : cache'[x] # NULL => prefs'[x] # NULL
  BY <1>2, <1>3 DEF Kept
<1> QED BY <1>3, <1>6, <1>7, <1>9, <1>10, <1>11, StoreKeeps

(* An opt-out is written: an eviction follows.                             *)
LEMMA OptOutStep ==
    ASSUME IInv, NEW u \in DOMAIN unsub, WriteOptOut(u)
    PROVE  IInv'
<1>1. /\ u \in workload.unsubs /\ u.to \in Addresses /\ u.scope \in Scopes /\ UnsubOK(u)
      /\ prefs[u.to] \in EmailPreferences \cup {NULL}
  BY TheUnsub
<1>2. Types /\ Kept
  BY DEF IInv
<1>3. /\ unsub[u] = "write" /\ unsub' = [unsub EXCEPT ![u] = "evict"]
      /\ UNCHANGED <<cache, stale, answered, blocked, lock, queue, later, worker, handed, desk,
                     hook, seen, workload>>
  BY DEF WriteOptOut, Unsubscribing, jobs
<1>4. PICK q \in EmailPreferences : q = prefs[u.to]
  BY <1>1, <1>3 DEF UnsubOK
<1>5. PICK O : O = q.optOut \cup {u.scope}
  OBVIOUS
<1>6. PICK p : p = [q EXCEPT !.optOut = O]
  OBVIOUS
<1>7. p \in EmailPreferences /\ Denied(q) \subseteq Denied(p) /\ {u.scope} \subseteq Denied(p)
  <2>1. O \subseteq Scopes
    BY <1>1, <1>5 DEF EmailPreferences
  <2>2. p \in EmailPreferences /\ p.suppressed = q.suppressed /\ p.optOut = O
    BY <1>6, <2>1 DEF EmailPreferences
  <2> QED BY <1>5, <2>2 DEF Denied
<1>8. prefs' = [prefs EXCEPT ![u.to] = p]
  BY <1>4, <1>5, <1>6 DEF WriteOptOut, OptOut
<1>9. /\ prefs' \in [Addresses -> EmailPreferences \cup {NULL}] /\ prefs'[u.to] = p
      /\ \A x \in Addresses \ {u.to} : prefs'[x] = prefs[x]
      /\ PrefsGrow /\ CacheMoves /\ p # NULL
      /\ \A x \in Addresses : cache'[x] # NULL => prefs'[x] # NULL
  BY <1>1, <1>3, <1>4, <1>7, <1>8, PrefsMove
<1>10. /\ unsub' \in [workload.unsubs -> {"due", "write", "evict", "done"}]
       /\ unsub'[u] = "evict"
       /\ \A v \in workload.unsubs : v # u => unsub'[v] = unsub[v]
       /\ \A x : Evicting(x) => Evicting(x)'
       /\ Evicting(u.to)'
  BY <1>3, UnsubMoves
<1>11. Types'
  BY <1>2, <1>3, <1>9, <1>10 DEF Types, Desks
<1>12. UnsubOK(u)'
  BY <1>7, <1>9, <1>10 DEF UnsubOK, Refused
<1>13. \A v \in workload.unsubs : unsub'[v] = unsub[v] \/ UnsubOK(v)'
  BY <1>10, <1>12
<1>14. \A x \in Addresses : cache'[x] # NULL =>
         \/ Evicting(x)'
         \/ /\ cache'[x] = cache[x] /\ (x \in stale => x \in stale')
            /\ Alike(prefs[x], prefs'[x]) /\ (Evicting(x) => Evicting(x)')
  <2>1. \A x \in Addresses \ {u.to} : Alike(prefs[x], prefs'[x])
    BY <1>9 DEF Alike
  <2> QED BY <1>3, <1>10, <2>1
<1> QED BY <1>3, <1>9, <1>11, <1>13, <1>14, StoreKeeps

(* The cached preferences are evicted, and the opt-out is answered.        *)
LEMMA UnsubEvictStep ==
    ASSUME IInv, NEW u \in DOMAIN unsub, EvictAfterOptOut(u)
    PROVE  IInv'
<1>1. u \in workload.unsubs /\ u.to \in Addresses /\ u.scope \in Scopes /\ UnsubOK(u)
  BY TheUnsub
<1>2. Types
  BY DEF IInv
<1>3. /\ unsub[u] = "evict" /\ unsub' = [unsub EXCEPT ![u] = "done"] /\ Evict(u.to)
      /\ answered' = [answered EXCEPT ![u.to] = @ \cup {u.scope}]
      /\ UNCHANGED <<prefs, blocked, lock, queue, later, worker, handed, desk, hook, seen,
                     workload>>
  BY DEF EvictAfterOptOut, Unsubscribing, jobs
<1>4. /\ unsub' \in [workload.unsubs -> {"due", "write", "evict", "done"}]
      /\ unsub'[u] = "done"
      /\ \A v \in workload.unsubs : v # u => unsub'[v] = unsub[v]
      /\ \A x : x # u.to => (Evicting(x) => Evicting(x)')
  BY <1>3, UnsubMoves
<1>5. /\ cache' \in [Addresses -> EmailPreferences \cup {NULL}] /\ cache'[u.to] = NULL
      /\ stale' \in SUBSET Addresses
      /\ PrefsGrow /\ CacheMoves
      /\ \A x \in Addresses : cache'[x] # NULL => prefs'[x] # NULL
      /\ \A x \in Addresses : cache'[x] # NULL =>
           /\ cache'[x] = cache[x] /\ (x \in stale => x \in stale')
           /\ Alike(prefs[x], prefs'[x]) /\ (Evicting(x) => Evicting(x)')
  BY <1>1, <1>3, <1>4, EvictMoves
<1>6. PICK D \in SUBSET Scopes : D = {u.scope}
  BY <1>1
<1>7. Honoured(u.to, D)'
  <2>1. Refused(u.to, D)'
    BY <1>1, <1>3, <1>6 DEF UnsubOK, Refused
  <2> QED BY <1>5, <2>1 DEF Honoured
<1>8. /\ answered' \in [Addresses -> SUBSET Scopes]
      /\ \A x \in Addresses \ blocked' :
            answered'[x] = answered[x] \/ Honoured(x, answered[x])'
  <2>1. answered' = [answered EXCEPT ![u.to] = @ \cup D]
    BY <1>3, <1>6
  <2> QED BY <1>1, <1>3, <1>5, <1>7, <2>1, AnsweredGrows
<1>9. Types'
  BY <1>2, <1>3, <1>4, <1>5, <1>8 DEF Types, Desks
<1>10. \A v \in workload.unsubs : unsub'[v] = unsub[v] \/ UnsubOK(v)'
  <2>1. UnsubOK(u)'
    BY <1>4 DEF UnsubOK
  <2> QED BY <1>4, <2>1
<1> QED BY <1>3, <1>5, <1>8, <1>9, <1>10, StoreKeeps
-----------------------------------------------------------------------------
(* No mail has been dispatched, and no preferences are cached.             *)
LEMMA InitIInv == Init => IInv
<1> SUFFICES ASSUME Init
             PROVE  IInv
  OBVIOUS
<1>1. workload \in Workloads /\ cache = [e \in Addresses |-> NULL]
      /\ worker = [w \in Workers |-> NULL] /\ handed = [m \in Mails |-> 0]
      /\ queue = <<>> /\ later = {}
  BY DEF Init
<1>2. Types
  <2>1. prefs \in [Addresses -> EmailPreferences \cup {NULL}]
    <3>1. [NewPreferences EXCEPT !.verified = TRUE] \in EmailPreferences
      BY DEF NewPreferences, EmailPreferences
    <3> QED BY <3>1 DEF Init
  <2>2. DOMAIN desk = workload.dispatches /\ \A d \in DOMAIN desk : desk[d] \in Desks(d)
    BY DEF Init, Desks
  <2>3. hook \in [workload.events -> HookSteps]
    BY DEF Init, HookSteps
  <2>4. unsub \in [workload.unsubs -> {"due", "write", "evict", "done"}]
    BY DEF Init
  <2>5. answered \in [Addresses -> SUBSET Scopes] /\ stale = {} /\ seen = {} /\ blocked = {}
        /\ lock = FALSE
    BY DEF Init
  <2>6. cache \in [Addresses -> EmailPreferences \cup {NULL}]
        /\ worker \in [Workers -> Jobs \cup {NULL}] /\ handed \in [Mails -> Nat]
        /\ queue \in Seq(Mails)
    BY <1>1
  <2> QED BY <1>1, <2>1, <2>2, <2>3, <2>4, <2>5, <2>6 DEF Types
<1>3. OnePlace
  <2>1. (\A m : ~Queued(m) /\ ~Worked(m)) /\ \A m \in Mails : handed[m] = 0
    BY <1>1 DEF Queued, Worked
  <2>2. \A d \in DOMAIN desk : d \subseteq Mails
    BY <1>2, WorkloadShape DEF Types
  <2>3. \A i, j \in 1 .. Len(queue) : queue[i] = queue[j] => i = j
    BY <1>1
  <2> QED BY <1>1, <2>1, <2>2, <2>3 DEF OnePlace, AtMostOnce
<1>4. RequestsOK
  <2>1. \A h \in workload.events : hook[h] = "due"
    BY DEF Init
  <2>2. \A u \in workload.unsubs : unsub[u] = "due"
    BY DEF Init
  <2> QED BY <2>1, <2>2 DEF RequestsOK, HookOK, UnsubOK
<1>5. Kept
  <2>1. \A e \in Addresses : answered[e] = {}
    BY DEF Init
  <2>2. \A e \in Addresses : Honoured(e, answered[e])
    BY <1>1, <2>1 DEF Honoured, Refused
  <2> QED BY <1>1, <2>2 DEF Kept
<1>6. CacheCoherent
  BY <1>1 DEF CacheCoherent
<1> QED BY <1>2, <1>3, <1>4, <1>5, <1>6 DEF IInv

(* Nothing happens.                                                        *)
LEMMA IdleStep ==
    ASSUME IInv, UNCHANGED vars
    PROVE  IInv'
<1>1. UNCHANGED <<prefs, blocked, cache, lock, queue, later, worker, handed, desk, hook, seen,
                  unsub, answered, stale, workload>>
  BY DEF vars, jobs, requests
<1>2. Types'
  BY <1>1 DEF IInv, Types, Desks
<1>3. OnePlace'
  <2>1. OnePlace
    BY DEF IInv
  <2>2. \A d \in DOMAIN desk : \A m \in d : Undispatched(d, m)' => Undispatched(d, m)
    BY <1>1 DEF Undispatched
  <2> QED BY <1>1, <2>1, <2>2, PlacesShrink
<1>4. RequestsOK' /\ Kept' /\ CacheCoherent'
  BY <1>1, OthersStay
<1> QED BY <1>2, <1>3, <1>4 DEF IInv

(* Every step.                                                             *)
LEMMA NextIInv == IInv /\ [Next]_vars => IInv'
<1> SUFFICES ASSUME IInv, [Next]_vars
             PROVE  IInv'
  OBVIOUS
<1>1. CASE \E d \in DOMAIN desk : Load(d) \/ CheckExternalSuppressions(d) \/ Enqueue(d)
  BY <1>1, LoadStep, CheckStep, EnqueueStep
<1>2. CASE \E w \in Workers : Take(w) \/ Advance(w) \/ Fail(w)
  <2>1. PICK w \in Workers : Take(w) \/ Advance(w) \/ Fail(w)
    BY <1>2
  <2>2. CASE Take(w)
    BY <2>2, TakeStep
  <2>3. CASE Advance(w)
    BY <2>3, QuotaStep, FindStep, ReadStep, SaveStep, RequeueStep, GateStep, SendStep,
       QuotaLockStep DEF Advance
  <2>4. CASE Fail(w)
    BY <2>4, FailStep
  <2> QED BY <2>1, <2>2, <2>3, <2>4
<1>3. CASE \E m \in Mails : Due(m)
  BY <1>3, DueStep
<1>4. CASE \E e \in Addresses :
             CacheExpires(e) \/ SuppressionExpires(e) \/ Register(e) \/ MarkEmailAsVerified(e)
  BY <1>4, CacheExpiryStep, SuppressionExpiryStep, AccountStep
<1>5. CASE QuotaLockExpires
  BY <1>5, LockExpiryStep
<1>6. CASE \E h \in DOMAIN hook :
             \/ Deliver(h) \/ FindWebhook(h) \/ ExistsByEmail(h) \/ SuppressExternal(h)
             \/ Evaluate(h) \/ EvictPreferences(h) \/ SaveWebhook(h) \/ WebhookFails(h)
             \/ WebhookExpires(h)
  BY <1>6, HookStep, EvaluateStep, HookEvictStep, SaveHookStep, WebhookExpiryStep
<1>7. CASE \E u \in DOMAIN unsub :
             Follow(u) \/ WriteOptOut(u) \/ EvictAfterOptOut(u) \/ UnsubscribeFails(u)
  BY <1>7, UnsubStep, OptOutStep, UnsubEvictStep
<1>8. CASE UNCHANGED vars
  BY <1>8, IdleStep
<1> QED BY <1>1, <1>2, <1>3, <1>4, <1>5, <1>6, <1>7, <1>8 DEF Next

(* The inductive invariant.                                                *)
LEMMA Invariance == Spec => []IInv
<1>1. Init => IInv
  BY InitIInv
<1>2. IInv /\ [Next]_vars => IInv'
  BY NextIInv
<1> QED BY <1>1, <1>2, PTL DEF Spec
-----------------------------------------------------------------------------
(* The state is well formed.                                               *)
THEOREM EmailTypeCorrect == Spec => []TypeOK
<1>1. IInv => TypeOK
  BY DEF IInv, Types, TypeOK, Desks, HookSteps
<1> QED BY <1>1, Invariance, PTL

(* A mail dispatched once is accepted upstream at most once, whatever is   *)
(* put off and scheduled again: it is in the queue, on the schedule or     *)
(* with one job, and only from there is it handed over.                    *)
THEOREM AcceptedOnce == Spec => []AtMostOnce
<1>1. IInv => AtMostOnce
  BY DEF IInv, OnePlace
<1> QED BY <1>1, Invariance, PTL

(* What a task sends is nothing that its recipient had refused, or been    *)
(* suppressed from, by a request answered before the task started, unless  *)
(* it went by a stale entry of the cache.                                  *)
THEOREM RefusalsHonoured == Spec => []OptOutHonoured
<1>1. IInv => OptOutHonoured
  BY DEF IInv, Kept, JobOK, OptOutHonoured, At
<1> QED BY <1>1, Invariance, PTL

(* A cached entry that differs from the database, but for the verification *)
(* of the address, is about to be evicted or known as stale.               *)
THEOREM CacheAccountedFor == Spec => []CacheCoherent
<1>1. IInv => CacheCoherent
  BY DEF IInv
<1> QED BY <1>1, Invariance, PTL
=============================================================================
