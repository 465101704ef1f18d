--------------------------- MODULE EmailPipeline ---------------------------
(***************************************************************************)
(* A mail from the use case that dispatches it (services/dispatch.py)      *)
(* through the job queue to the worker (worker.py) and upstream, with what *)
(* decides whether it may go: the recipient's preferences in the database, *)
(* their copy cached for a day (services/user.py), the suppression of      *)
(* addresses without an account, and the lock set when the provider        *)
(* refuses more mail.  Unsubscriptions and the provider's delivery         *)
(* webhooks (emails/webhooks/handler.py) change the preferences meanwhile. *)
(*                                                                         *)
(* Every call to the database, to Redis, to the queue and to the provider  *)
(* is a step.  The queue is external (saq): jobs leave it first in first   *)
(* out, every job has a copy of the worker's context, what the before hook *)
(* returns is ignored, and a job that raises, or is cut off because the    *)
(* worker stops, is assumed not to be run again.  Were it, a mail accepted *)
(* upstream just before the end of its job would be sent twice.            *)
(***************************************************************************)
EXTENDS EmailTemplates, Naturals, SequencesExt

CONSTANTS
    Addresses,
    Clubs,
    Workers,   \* the jobs a worker process works on at once
    Workloads  \* what may happen: a behaviour has one of them

VARIABLES
    prefs,     \* prefs[e]: the preferences of the account with address e, NULL without one
    blocked,   \* the addresses suppressed in Redis
    cache,     \* cache[e]: the preferences cached for e, NULL if none
    lock,      \* the provider's quota is known to be used up
    queue,     \* the jobs to be done, in order
    later,     \* the jobs scheduled for later
    desk,      \* desk[d]: how far the dispatch d is
    worker,    \* worker[w]: the job w works on, NULL if free
    hook,      \* hook[h]: how far the delivery of the webhook h is
    seen,      \* the webhooks recorded as handled
    unsub,     \* unsub[u]: how far the unsubscription u is
    handed,    \* history: handed[m]: how often m was accepted upstream
    answered,  \* history: answered[e]: what e need not expect any more, by answered requests
    stale,     \* history: the addresses cached by a fill that raced, or by a lost eviction
    workload   \* [dispatches, events, unsubs, registered, registers, workers]

requests == <<desk, hook, seen, unsub, answered>>
jobs == <<queue, later, worker, handed>>
vars == <<prefs, blocked, cache, lock, jobs, requests, stale, workload>>

(* What a mail can be refused for: EmailPreferencesSchema keeps opt-outs   *)
(* by category and by club, and system suppressions by category.           *)
Scopes == EmailCategory \cup Clubs
EmailPreferences == [verified : BOOLEAN, failed : BOOLEAN,
                     suppressed : SUBSET EmailCategory, optOut : SUBSET Scopes]
NewPreferences == [verified |-> FALSE, failed |-> FALSE, suppressed |-> {}, optOut |-> {}]
(* The same but for the verification of the address.                       *)
Alike(p, q) == [p EXCEPT !.verified = TRUE] = [q EXCEPT !.verified = TRUE]

Mails == UNION {UNION wl.dispatches : wl \in Workloads}
Fatal == {"BOUNCED", "SUPPRESSED"}
EventType == Fatal \cup {"COMPLAINED", "FAILED", "DELIVERED"}
Events == [type : EventType, to : Addresses]

(* phase: the before hook, or the task; owed: what the recipient need not  *)
(* expect when the task starts; excused: it used a stale entry.            *)
Jobs == [mail : Mails,
         pc : {"quota", "find", "read", "save", "postpone", "gate", "send", "lock"},
         phase : {"hook", "task"}, prefs : EmailPreferences \cup {NULL},
         owed : SUBSET Scopes, excused : BOOLEAN]

(* A mail is dispatched by one use case, on its own.  Unsubscriptions name *)
(* an account's address, the mail with the link if any, and what is        *)
(* refused.                                                                *)
Workloadable(wl) ==
    /\ \A d1, d2 \in wl.dispatches : d1 # d2 => d1 \cap d2 = {}
    /\ wl.events \subseteq Events
    /\ wl.unsubs \subseteq [to : Addresses, mail : Mails \cup {NULL}, scope : Scopes]

ASSUME PipelineAssumption ==
    /\ \A wl \in Workloads : Workloadable(wl)
    /\ Mails \subseteq [template : Templates, to : Addresses, club : Clubs \cup {NULL},
                       known : BOOLEAN]
    /\ \A m \in Mails : m.template.scoped => m.club \in Clubs
    /\ Clubs \cap EmailCategory = {}
    /\ NULL \notin EmailPreferences \cup Jobs

TypeOK ==
    /\ prefs \in [Addresses -> EmailPreferences \cup {NULL}]
    /\ blocked \subseteq Addresses /\ lock \in BOOLEAN
    /\ cache \in [Addresses -> EmailPreferences \cup {NULL}]
    /\ queue \in Seq(Mails) /\ later \subseteq Mails
    /\ \A d \in DOMAIN desk : desk[d].pc \in {"load", "gate", "enqueue"} /\ desk[d].left \subseteq d
    /\ worker \in [Workers -> Jobs \cup {NULL}]
    /\ \A w \in Workers : worker[w] # NULL /\ worker[w].pc = "save" => worker[w].prefs # NULL
    /\ \A h \in DOMAIN hook :
          hook[h] \in {"due", "find", "exists", "block", "write", "evict", "key", "done"}
    /\ seen \subseteq DOMAIN hook
    /\ \A u \in DOMAIN unsub : unsub[u] \in {"due", "write", "evict", "done"}
    /\ handed \in [Mails -> Nat]
    /\ answered \in [Addresses -> SUBSET Scopes] /\ stale \subseteq Addresses
    /\ workload \in Workloads
-----------------------------------------------------------------------------
(* is_delivery_allowed.                                                    *)
Kinds(m) == {m.template.category} \cup
            (IF m.template.scoped /\ m.template.category = "engagement" THEN {m.club} ELSE {})
\* Mutant: an opt-out from a club's mails is not looked at.
IsDeliveryAllowedByCategory(m, p) ==
    /\ m.template.category \notin p.suppressed \cup p.optOut
    /\ p.verified \/ m.template.category = "transactional"
IsDeliveryAllowed(m, p) ==
    /\ m.template.category \notin p.suppressed
    /\ Kinds(m) \cap p.optOut = {}
    /\ p.verified \/ m.template.category = "transactional"

(* Writers of the preferences.                                             *)
ApplyGlobalSuppression(p) == [p EXCEPT !.failed = TRUE, !.suppressed = EmailCategory]
ApplySpamSuppression(p) ==
    [p EXCEPT !.failed = TRUE, !.suppressed = @ \cup {"engagement", "promotional"}]
SetDeliveryFailed(p, failed) == [p EXCEPT !.failed = failed]
OptOut(p, scope) == [p EXCEPT !.optOut = @ \cup {scope}]

Evict(e) == cache' = [cache EXCEPT ![e] = NULL] /\ stale' = stale \ {e}
-----------------------------------------------------------------------------
(* A use case loads the recipients' accounts, and then dispatches.         *)
Load(d) ==
    /\ desk[d].pc = "load"
    /\ \A m \in d : m.known => prefs[m.to] # NULL
    /\ desk' = [desk EXCEPT ![d] =
          [pc |-> "gate", left |-> d, prefs |-> [m \in d |-> IF m.known THEN prefs[m.to] ELSE NULL]]]
    /\ UNCHANGED <<prefs, blocked, cache, lock, jobs, hook, seen, unsub, answered, stale, workload>>

(* dispatch, dispatch_batch: one lookup of the suppressed addresses, the   *)
(* policy on the preferences loaded, and the mails left are enqueued one   *)
(* by one.                                                                 *)
CheckExternalSuppressions(d) ==
    /\ desk[d].pc = "gate"
    /\ desk' = [desk EXCEPT ![d].pc = "enqueue", ![d].left =
          {m \in d : /\ m.to \notin blocked
                     /\ desk[d].prefs[m] # NULL => IsDeliveryAllowed(m, desk[d].prefs[m])}]
    /\ UNCHANGED <<prefs, blocked, cache, lock, jobs, hook, seen, unsub, answered, stale, workload>>

Enqueue(d) ==
    /\ desk[d].pc = "enqueue"
    /\ \E m \in desk[d].left :
          /\ queue' = Append(queue, m)
          /\ desk' = [desk EXCEPT ![d].left = @ \ {m}]
    /\ UNCHANGED <<prefs, blocked, cache, lock, later, worker, handed,
                   hook, seen, unsub, answered, stale, workload>>
-----------------------------------------------------------------------------
(* The worker.  Job w goes on as j; NULL: it is over.                      *)
At(w, pc) == worker[w] # NULL /\ worker[w].pc = pc
High(w) == worker[w].mail.template.priority = "high"
Owner(w) == worker[w].mail.to
Continue(w, j) == worker' = [worker EXCEPT ![w] = j]
Working(w, j) == Continue(w, j) /\ UNCHANGED <<prefs, blocked, queue, later, requests, workload>>
Reads(w, j) == Working(w, j) /\ UNCHANGED <<cache, lock, handed, stale>>
Then(w, pc) == [worker[w] EXCEPT !.pc = pc]

Take(w) ==
    /\ worker[w] = NULL /\ w \in workload.workers /\ queue # <<>>
    /\ queue' = Tail(queue)
    /\ Continue(w, [mail |-> Head(queue), pc |-> "quota", phase |-> "hook", prefs |-> NULL,
                    owed |-> {}, excused |-> FALSE])
    /\ UNCHANGED <<prefs, blocked, cache, lock, later, handed, requests, stale, workload>>

(* The before hook: while the quota is used up only urgent mail goes on.   *)
IsQuotaLockActive(w) ==
    /\ At(w, "quota")
    /\ Reads(w, Then(w, IF lock /\ ~High(w) THEN "postpone" ELSE "find"))

(* A stale mail of low priority leaves the hook early: what the hook       *)
(* returns is ignored, and the task runs without the recipient's check.    *)
IsStaleLowPriorityTask(w) ==
    /\ At(w, "quota") /\ worker[w].mail.template.priority = "low" /\ ~lock
    /\ Reads(w, Then(w, "gate"))

(* The recipient's preferences p are there: the hook postpones mail to     *)
(* those whom mail fails to reach, the task drops what is not allowed.     *)
Resolved(w, p) ==
    LET j == worker[w]
    IN  CASE j.phase = "hook" /\ p.failed /\ ~High(w) -> [j EXCEPT !.pc = "postpone", !.prefs = NULL]
          [] j.phase = "hook" /\ (~p.failed \/ High(w)) -> [j EXCEPT !.pc = "gate", !.prefs = NULL]
          [] j.phase = "task" /\ IsDeliveryAllowed(j.mail, p) ->
                [j EXCEPT !.pc = "send", !.prefs = NULL]
          [] OTHER -> NULL

(* get_email_preferences: the cache, else the database, whose answer is    *)
(* cached if the address has an account.                                   *)
FindCachedPreferences(w) ==
    /\ At(w, "find")
    /\ LET e == Owner(w)
       IN  Reads(w, IF cache[e] = NULL THEN Then(w, "read")
                    ELSE LET j == Resolved(w, cache[e])
                         IN  IF j = NULL THEN NULL
                             ELSE [j EXCEPT !.excused = j.pc = "send" /\ e \in stale])

FindPreferencesByEmail(w) ==
    /\ At(w, "read")
    /\ LET p == prefs[Owner(w)]
       IN  Reads(w, IF p = NULL THEN Resolved(w, NewPreferences)
                    ELSE [worker[w] EXCEPT !.pc = "save", !.prefs = p])

SavePreferences(w) ==
    /\ At(w, "save")
    /\ LET e == Owner(w)
           p == worker[w].prefs
       IN  /\ cache' = [cache EXCEPT ![e] = p]
           /\ stale' = IF Alike(p, prefs[e]) THEN stale \ {e} ELSE stale \cup {e}
           /\ Working(w, Resolved(w, p))
    /\ UNCHANGED <<lock, handed>>

(* _requeue_job, and the task that follows gives up.                       *)
\* Mutant: the task goes on with the mail it has put back.
RequeueGoesOn(w) ==
    /\ At(w, "postpone")
    /\ later' = later \cup {worker[w].mail}
    /\ Continue(w, Then(w, "gate"))
    /\ UNCHANGED <<prefs, blocked, cache, lock, queue, handed, requests, stale, workload>>
Requeue(w) ==
    /\ At(w, "postpone")
    /\ later' = later \cup {worker[w].mail}
    /\ Continue(w, NULL)
    /\ UNCHANGED <<prefs, blocked, cache, lock, queue, handed, requests, stale, workload>>

(* send_email_task: the suppression gate, then the preferences once more.  *)
IsExternalSuppressed(w) ==
    /\ At(w, "gate")
    /\ LET e == Owner(w)
       IN  Reads(w, IF e \in blocked THEN NULL
                    ELSE [worker[w] EXCEPT !.pc = "find", !.phase = "task", !.owed = answered[e]])

(* The provider accepts the mail, or refuses it, which the task takes for  *)
(* sent, or has no quota left (or the client is disabled).                 *)
Send(w) ==
    /\ At(w, "send")
    /\ \/ Working(w, NULL) /\ handed' = [handed EXCEPT ![worker[w].mail] = @ + 1]
       \/ Working(w, NULL) /\ UNCHANGED handed
       \/ Working(w, Then(w, "lock")) /\ UNCHANGED handed
    /\ UNCHANGED <<cache, lock, stale>>

SaveQuotaLock(w) ==
    /\ At(w, "lock")
    /\ lock' = TRUE
    /\ Working(w, NULL)
    /\ UNCHANGED <<cache, handed, stale>>

(* A call of the job raises, times out, or the worker stops.  That the     *)
(* queue then gives the job up is an assumption about saq, which the       *)
(* source does not settle; too few attempts were made for the dead letter  *)
(* queue.                                                                  *)
Fail(w) == worker[w] # NULL /\ Reads(w, NULL)

(* Timers: a scheduled job is due; the lock, a cached entry, the year that *)
(* an address without an account is suppressed and the hour a webhook is   *)
(* known expire.  A delivery takes no year, and what is over with the      *)
(* suppression is owed no longer.                                          *)
Due(m) ==
    /\ m \in later
    /\ later' = later \ {m} /\ queue' = Append(queue, m)
    /\ UNCHANGED <<prefs, blocked, cache, lock, worker, handed, requests, stale, workload>>

\* Mutant: the lock is saved without an expiry.
QuotaLockNeverExpires == FALSE /\ UNCHANGED vars
QuotaLockExpires ==
    lock /\ lock' = FALSE
    /\ UNCHANGED <<prefs, blocked, cache, jobs, requests, stale, workload>>

CacheExpires(e) ==
    /\ cache[e] # NULL /\ Evict(e)
    /\ UNCHANGED <<prefs, blocked, lock, jobs, requests, workload>>

SuppressionExpires(e) ==
    /\ e \in blocked /\ \A h \in DOMAIN hook : hook[h] = "key" => h.to # e
    /\ blocked' = blocked \ {e} /\ answered' = [answered EXCEPT ![e] = {}]
    /\ UNCHANGED <<prefs, cache, lock, jobs, desk, hook, seen, unsub, stale, workload>>

WebhookExpires(h) ==
    /\ h \in seen /\ seen' = seen \ {h}
    /\ UNCHANGED <<prefs, blocked, cache, lock, jobs, desk, hook, unsub, answered, stale, workload>>
-----------------------------------------------------------------------------
(* A delivery of webhook h, the steps of handle_webhook.  It is delivered  *)
(* again while it is not known to have been answered.                      *)
Goes(h, from, to) == hook[h] = from /\ hook' = [hook EXCEPT ![h] = to]
Webhook(h) ==
    UNCHANGED <<lock, jobs, desk, unsub, workload>>

Deliver(h) ==
    /\ \/ Goes(h, "due", "find")
       \/ Goes(h, "done", "find")
    /\ Webhook(h) /\ UNCHANGED <<prefs, blocked, cache, stale, seen, answered>>

FindWebhook(h) ==
    /\ Goes(h, "find", IF h \in seen THEN "done" ELSE "exists")
    /\ Webhook(h) /\ UNCHANGED <<prefs, blocked, cache, stale, seen, answered>>

ExistsByEmail(h) ==
    /\ Goes(h, "exists", CASE prefs[h.to] # NULL -> "write"
                           [] prefs[h.to] = NULL /\ h.type \in Fatal \cup {"COMPLAINED"} -> "block"
                           [] OTHER -> "key")
    /\ Webhook(h) /\ UNCHANGED <<prefs, blocked, cache, stale, seen, answered>>

SuppressExternal(h) ==
    /\ Goes(h, "block", "key")
    /\ blocked' = blocked \cup {h.to}
    /\ Webhook(h) /\ UNCHANGED <<prefs, cache, stale, seen, answered>>

(* _evaluate_reputation_event, for an account: only a delivery that        *)
(* changes nothing leaves the cache alone.                                 *)
Evaluated(h, p) ==
    CASE h.type \in Fatal -> ApplyGlobalSuppression(p)
      [] h.type = "COMPLAINED" -> ApplySpamSuppression(p)
      [] h.type = "FAILED" -> SetDeliveryFailed(p, TRUE)
      [] h.type = "DELIVERED" -> SetDeliveryFailed(p, FALSE)

\* Mutant: an operational failure does not evict the cached preferences.
EvaluateKeepFailed(h) ==
    LET p == Evaluated(h, prefs[h.to])
    IN  /\ Goes(h, "write", IF h.type = "FAILED" THEN "key" ELSE "evict")
        /\ prefs' = [prefs EXCEPT ![h.to] = p]
        /\ Webhook(h) /\ UNCHANGED <<blocked, cache, stale, seen, answered>>
Evaluate(h) ==
    LET p == Evaluated(h, prefs[h.to])
    IN  /\ Goes(h, "write", IF h.type = "DELIVERED" /\ p = prefs[h.to] THEN "key" ELSE "evict")
        /\ prefs' = [prefs EXCEPT ![h.to] = p]
        /\ Webhook(h) /\ UNCHANGED <<blocked, cache, stale, seen, answered>>

EvictPreferences(h) ==
    /\ Goes(h, "evict", "key")
    /\ Evict(h.to)
    /\ Webhook(h) /\ UNCHANGED <<prefs, blocked, seen, answered>>

(* The webhook is answered: from here on its suppression is owed.          *)
SaveWebhook(h) ==
    /\ Goes(h, "key", "done")
    /\ seen' = seen \cup {h}
    /\ answered' = [answered EXCEPT ![h.to] = @ \cup
          CASE h.type \in Fatal -> EmailCategory
            [] h.type = "COMPLAINED" -> {"engagement", "promotional"}
            [] OTHER -> {}]
    /\ Webhook(h) /\ UNCHANGED <<prefs, blocked, cache, stale>>

(* A step fails: the delivery is answered by an error, and comes again.    *)
WebhookFails(h) ==
    /\ hook[h] \notin {"due", "done"} /\ hook' = [hook EXCEPT ![h] = "due"]
    /\ stale' = IF hook[h] = "evict" /\ cache[h.to] # NULL THEN stale \cup {h.to} ELSE stale
    /\ Webhook(h) /\ UNCHANGED <<prefs, blocked, cache, seen, answered>>
-----------------------------------------------------------------------------
(* An unsubscription u, of the link in a mail that has arrived, or of an   *)
(* earlier one; process_unsubscribe.                                       *)
Unsubscribing(u) == UNCHANGED <<blocked, lock, jobs, desk, hook, seen, workload>>

Follow(u) ==
    /\ unsub[u] = "due" /\ prefs[u.to] # NULL
    /\ u.mail # NULL => handed[u.mail] > 0 /\ u.mail.template.link
    /\ unsub' = [unsub EXCEPT ![u] = "write"]
    /\ Unsubscribing(u) /\ UNCHANGED <<prefs, cache, stale, answered>>

WriteOptOut(u) ==
    /\ unsub[u] = "write"
    /\ prefs' = [prefs EXCEPT ![u.to] = OptOut(@, u.scope)]
    /\ unsub' = [unsub EXCEPT ![u] = "evict"]
    /\ Unsubscribing(u) /\ UNCHANGED <<cache, stale, answered>>

EvictAfterOptOut(u) ==
    /\ unsub[u] = "evict"
    /\ Evict(u.to)
    /\ unsub' = [unsub EXCEPT ![u] = "done"]
    /\ answered' = [answered EXCEPT ![u.to] = @ \cup {u.scope}]
    /\ Unsubscribing(u) /\ UNCHANGED prefs

UnsubscribeFails(u) ==
    /\ unsub[u] \in {"write", "evict"} /\ unsub' = [unsub EXCEPT ![u] = "done"]
    /\ stale' = IF unsub[u] = "evict" /\ cache[u.to] # NULL THEN stale \cup {u.to} ELSE stale
    /\ Unsubscribing(u) /\ UNCHANGED <<prefs, cache, answered>>

(* An account is made for an address, verified at once when a provider     *)
(* vouches for it; or the code sent to it comes back.  Neither looks at    *)
(* the suppressed addresses or evicts the cached preferences.              *)
Register(e) ==
    /\ prefs[e] = NULL /\ e \in workload.registers
    /\ \E verified \in BOOLEAN :
          prefs' = [prefs EXCEPT ![e] = [NewPreferences EXCEPT !.verified = verified]]
    /\ UNCHANGED <<blocked, cache, lock, jobs, requests, stale, workload>>

MarkEmailAsVerified(e) ==
    /\ prefs[e] # NULL /\ ~prefs[e].verified
    /\ prefs' = [prefs EXCEPT ![e].verified = TRUE]
    /\ UNCHANGED <<blocked, cache, lock, jobs, requests, stale, workload>>
-----------------------------------------------------------------------------
Init ==
    /\ workload \in Workloads
    /\ prefs = [e \in Addresses |-> IF e \in workload.registered
                                    THEN [NewPreferences EXCEPT !.verified = TRUE] ELSE NULL]
    /\ blocked = {} /\ lock = FALSE
    /\ cache = [e \in Addresses |-> NULL]
    /\ queue = <<>> /\ later = {}
    /\ desk = [d \in workload.dispatches |-> [pc |-> "load", left |-> {}, prefs |-> NULL]]
    /\ worker = [w \in Workers |-> NULL]
    /\ hook = [h \in workload.events |-> "due"] /\ seen = {}
    /\ unsub = [u \in workload.unsubs |-> "due"]
    /\ handed = [m \in Mails |-> 0]
    /\ answered = [e \in Addresses |-> {}] /\ stale = {}

Advance(w) ==
    \/ IsQuotaLockActive(w) \/ IsStaleLowPriorityTask(w) \/ FindCachedPreferences(w)
    \/ FindPreferencesByEmail(w) \/ SavePreferences(w) \/ Requeue(w)
    \/ IsExternalSuppressed(w) \/ Send(w) \/ SaveQuotaLock(w)

Next ==
    \/ \E d \in DOMAIN desk : Load(d) \/ CheckExternalSuppressions(d) \/ Enqueue(d)
    \/ \E w \in Workers : Take(w) \/ Advance(w) \/ Fail(w)
    \/ \E m \in Mails : Due(m)
    \/ \E e \in Addresses :
          CacheExpires(e) \/ SuppressionExpires(e) \/ Register(e) \/ MarkEmailAsVerified(e)
    \/ QuotaLockExpires
    \/ \E h \in DOMAIN hook :
          \/ Deliver(h) \/ FindWebhook(h) \/ ExistsByEmail(h) \/ SuppressExternal(h)
          \/ Evaluate(h) \/ EvictPreferences(h) \/ SaveWebhook(h) \/ WebhookFails(h)
          \/ WebhookExpires(h)
    \/ \E u \in DOMAIN unsub :
          Follow(u) \/ WriteOptOut(u) \/ EvictAfterOptOut(u) \/ UnsubscribeFails(u)

(* The worker process runs, and timers fire.  Nothing is assumed of use    *)
(* cases, clients and the provider's webhooks.                             *)
Fairness ==
    /\ WF_vars(\E w \in Workers : Take(w))
    /\ \A w \in Workers : WF_vars(Advance(w))
    /\ \A m \in Mails : WF_vars(Due(m))
    /\ WF_vars(QuotaLockExpires)
    /\ \A e \in Addresses : WF_vars(CacheExpires(e))

Spec == Init /\ [][Next]_vars /\ Fairness
-----------------------------------------------------------------------------
(* A mail dispatched once is accepted upstream at most once, however often *)
(* it is put back for later.                                               *)
AtMostOnce == \A m \in Mails : handed[m] <= 1

(* No mail is about to be sent that its recipient need not expect since    *)
(* before the task started: an unsubscription or a suppression that was    *)
(* answered counts, unless the task went by an entry that a racing fill,   *)
(* or an eviction that got lost, had left in the cache.                    *)
OptOutHonoured ==
    \A w \in Workers :
        At(w, "send") /\ ~worker[w].excused => Kinds(worker[w].mail) \cap worker[w].owed = {}

(* Cached preferences that differ from those in the database, other than   *)
(* in the verification, are about to be evicted, or a fill raced with the  *)
(* eviction, or it got lost.                                               *)
CacheCoherent ==
    \A e \in Addresses :
        cache[e] # NULL /\ ~Alike(cache[e], prefs[e]) =>
            \/ e \in stale
            \/ \E h \in DOMAIN hook : h.to = e /\ hook[h] = "evict"
            \/ \E u \in DOMAIN unsub : u.to = e /\ unsub[u] = "evict"

(* A mail that waits gets sent or given up for good, as long as it does    *)
(* not wait for a recipient whom mail fails to reach: neither the quota    *)
(* nor a cached failure holds it back forever.                             *)
Waiting(m) ==
    \/ m \in ToSet(queue) \cup later
    \/ \E w \in Workers : worker[w] # NULL /\ worker[w].mail = m
Unreachable(e) == prefs[e] # NULL /\ prefs[e].failed
EveryJobSettles == \A m \in Mails : Waiting(m) ~> (~Waiting(m) \/ Unreachable(m.to))
=============================================================================
