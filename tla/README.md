# Verification of Canterlot

Canterlot is the backend of a book-club application: a FastAPI service over
MongoDB (through *beanie* and a local layer called *hoodie*), Redis (cache and
rate limits) and a SAQ worker that sends e-mail. This directory holds TLA+
models of its core, the TLC configurations that check them, and proofs checked
by TLAPS. Paths below are relative to `src/canterlot/` in the repository.

## The system

Every HTTP request is a coroutine. Between two `await`s nothing else runs in
its process; at each database call any other request, in this process or in
another one, may run. There are no locks above the database: consistency rests
on conditional updates, unique indexes and a few Mongo transactions. That is
where the interesting behaviour is, and it is hard to reach with tests.

| Component | State | Operations | What makes it correct |
|---|---|---|---|
| Club roster and ownership (`services/club.py`) | one membership row per (club, user); on the club the join policy and the record of the last transfer | create, admit, approve, reject, remove, change role, leave, transfer, reclaim, settings, dissolve | one owner; bans and protection windows honoured; ownership moves atomically |
| Reading rounds (`services/round.py`) | round documents, completion rows | start, finalize (draw, vote), mark finished, progress | one active round; a book chosen once; concluded by the last finisher |
| Catalog (`services/catalog.py`) | books shared by all clubs, one entry per (club, book) | suggest, remove, list | racing suggestions keep a book and lose no link; books of the active round cannot be removed |
| Search queries and sync (`hoodie/query.py`, `hoodie/sync.py`) | the clauses of a query; pending entries, futures and one polling task per index | search, paginate; register, poll, resolve, give up | pages partition results; every writer is told the truth, and is told |
| Transactions (`hoodie/transactions.py`) | ambient session | run, retry, absorb a conflict | all or nothing |
| Invites (`services/invite.py`) | public links and direct invitations | create, rotate, validate, use | serve their target; a dead one stays dead; one public link |
| Accounts and sessions (`services/auth.py`) | refresh tokens, linked providers, password, avatar | register, sign in, rotate, logout, link, disconnect, revoke | ended sessions stay ended; a last sign-in method remains; one account per identity |
| Verification (`services/verification.py`) | codes with attempts and expiry | request, validate | one active code; a used code stays used |
| E-mail (`services/dispatch.py`, `worker.py`, `emails/`) | preferences and their cache, suppressed addresses, queue, quota lock, handled webhooks | dispatch, send, put back, webhook, unsubscribe | sent once; nothing against an opt-out; nothing held back for ever |
| Rate limits, cache (`routers/dependencies/rate_limiter.py`, `repositories/redis/`) | counters with an expiry | evaluate | a limit holds per window, and a window ends |
| Book search, ranking (`services/book.py`, `text/`, `utils/scoring.py`) | cached chunks | search, score, paginate | a page is its part of the results |
| Mirror pool (`utils/mirror.py`) | the preferred mirror | execute | no task left behind; fails only if all mirrors fail |
| HTTP surface, templates, health | none | | |

Interactions: the routers load the club document by slug and hand that snapshot
to the services; accepting an invitation calls `admit_user`; rounds read the
roster and the catalog, and the catalog reads the active round before a
removal; a suggestion asks the mirror pool for links; nearly every use case ends
by dispatching an e-mail; registration can use an invitation; the search of books
and the rate limits share Redis; finishing a round writes the reading history; dissolution deletes the
club, its roster and its catalog but neither its rounds nor its invites; a
`@transactional` body defers the search verification of its writes to its end.

The hard behaviours are therefore: decisions taken on rows read earlier;
updates that do not repeat the condition they were decided on; two documents
that must change together; requests that die between two writes; and waiting
for something another task must do. `PROJECT.json` lists them line by line
under `hazards`.

## Modules

| Module | Models |
|---|---|
| `ClubMembership` | roster and ownership of one club, one action per database call |
| `ClubOwnership` | what ownership promises, without roster or requests |
| `ReadingRound` | rounds, completions, histories and catalog removals of one club |
| `SearchSync` | the wait group of one search index |
| `UserStore`, `VerificationStore` | the collections of accounts and codes: documents, unique indexes, and each write as a new value |
| `Accounts` | registration, sessions, passwords, providers, codes, on those collections |
| `Invites` | invitations of one club, from issue to use |
| `EmailTemplates` | category, priority and link of every template; the mails of every use case |
| `EmailPipeline` | a mail from its use case to the provider, preferences, cache, webhooks |
| `RateLimiter` | the limits of the routes and their counters |
| `MirrorPool` | runs of the pool of mirrors |
| `SearchQuery` | a query's clauses, scope, limit and pages (operators) |
| `Relevance` | weights and language matches (operators) |
| `BookCatalog` | suggestions, books, catalog pages and index searches; extends `MirrorPool`, `SearchQuery`, `Relevance` |
| `BookSearch` | the search outside with its cached chunks |
| `Library` | composes `BookCatalog`, `BookSearch` and `RateLimiter` |
| `ClubMembershipProofs` | theorems about the roster, and that it implements `ClubOwnership` |
| `ReadingRoundProofs` | theorems about rounds: those that hold whatever overlaps, and those that starts or removals that overlap can break |
| `InvitesProofs`, `AccountsProofs`, `EmailPipelineProofs`, `SearchSyncProofs` | theorems |
| `RateLimiterProofs` | the inductive invariant of the counters |
| `LibraryProofs` | theorems about mirrors, books, pages, searches and limits, and about the orders results are listed in |
| `MC...` | instances for TLC: workloads, symmetry sets |

Operators whose comment says *Mutant* are wrong versions of a definition. No
specification uses them: each shows that some property would notice that error.

### ClubMembership

`club` is the club document, `status[u]` the membership row of `u` (`"NONE"`
without a row), `now` the clock, and `req[r]` the request in slot `r` with its
call, the club document it loaded, its next database call (`pc`) and what it
has read. A request starts in `LoadClub` and then takes the steps of its
service method: `RemoveReadRemover`, `RemoveReadTarget`, `BanMember` are the
three database calls of `remove_member`, with the checks between them folded
into the step that precedes the check. `transfer_ownership` and
`reclaim_ownership` of the repository, the creation and the dissolution are
transactions, and one step each: they write every document they depend on, so a
competing writer makes them retry or abort. `upsert_member` is an update and,
if no row matched, an insert that the unique index may refuse.

Left out: slugs, names, languages, e-mails (no guard reads them), and the
read-only views. `"admit"` and `"admitDirect"` stand for accepting a public
link and a personal invitation; `Invites` has the invitation itself. A
request that dies is a request whose next step never comes.

### ReadingRound

`role`, `catalog`, `rounds`, `done` (completion rows), `read` (histories) and
`req`. Requests work as above, `Local` lists what a request holds in its local
variables before each database call. The transaction of `record_completion` is
modelled with its snapshot: `FinishBegin` takes it, `FinishCommit` either
commits or finds that a document it writes changed and starts again. `Abort`
ends any request between two calls. Weights are positive, so a draw may return
any candidate; `select_top_n_pool` returns any `PoolMax` of the eligible books.
Nothing in the code leaves `VOTING` or sets `CANCELLED`. The roster is changed
by the three actions `Join`, `Depart`, `ChangeRole`; `ClubMembership` has the
detail.

### SearchSync

`stored` and `indexed` number the writes of a document in the database and in
the index. `writer[w]` is a coroutine inside a `@synced` method; `pending`,
`waiters` and `task` are the fields of `_WaitGroup`. The code compares entries
by identity (`is`); here an entry is the number of its write, which `Fresh` in
the proofs shows to be as good. An index entry matches the fields a writer
expects only if it reflects exactly that write, which is how `_match_clauses`
behaves for writes that change an indexed field. The engine (`Index`,
`Evaluate`) is external: it applies writes in order and may fail a query.

### Accounts

`acct` and `codes` are the two collections; a request is the list of steps it
has still to take, and `Program` gives the list every use case begins with. A
step is one call of the database, of a provider or of the queue; `Writes` marks
all other requests as overtaken (`raced`). Refresh tokens are JWTs over whole
seconds, so a token is the second it was issued in; two issued in one second are
one. `changed`, `ended` and `serial` are history: the second of the last
password change, the tokens that were meant to be over, and whether a request
has written after another one wrote during its life. Properties that a race of
two requests does break are stated under `serial`, and the race is described
below. `Init` has no account, or one, registered or made by a sign-in with Google and
maybe linked to Gravatar since. `UserStore.ByIdentity` matches the provider and the
external id each in some entry of the account, as the filter without `$elemMatch` does:
`Crosses` names the accounts that it finds without their holding the identity.

### Invites

`club`, `seat`, `accounts` and `invites` are the collections, `req` the
requests. Users and addresses are in bijection. `through` and `grants` (history)
say whom an invitation seated and how often. The two calls of `upsert_member`
are one step here, since `ClubMembership` has their detail. `Moderate` and
`Dissolve` are the rest of the club's operations, `Lapse` and `Expire` the week
a direct invitation lives and the TTL index.

### EmailPipeline

`desk[d]` is a use case that dispatches, `worker[w]` a job being worked on,
`hook[h]` a webhook and `unsub[u]` an unsubscription on its way. A job runs the
before hook and then the task; the queue (saq) ignores what the hook returns,
which is why only the mark `abort_job` in the job's context keeps the task from sending
a mail that was put back, and why a stale mail of low priority goes on without the
recipient's check. `answered` (history) is what a recipient need no longer
expect since a request of theirs was answered, `stale` the addresses whose cache
entry comes from a fill that raced with an eviction, or outlived one that
failed. The keys of Redis expire: cached preferences, the quota lock, the year for which an
address without an account is suppressed (after which `answered` holds nothing against it)
and the hour for which a webhook is known. `Fail` is a job that ends early, for any reason,
and is assumed to be over: the repository does not say whether saq runs a job again that a
stopping worker cut off. `EmailTemplates` gives for each template what the pipeline looks at,
and for each use case the set of mails it dispatches.

### Library

A suggestion of `BookCatalog` is matched by ISBN and then by its provider's id,
scrapes links through one run of `MirrorPool` per query, and supplements the book
or creates it. A book has an ISBN, one fillable field `about` and a link per
format, each named by who it came from; that is enough to see one suggestion
overwrite another. A mirror answers with any candidates, of formats that were not asked for
too, and `Merge` takes them as the code does. Candidates carry their similarity, and `Relevance` computes
the scores in integers. A page is a request for a part of the catalog or of a
`SearchQuery` in the index, whose matches each clause names: `Build` folds the
calls of the chain into the query, and `BestFirst` lists what it matches in the order
of the engine. `BookSearch` cuts pages out of cached chunks of `Volumes`, each sorted
as it was fetched (`SortedChunk`). In `RateLimiter` a call is checked by
the counters of its rule one after the other, and `age` (history) is how long ago
each counted it.

## Runs

Passing:

- `club_serial` (3 users, 1 slot, windows 1 and 2, clock to 3): all operations,
  one at a time. A live club has exactly one owner, a former owner cannot be
  removed, demoted, made to leave or dissolved around during the cooldown, a ban
  is lifted only by a direct invitation, and the specification implements
  `ClubOwnership` (owner, former owner and time of the transfer as refinement
  mapping). The clock passes both windows.
- `club_concurrent` (3 users, 2 slots): two requests interleaved at every
  database call. Requests that overlap either hand the club over (clock to 1) or
  moderate its roster (`Overlap` in `MCClubMembership`); all pairs are too many states. At most one owner, a coherent transfer record,
  ownership moving only by swap, no owner after dissolution; a stale admission
  never makes a member or a banned user pending.
- `round_serial` (2 users, 3 books, 2 rounds, 1 slot): one active round, the
  catalog lock, and no second reading of a book while the roster is stable.
- `round_concurrent` (3 users, 2 books, 1 round, 2 slots, changing roster):
  the order of statuses, the choice of the book, the conclusion by exactly the
  last finisher, completions behind every history entry.
- `search_sync` (2 documents, 2 writers, 2 attempts, 2 writes per document):
  no lost waiter, no credit against an older query, every wait ends. Deadlock is
  not checked since writes are bounded by `MaxVersion`.
- `accounts` (2 users, names, addresses, passwords, codes and slots, 2 providers,
  2 external ids where identities are looked up, twelve workloads): the operations of one workload interleave, among
  them rotation with password change and logout, registration with sign-in,
  linking with disconnection and revocation, resets with their codes, avatars
  with sign-ins. The clock reaches the expiry of codes and reset tokens, and two
  failed attempts burn a code.
- `invites` (2 users, 2 invitations, 2 slots, 3 workloads): public links,
  invitations by address, invitations by user id. Deadlock is not checked:
  invitations are bounded by `Ids` and acceptances by `MaxUses`.
- `email` (2 addresses, 1 club, 2 jobs at once): every use case once, and seven
  workloads in which mails meet failures, complaints, bounces before a
  registration, unsubscriptions and a used-up quota; what Redis keeps may expire at any
  time. Deadlock is not checked
  since dispatches are finite. `AtMostOnce` and `EveryJobSettles` together: a
  mail is sent or given up, and not twice.
- `library` (2 clients, 3 books, 2 mirrors, chunks of 4 of 6 volumes, limits of
  1 and 2): pairs of suggestions of one book, pages while entries come and go,
  searches whose pages fit in a chunk or do not, and calls that fill a window and
  the next. Deadlock is not checked since requests are finite.

Two slots give every pair of operations in every order; a third would, for
clubs, only add what the inductive invariants of the proofs cover for any number
of slots. Three users of a club are an owner, a target and a bystander; two are
enough where nothing is passed on. All operations of `Accounts` or `EmailPipeline`
at once are out of TLC's reach: a workload puts together those that read and write
the same fields.

Violations, each a disagreement between the code and what it says of itself:

- `club_owner_leaves`: `leave_club` reads `MEMBER`, a transfer makes the leaver
  the owner, and `delete_membership` deletes the owner's row.
- `round_two_starts`: two starts find no active round; the index on
  (club, status) is not unique.
- `link_twice`: an account links a second identity of a provider. The service
  only asks whether that identity is linked, the unique index does not compare
  entries of one document, and then the validator refuses every load of the account.

Met while modelling and not a run:

- *Clubs.* A removal judged on a club document loaded before a transfer bans the
  former owner inside the protection window (`services/club.py:317`). A user who
  is `PENDING` and asks again gets an unhandled duplicate-key error
  (`DuplicateKeyError` is caught only for catalog entries and users).
- *Search sync.* Two writes of one document may register in the opposite order;
  the older entry stays pending and both callers are told that their write is
  searchable, though `hoodie/sync.py:93` says a successful call is "search-sync
  verified before returning". A writer that registers during the last attempt of
  a group is told that its document never became searchable without having been
  asked for (`GiveUp`).
- *Rounds.* A request that dies between the completion that concludes a round
  and the upsert of the history loses that entry for good, since a retry finds no
  decided round; when the last unfinished member leaves, the round stays
  `DECIDED`, because only a finisher concludes it.
- *Accounts.* Requests that overlap can break what holds without: a rotation
  between its two writes survives a logout of all sessions, two validations of
  one code both succeed, two disconnections leave no method, two requests for a
  code leave two. A reset token works until it expires although
  `routers/auth.py:206` says "Consume reset token". Two entries of one account can
  answer for an identity that it does not hold (`repositories/beanie/user.py:84`): a sign-in
  with Google's id x, or Google's revocation of it, finds the account linked to Google under
  another id and to Gravatar under x. A Gravatar sign-in never
  carries the redirect URI that redeeming its code takes, and is always refused.
- *Invitations.* A request that dies between the admission and the burning of a direct
  invitation leaves it in use, and two acceptances may both be counted: it serves its
  target only, but not once only.
- *E-mail.* A webhook retried after its eviction failed finds the delivery flag
  unchanged and does not evict (`handler.py:131`); confirming an address does not
  evict the cached preferences (`services/user.py:297`); the year of suppression
  of an address without account also blocks its mail once it registers; a job to
  a recipient who cannot be reached is put back for ever, and the dead letter
  queue (`worker.py:152`) is never reached; a send that is refused for other
  reasons than quota is taken for sent (`worker.py:219`).
- *Library.* A suggestion that read a book before another one filled it
  overwrites what the other found. A candidate in a format that the book has already, which
  nobody asked for, replaces the known link (`services/catalog.py:347` takes any). A page size that does not divide 40 loses or
  repeats items at the border of a chunk (limit 30, page 2; `services/book.py:60`).
  A `SearchQuery` used for a second page keeps the scope of the first. The wait
  that a refused client is told is read by a second call, when the counter may
  be gone (`repositories/redis/repository.py:65`).

### Fairness

`WaitEnds`: the event loop runs every ready task and every due timer, so a writer
that returned from its write registers and the polling task moves; the driver
ends each query with an answer or an error. No fairness is assumed of the index:
`WaitEnds` holds even if it never catches up.

`EveryJobSettles`: the worker process runs, so it takes a job when one is due and
goes on with those it has; Redis and the queue fire their timers (`Due`,
`QuotaLockExpires`, `CacheExpires`). Nothing is assumed of use cases, clients or
webhooks, and nothing of the provider's answer. The quota may run out for ever, but
each such answer costs a job; the mail that is excepted goes to a recipient whom
mail fails to reach.

## Proofs

The theorems hold for every value of the constants: any number of users, books,
rounds, documents, invitations, codes and requests that interleave, and any
windows and lifetimes; any mails, jobs at once and webhooks. Every proof has the same shape:
an inductive invariant `IInv` that says of each request what it may still rely on, one
lemma per action or family of actions, and the temporal step. TLC has checked each inductive invariant on
the instance of its run.

- *Roster* (`ClubMembershipProofs`). `TypeCorrect`, `NeverTwoOwners`,
  `RecordCoherent`, `NoOwnerAfterDissolution`, `OwnershipMovesBySwap` from types,
  at most one owner, none unless the club is live, a coherent record, and
  `RequestFacts`. At most one owner is not inductive alone: creation needs that a
  club that is not live has no owner, and the commits need what `RequestFacts` says
  of the values a request carries (its captured time has passed, a role change that
  passed its first check does not assign `OWNER`, a reclaim about to commit
  holds a user id). Roles read earlier need no invariant: the commits repeat
  the conditions that matter, which is why the code is safe here. `SerialOneOwner`:
  under `Serial` (at most one slot) what a request has read is still true when it
  writes, so no operation takes the only owner away.
- *Ownership* (`ClubMembershipProofs`). `NoRowBecomesPending` for any number of slots.
  Under `Serial`, `FormerOwnerProtected`, `BansLast` and `OwnershipImplemented`, step
  by step: `RowChanges`, `Dissolves` and the swaps are all a request can do to the
  roster, and each is a step or a stutter of `ClubOwnership`. Without `Serial` the
  three are false, which is the race described above.
- *Rounds* (`ReadingRoundProofs`). `RoundsTypeCorrect`, `HistoryIsBacked`,
  `RoundsConcludeExactly`, `RoundsFlow`. The point of the invariant is the transaction:
  every completion of a decided round writes the round too, so a commit whose
  snapshot of the round is current has a current snapshot of the completions,
  and the one that sees everybody finished is the one that concludes.
- *Overlapping starts* (`ReadingRoundProofs`). `OneRoundAtATime`, `LocksAreHonoured`,
  `NothingReadTwice` have a hypothesis on the behaviour: `Alone(ops)`, that no two
  requests for these operations are served at once (and, for the last, that the
  roster stays). `SerialRounds`: one slot satisfies it. Everything else may overlap. The hypothesis is
  what the code lacks: `round_two_starts` violates the first without it.
- *Invitations* (`InvitesProofs`). `DirectForItsTarget`, `DeadLinks` and `UsesAreBacked`
  whatever overlaps, `RotationLeavesOne` as stated, under `serial`.
  An invitation only moves from issued to inactive to gone; the admission keeps the
  grant it is about to count; under `serial` the insert of a link follows its
  own deactivation with no write in between. `InvitesTypeCorrect` states the types.
- *Accounts* (`AccountsProofs`). `AccountsTypeCorrect`, `EndedSessionsStayEnded`,
  `LatestCodeOnly`, `OnePersonOneAccount`, `MethodsAreKept`, `UsedCodesStayUsed`,
  `ChosenAvatarKept`. A request is a list of steps, so the invariant says first which
  step may follow which in each operation (`Leads`, `Chain`); `Programs` proves it of
  every program and `Insertions` of what a step puts in, without induction. `Typed`
  and `Knows` say what the next step finds in its local variables, `Unraced` what is still
  true of the database as long as no other request has written: the token is younger
  than the end of any session, no code is active between the two calls of
  a new code, disconnecting leaves a method, the avatar is still the provider's.
  `Lookup` says what the filter for an identity answers: an account that holds it or crosses
  it, so `OnePersonOneAccount` excepts the latter by name and nothing else.
  `UniqueKeys` is what the unique indexes keep; `LatestOnly` is `OneActiveCode` without
  counting.
- *E-mail* (`EmailPipelineProofs`). `AcceptedOnce`, `RefusalsHonoured`,
  `CacheAccountedFor`. `OnePlace`: a mail waits at its dispatch, in the queue, on the schedule
  or with one job, and is handed over from a job only. For the refusals the invariant follows an
  answered request: no step takes a suppression or opt-out back in the database
  (`PrefsGrow`), and a cached entry lacks one only if it is stale or about to be evicted
  (`CacheMoves`), so a webhook past its write, an unsubscription past its write and a job
  that has started each keep what they rely on (`RequestsOK`, `JobOK`). A suppressed
  address is the exception: an account registered for it later refuses nothing, which is why
  the gate must be passed before the job relies on what was answered. `EmailTypeCorrect`
  states the types.
- *Search sync* (`SearchSyncProofs`). `SyncTypeCorrect`, `WaitersKept`,
  `NoCreditBeforeRegistration` from `SInv`: write numbers of unregistered writes are
  fresh (so a number identifies an entry), waiters are on file and pending documents
  polled for, and between dispatch and answer an entry that was not replaced has no
  waiter newer than the query.
- *Rate limits* (`RateLimiterProofs`, `WindowsEnd` in `LibraryProofs`). `WindowEnds` speaks
  of a span of a window, a counter of what came since it began, so `LimiterInv` relates the
  two: the count is the number of calls since the counter began, of these it lets in no more than
  the limit, and the calls of the last window from before it began are those that the counter
  before it let in, no more than the limit either. That makes twice the limit, the bound the
  theorem has; a call is refused only while more than the limit lie in its window.
- *Mirror pool* (`LibraryProofs`: `RunsSettleClean`). `PoolInv` says what a run has come to by
  its phase: in the race every mirror outside `pending` has failed, a run that is
  cleaning up after a failure has no mirror that did not fail, and one that succeeded keeps
  the task that answered. A cancellation can come in any phase.
- *Books* (`LibraryProofs`: `BooksAreKept`). `BookInv` follows a suggestion through its
  lookups: what it targets is stored, and the links it is about to write are those the book
  it read lacked or those its candidates came with. So a field is replaced only by a
  suggestion that read the book without it, a link only by the candidate found by one that
  read it without some format, and nothing is lost; this holds whatever the mirrors answer.
- *Pages* (`LibraryProofs`: `PagesAreExact`). A page shows its part of what its calls ask for,
  for chains of calls of any length: `BuildAsks` shows, call by call, that the query built is
  the conjunction of its clauses with the last minimum and the last limit; `RankedIsEntitled`
  that its results in the scope are the documents entitled to be there. For the
  search outside, `PageStart` is the arithmetic of chunks: with a size that divides the
  chunk the start taken modulo the chunk is the place of the page in it. `PageInv` and
  `SearchInv` say that a search of everything is not narrowed, and that
  what is cached or about to be is the chunk as sorted. `SortedByRelevance` says what
  that is, for any volumes: a permutation of the chunk in which no volume comes after one
  that it should precede and equals keep their order. (`BestFirst`, the order of the engine,
  is external: nothing is proved of it.)
  `LibraryTypeCorrect` states the types of all its parts.

The induction over the calls of a chain is one over numbers: no theorem of the
library can be used for it (they take an operator), so `Counting` derives what it needs
from the pigeonhole principle, which the library states of sets.

They assume what the modules assume of their constants: windows, lifetimes and
limits are naturals and the reclaim window is not longer than the cooldown (24 hours
and 30 days in `config.py`), at least one attempt, and `NULL`, `Expired` and the like are none of
the values they stand beside (None is no user, document, code or time). `MaxTime`, the
bound of the clock of `Accounts`, is any natural, so that it bounds nothing that is proved.
`PipelineAssumption` says what a workload of `EmailPipeline` is: a mail stands for one
payload of one dispatch (a use case that sends the like again dispatches another mail),
its template is one of the shape `EmailTemplates` gives, club templates come with a club,
and clubs are not categories. `AtMostOnce` rests on one more assumption, which the module
states and the repository does not settle: that saq does not run a job again which raised or
was cut off by a stopping worker. If it does, a worker that stops between the
provider's acceptance and the end of the job sends the mail twice.
Of the library: there is a mirror, limits and windows are positive and have every bucket,
no counter is a missing key; calls are of known rules, pages and sizes begin at 1
(`pagination.py`) as does the limit of a query; the books a workload begins with have
ISBNs of their own and are listed only if stored, which `BooksAreKept` shows suggestions to
keep; volumes and candidates have the fields that scoring reads.

Only model-checked: `WaitEnds` and `EveryJobSettles`, which are liveness and take fairness
and `ENABLED`, beyond the prover used; and the three violations, which are
counterexamples. Every other property of the passing runs is a theorem.

## Not modelled

- HTTP: documentation of responses, cookies, middleware and serialisation keep
  no state; the dependencies that load a document or ask for a role are part of
  the actions they guard.
- `hoodie/entity.py`, `registry.py`, `injection.py`, `indexes.py`: start-up and
  metaprogramming around beanie.
- Deferred batches of `hoodie/sync.py` and the nesting of transactions: every
  transaction of the code is one body, modelled as a step or, in `ReadingRound`,
  with its snapshot and retries.
- Of `hoodie/query.py` the queries on linked documents (no model has a link
  field), scores, facets and projections.
- Rendering of e-mails, seeds and tools, health checks, read-only views.
- Similarity of strings, the details of one book, and the weights by which rated
  books are drawn: arithmetic without state, and a draw may return any candidate.

## Plan

1. *done* roster and ownership, with abstract specification and proofs
2. *done* reading rounds; search synchronisation with proofs
3. *done* accounts, verification, invites, e-mail, catalog, search, rate limits,
   mirror pool
4. *done* proofs of the roster, its refinement, rounds, invitations, accounts,
   e-mail and search sync
5. *done* proofs of the library: mirrors, books, limits, pages, and the orders of results
6. deferred batches of `hoodie/sync.py` within transactions
