--------------------------- MODULE LibraryProofs ---------------------------
(***************************************************************************)
(* Proofs about Library, for any mirrors, any books and any workloads: the *)
(* runs of the pool of mirrors, the books that suggestions leave behind,   *)
(* the rate limits, the orders that results are listed in, and the pages   *)
(* of the catalogs and of the searches.                                    *)
(***************************************************************************)
EXTENDS Library, RateLimiterProofs, SequenceTheorems

(* What a run has come to by its phase.                                    *)
RunFacts(r) ==
    /\ r \in Runs
    /\ r.phase \in {"new", "preferred"} =>
          r.outcome = "failed" /\ \A m \in Mirrors : r.task[m] = "none"
    /\ r.phase = "race" => /\ r.outcome = "failed"
                           /\ \A m \in Mirrors : r.task[m] \in {"running", "ok", "failed"}
                           /\ \A m \in Mirrors \ r.pending : r.task[m] = "failed"
    /\ r.phase = "cleanup" =>
          /\ r.outcome = "failed" => \A m \in Mirrors : r.task[m] = "failed"
          /\ r.outcome = "ok" => \E m \in Mirrors : r.task[m] = "ok"

PoolInv == preferred \in Mirrors /\ \A e \in DOMAIN run : RunFacts(run[e])

(* A run that ends with this step ends as it should.                       *)
Settles(p, r) ==
    r.phase = "done" /\ p.phase # "done" =>
        /\ \A m \in Mirrors : r.task[m] \notin {"running", "cancelling"}
        /\ r.outcome = "failed" => \A m \in Mirrors : r.task[m] = "failed"
        /\ r.outcome = "ok" => \/ r.task[r.first] = "none"
                               \/ \E m \in Mirrors : r.task[m] = "ok"

Winner == \E e \in DOMAIN run : run[e].phase = "race" /\ run[e].task[preferred'] = "ok"

LEMMA RunShape ==
    ASSUME NEW r \in Runs
    PROVE  /\ r.phase \in {"new", "preferred", "race", "cleanup", "done"}
           /\ r.first \in Mirrors /\ r.task \in [Mirrors -> TaskState]
           /\ r.pending \in SUBSET Mirrors /\ r.outcome \in Outcomes
BY DEF Runs

LEMMA NewRunFacts == RunFacts(NewRun)
<1>1. (CHOOSE m \in Mirrors : TRUE) \in Mirrors
  BY MirrorAssumption
<1>2. NewRun \in Runs
  BY <1>1 DEF NewRun, Runs, TaskState, Outcomes
<1>3. QED
  BY <1>2 DEF RunFacts, NewRun

(* A step of one run: what it has to show.                                 *)
LEMMA OneRunMoves ==
    ASSUME PoolInv, NEW e \in DOMAIN run, NEW r, run' = [run EXCEPT ![e] = r],
           RunFacts(r), Settles(run[e], r), preferred' \in Mirrors,
           preferred' # preferred => run[e].phase = "race" /\ run[e].task[preferred'] = "ok"
    PROVE  /\ PoolInv'
           /\ \A d \in DOMAIN run \cap DOMAIN run' : Settles(run[d], run'[d])
           /\ preferred' # preferred => Winner
<1>1. DOMAIN run' = DOMAIN run /\ run'[e] = r /\ \A d \in DOMAIN run : d # e => run'[d] = run[d]
  OBVIOUS
<1>2. \A d \in DOMAIN run : Settles(run[d], run[d])
  BY DEF Settles
<1>3. QED
  BY <1>1, <1>2 DEF PoolInv, Winner

LEMMA AskPreferredMoves ==
    ASSUME PoolInv, NEW e \in DOMAIN run, AskPreferred(e)
    PROVE  /\ PoolInv'
           /\ \A d \in DOMAIN run \cap DOMAIN run' : Settles(run[d], run'[d])
           /\ preferred' # preferred => Winner
<1>1. PICK r : r = [run[e] EXCEPT !.phase = "preferred", !.first = preferred]
  OBVIOUS
<1>2. run' = [run EXCEPT ![e] = r] /\ preferred' = preferred /\ run[e].phase = "new"
  BY <1>1 DEF AskPreferred, In
<1>3. /\ run[e] \in Runs /\ preferred \in Mirrors /\ run[e].outcome = "failed"
      /\ \A m \in Mirrors : run[e].task[m] = "none"
  BY <1>2 DEF PoolInv, RunFacts
<1>4. RunFacts(r) /\ Settles(run[e], r)
  BY <1>1, <1>3 DEF RunFacts, Settles, Runs
<1>5. QED
  BY <1>2, <1>3, <1>4, OneRunMoves

LEMMA PreferredAnswersMoves ==
    ASSUME PoolInv, NEW e \in DOMAIN run, PreferredAnswers(e)
    PROVE  /\ PoolInv'
           /\ \A d \in DOMAIN run \cap DOMAIN run' : Settles(run[d], run'[d])
           /\ preferred' # preferred => Winner
<1>1. PICK r : r = [run[e] EXCEPT !.phase = "done", !.outcome = "ok"]
  OBVIOUS
<1>2. run' = [run EXCEPT ![e] = r] /\ preferred' = preferred /\ run[e].phase = "preferred"
  BY <1>1 DEF PreferredAnswers, In
<1>3. /\ run[e] \in Runs /\ preferred \in Mirrors /\ run[e].outcome = "failed"
      /\ \A m \in Mirrors : run[e].task[m] = "none"
  BY <1>2 DEF PoolInv, RunFacts
<1>4. RunFacts(r) /\ Settles(run[e], r)
  BY <1>1, <1>3 DEF RunFacts, Settles, Runs, Outcomes
<1>5. QED
  BY <1>2, <1>3, <1>4, OneRunMoves

LEMMA RaceMirrorsMoves ==
    ASSUME PoolInv, NEW e \in DOMAIN run, RaceMirrors(e)
    PROVE  /\ PoolInv'
           /\ \A d \in DOMAIN run \cap DOMAIN run' : Settles(run[d], run'[d])
           /\ preferred' # preferred => Winner
<1>1. PICK r : r = [run[e] EXCEPT !.phase = "race", !.pending = Mirrors,
                                  !.task = [m \in Mirrors |-> "running"]]
  OBVIOUS
<1>2. run' = [run EXCEPT ![e] = r] /\ preferred' = preferred /\ run[e].phase = "preferred"
  BY <1>1 DEF RaceMirrors, In
<1>3. /\ run[e] \in Runs /\ preferred \in Mirrors /\ run[e].outcome = "failed"
  BY <1>2 DEF PoolInv, RunFacts
<1>4. RunFacts(r) /\ Settles(run[e], r)
  BY <1>1, <1>3 DEF RunFacts, Settles, Runs, TaskState, Outcomes
<1>5. QED
  BY <1>2, <1>3, <1>4, OneRunMoves

LEMMA CalledOffTasks ==
    ASSUME NEW e, run[e] \in Runs
    PROVE  /\ CalledOff(e) \in [Mirrors -> TaskState]
           /\ \A m \in Mirrors : /\ CalledOff(e)[m] # "running"
                                 /\ run[e].task[m] # "running" => CalledOff(e)[m] = run[e].task[m]
BY DEF CalledOff, Runs, TaskState

LEMMA TaskEndsMoves ==
    ASSUME PoolInv, NEW e \in DOMAIN run, NEW m \in Mirrors, TaskEnds(e, m)
    PROVE  /\ PoolInv'
           /\ \A d \in DOMAIN run \cap DOMAIN run' : Settles(run[d], run'[d])
           /\ preferred' # preferred => Winner
<1>1. PICK s : /\ run' = [run EXCEPT ![e].task[m] = s]
               /\ \/ run[e].task[m] = "running" /\ s \in {"ok", "failed"}
                  \/ run[e].task[m] = "cancelling" /\ s = "gone"
  BY DEF TaskEnds
<1>2. PICK r : r = [run[e] EXCEPT !.task[m] = s]
  OBVIOUS
<1>3. run' = [run EXCEPT ![e] = r] /\ preferred' = preferred
  BY <1>1, <1>2 DEF TaskEnds
<1>4. RunFacts(run[e]) /\ run[e] \in Runs /\ preferred \in Mirrors
  BY DEF PoolInv, RunFacts
<1>5. /\ r \in Runs /\ r.phase = run[e].phase /\ r.outcome = run[e].outcome
      /\ r.pending = run[e].pending /\ r.first = run[e].first
      /\ \A n \in Mirrors : r.task[n] = IF n = m THEN s ELSE run[e].task[n]
  BY <1>1, <1>2, <1>4 DEF Runs, TaskState
<1>6. RunFacts(r)
  BY <1>1, <1>4, <1>5 DEF RunFacts
<1>7. Settles(run[e], r)
  BY <1>5 DEF Settles
<1>8. QED
  BY <1>3, <1>4, <1>6, <1>7, OneRunMoves

LEMMA WinMoves ==
    ASSUME PoolInv, NEW e \in DOMAIN run, Win(e)
    PROVE  /\ PoolInv'
           /\ \A d \in DOMAIN run \cap DOMAIN run' : Settles(run[d], run'[d])
           /\ preferred' # preferred => Winner
<1>1. PICK r : r = [run[e] EXCEPT !.phase = "cleanup", !.task = CalledOff(e), !.outcome = "ok"]
  OBVIOUS
<1>2. PICK m \in Ended(e) : run[e].task[m] = "ok" /\ preferred' = m
  BY DEF Win
<1>3. run[e] \in Runs /\ m \in Mirrors /\ run[e].phase = "race"
  BY DEF PoolInv, RunFacts, Runs, Ended, Win, In
<1>4. run' = [run EXCEPT ![e] = r]
  BY <1>1 DEF Win
<1>5. RunFacts(r) /\ Settles(run[e], r)
  <2>1. r \in Runs /\ r.phase = "cleanup" /\ r.outcome = "ok" /\ r.task = CalledOff(e)
    BY <1>1, <1>3, CalledOffTasks DEF Runs, Outcomes
  <2>2. r.task[m] = "ok"
    BY <1>2, <1>3, <2>1, CalledOffTasks
  <2>3. QED
    BY <1>3, <2>1, <2>2 DEF RunFacts, Settles
<1>6. QED
  BY <1>2, <1>3, <1>4, <1>5, OneRunMoves

LEMMA LoseMoves ==
    ASSUME PoolInv, NEW e \in DOMAIN run, Lose(e)
    PROVE  /\ PoolInv'
           /\ \A d \in DOMAIN run \cap DOMAIN run' : Settles(run[d], run'[d])
           /\ preferred' # preferred => Winner
<1>1. PICK pending : pending = run[e].pending \ Ended(e)
  OBVIOUS
<1>2. PICK r : r = [run[e] EXCEPT !.pending = pending,
                                  !.phase = IF pending = {} THEN "cleanup" ELSE "race"]
  OBVIOUS
<1>3. /\ run' = [run EXCEPT ![e] = r] /\ preferred' = preferred /\ run[e].phase = "race"
      /\ \A m \in Ended(e) : run[e].task[m] = "failed"
  BY <1>1, <1>2 DEF Lose, In
<1>4. RunFacts(run[e]) /\ run[e] \in Runs /\ preferred \in Mirrors
  BY DEF PoolInv, RunFacts
<1>5. /\ r \in Runs /\ r.phase = (IF pending = {} THEN "cleanup" ELSE "race")
      /\ r.pending = pending /\ r.outcome = run[e].outcome /\ r.task = run[e].task
  BY <1>1, <1>2, <1>4 DEF Runs
<1>6. \A m \in Mirrors \ pending : run[e].task[m] = "failed"
  BY <1>1, <1>3, <1>4 DEF RunFacts
<1>7. RunFacts(r) /\ Settles(run[e], r)
  BY <1>3, <1>4, <1>5, <1>6 DEF RunFacts, Settles
<1>8. QED
  BY <1>3, <1>4, <1>7, OneRunMoves

LEMMA GatherMoves ==
    ASSUME PoolInv, NEW e \in DOMAIN run, Gather(e)
    PROVE  /\ PoolInv'
           /\ \A d \in DOMAIN run \cap DOMAIN run' : Settles(run[d], run'[d])
           /\ preferred' # preferred => Winner
<1>1. PICK r : r = [run[e] EXCEPT !.phase = "done"]
  OBVIOUS
<1>2. run' = [run EXCEPT ![e] = r] /\ preferred' = preferred /\ run[e].phase = "cleanup"
  BY <1>1 DEF Gather, In
<1>3. RunFacts(run[e]) /\ run[e] \in Runs /\ preferred \in Mirrors
  BY DEF PoolInv, RunFacts
<1>4. r \in Runs /\ r.phase = "done" /\ r.outcome = run[e].outcome /\ r.task = run[e].task
  BY <1>1, <1>3 DEF Runs
<1>5. \A m \in Mirrors : run[e].task[m] \notin {"running", "cancelling"}
  BY DEF Gather, Live
<1>6. RunFacts(r) /\ Settles(run[e], r)
  BY <1>2, <1>3, <1>4, <1>5 DEF RunFacts, Settles
<1>7. QED
  BY <1>2, <1>3, <1>6, OneRunMoves

(* Runs that are cancelled end without a task, now or once their tasks     *)
(* have ended.                                                             *)
LEMMA CancelRunsMoves ==
    ASSUME PoolInv, NEW es, CancelRuns(es)
    PROVE  /\ PoolInv'
           /\ \A d \in DOMAIN run \cap DOMAIN run' : Settles(run[d], run'[d])
           /\ preferred' # preferred => Winner
<1>1. /\ DOMAIN run' = DOMAIN run /\ preferred' = preferred
      /\ \A e \in DOMAIN run : run'[e] = IF e \in es THEN Cancelled(e) ELSE run[e]
  BY DEF CancelRuns
<1>2. ASSUME NEW e \in DOMAIN run
      PROVE  RunFacts(Cancelled(e)) /\ Settles(run[e], Cancelled(e))
  <2>1. RunFacts(run[e]) /\ run[e] \in Runs
    BY DEF PoolInv, RunFacts
  <2>2. CASE run[e].phase = "done"
    <3>1. Cancelled(e) = run[e]
      BY <2>2 DEF Cancelled, In
    <3>2. QED
      BY <2>1, <2>2, <3>1 DEF Settles
  <2>3. CASE run[e].phase # "done"
    <3>1. PICK phase : phase = IF run[e].phase \in {"race", "cleanup"} THEN "cleanup" ELSE "done"
      OBVIOUS
    <3>2. PICK r : r = [run[e] EXCEPT !.phase = phase, !.outcome = "cancelled",
                                      !.task = CalledOff(e)]
      OBVIOUS
    <3>3. Cancelled(e) = r
      BY <2>3, <3>1, <3>2 DEF Cancelled, In
    <3>4. /\ r \in Runs /\ r.phase = phase /\ r.outcome = "cancelled" /\ r.task = CalledOff(e)
      BY <2>1, <3>1, <3>2, CalledOffTasks DEF Runs, Outcomes
    <3>5. phase = "done" => \A m \in Mirrors : run[e].task[m] = "none"
      BY <2>1, <2>3, <3>1, RunShape DEF RunFacts
    <3>6. phase = "done" => \A m \in Mirrors : r.task[m] = "none"
      BY <2>1, <3>4, <3>5, CalledOffTasks
    <3>7. QED
      BY <3>1, <3>3, <3>4, <3>6 DEF RunFacts, Settles
  <2>4. QED
    BY <2>2, <2>3
<1>3. \A e \in DOMAIN run : Settles(run[e], run[e])
  BY DEF Settles
<1>4. QED
  BY <1>1, <1>2, <1>3 DEF PoolInv

(* Runs come in new, and go when their answers are merged.                 *)
LEMMA SearchAllMoves ==
    ASSUME PoolInv, NEW c, SearchAll(c)
    PROVE  /\ PoolInv'
           /\ \A d \in DOMAIN run \cap DOMAIN run' : Settles(run[d], run'[d])
           /\ preferred' # preferred => Winner
<1>1. /\ DOMAIN run' = DOMAIN run \cup RunsOf(c) /\ preferred' = preferred
      /\ \A e \in DOMAIN run' : run'[e] = IF e \in RunsOf(c) THEN NewRun ELSE run[e]
  BY DEF SearchAll
<1>2. NewRun.phase = "new"
  BY DEF NewRun
<1>3. \A d \in DOMAIN run : Settles(run[d], run[d]) /\ Settles(run[d], NewRun)
  BY <1>2 DEF Settles
<1>4. QED
  BY <1>1, <1>3, NewRunFacts DEF PoolInv

LEMMA MergeResponsesMoves ==
    ASSUME PoolInv, NEW c, MergeResponses(c)
    PROVE  /\ PoolInv'
           /\ \A d \in DOMAIN run \cap DOMAIN run' : Settles(run[d], run'[d])
           /\ preferred' # preferred => Winner
<1>1. /\ DOMAIN run' = DOMAIN run \ RunsOf(c) /\ preferred' = preferred
      /\ \A e \in DOMAIN run' : run'[e] = run[e]
  BY DEF MergeResponses
<1>2. \A d \in DOMAIN run : Settles(run[d], run[d])
  BY DEF Settles
<1>3. QED
  BY <1>1, <1>2 DEF PoolInv

(* Every other step of the library leaves the pool alone.                  *)
LEMMA OutsideThePool ==
    ASSUME [Next]_vars
    PROVE  \/ \E e \in DOMAIN run :
                 \/ AskPreferred(e) \/ PreferredAnswers(e) \/ RaceMirrors(e)
                 \/ \E m \in Mirrors : TaskEnds(e, m)
                 \/ Win(e) \/ Lose(e) \/ Gather(e)
           \/ \E c : SearchAll(c) \/ CancelRuns(RunsOf(c)) \/ MergeResponses(c)
           \/ UNCHANGED pool
<1>1. CASE UNCHANGED catalog
  BY <1>1 DEF catalog
<1>2. ASSUME NEW c \in DOMAIN suggest,
             \/ EnsureAllowed(c) \/ FindByIsbn(c) \/ FindByExternalId(c) \/ SearchAll(c)
             \/ CancelSuggestion(c) \/ MergeResponses(c) \/ AddToUrls(c) \/ FillMissingFields(c)
             \/ SaveBook(c) \/ AddEntry(c) \/ SuggestionFails(c)
      PROVE  SearchAll(c) \/ CancelRuns(RunsOf(c)) \/ MergeResponses(c) \/ UNCHANGED pool
  BY <1>2 DEF EnsureAllowed, FindByIsbn, FindByExternalId, CancelSuggestion, AddToUrls,
              FillMissingFields, SaveBook, AddEntry, SuggestionFails, KeepAll
<1>3. ASSUME NEW p \in DOMAIN page,
             \/ EnsureMember(p) \/ CountEntries(p) \/ FindEntries(p) \/ FindJoined(p)
             \/ ResolveScope(p) \/ RunSearch(p) \/ FindBooks(p)
      PROVE  UNCHANGED pool
  BY <1>3 DEF EnsureMember, CountEntries, FindEntries, FindJoined, ResolveScope, RunSearch,
              FindBooks, PageGoes
<1>4. CASE CatalogNext
  <2>1. CASE \E i \in DOMAIN entries : RemoveEntry(i)
    BY <2>1 DEF RemoveEntry
  <2>2. CASE \E s \in Sources : IndexBook(s)
    BY <2>2 DEF IndexBook
  <2>3. QED
    BY <1>2, <1>3, <1>4, <2>1, <2>2 DEF CatalogNext, MirrorNext
<1>5. QED
  BY <1>1, <1>4 DEF Next, vars

LEMMA PoolMoves ==
    ASSUME PoolInv, [Next]_vars
    PROVE  /\ PoolInv'
           /\ \A d \in DOMAIN run \cap DOMAIN run' : Settles(run[d], run'[d])
           /\ preferred' # preferred => Winner
<1>1. CASE UNCHANGED pool
  <2>1. run' = run /\ preferred' = preferred
    BY <1>1 DEF pool
  <2>2. \A d \in DOMAIN run : Settles(run[d], run[d])
    BY DEF Settles
  <2>3. QED
    BY <2>1, <2>2 DEF PoolInv
<1>2. CASE \E e \in DOMAIN run : AskPreferred(e) \/ PreferredAnswers(e) \/ RaceMirrors(e)
  BY <1>2, AskPreferredMoves, PreferredAnswersMoves, RaceMirrorsMoves
<1>3. CASE \E e \in DOMAIN run : \E m \in Mirrors : TaskEnds(e, m)
  BY <1>3, TaskEndsMoves
<1>4. CASE \E e \in DOMAIN run : Win(e) \/ Lose(e) \/ Gather(e)
  BY <1>4, WinMoves, LoseMoves, GatherMoves
<1>5. CASE \E c : SearchAll(c) \/ CancelRuns(RunsOf(c)) \/ MergeResponses(c)
  BY <1>5, SearchAllMoves, CancelRunsMoves, MergeResponsesMoves
<1>6. QED
  BY <1>1, <1>2, <1>3, <1>4, <1>5, OutsideThePool

LEMMA PoolStarts == Init => PoolInv
BY DEF Init, CatalogInit, PoolInv

LEMMA PoolHolds == Spec => []PoolInv
<1>1. PoolInv /\ [Next]_vars => PoolInv'
  BY PoolMoves
<1>2. QED
  BY <1>1, PoolStarts, PTL DEF Spec

(* A run of the pool of mirrors that ends leaves no task behind, fails     *)
(* only when every mirror has failed it and succeeds with an answer; and a *)
(* mirror is only preferred once it has answered.                          *)
THEOREM RunsSettleClean == Spec => SettledClean
<1>1. PoolInv /\ [Next]_vars =>
          [/\ \A e \in DOMAIN run \cap DOMAIN run' :
                 LET r == run'[e]
                 IN  r.phase = "done" /\ run[e].phase # "done" =>
                         /\ \A m \in Mirrors : r.task[m] \notin {"running", "cancelling"}
                         /\ r.outcome = "failed" => \A m \in Mirrors : r.task[m] = "failed"
                         /\ r.outcome = "ok" => \/ r.task[r.first] = "none"
                                                \/ \E m \in Mirrors : r.task[m] = "ok"
           /\ preferred' # preferred =>
                 \E e \in DOMAIN run : run[e].phase = "race" /\ run[e].task[preferred'] = "ok"]_pool
  BY PoolMoves DEF Settles, Winner
<1>2. QED
  BY <1>1, PoolHolds, PTL DEF Spec, SettledClean

-----------------------------------------------------------------------------
LEMMA LimiterHolds == Spec => []LimiterInv
<1>1. Init => LimiterInv
  BY CallAssumption, LimiterStarts DEF Init
<1>2. LimiterInv /\ [Next]_vars => LimiterInv'
  <2>1. [Next]_vars => LimiterNext \/ UNCHANGED limiter
    BY DEF Next, vars
  <2>2. QED
    BY <2>1, LimiterNextKeeps, LimiterStays
<1>3. QED
  BY <1>1, <1>2, PTL DEF Spec

(* The limits of the routes refuse nobody too early and hold over any span *)
(* of a window, for any limits and windows and any number of calls.        *)
THEOREM WindowsEnd == Spec => []WindowEnds
BY LimiterHolds, LimiterInvWindowEnds, PTL

-----------------------------------------------------------------------------
(* Books.  What a suggestion holds: before it has looked for the book it   *)
(* has none; when it supplements, it has read a book that is stored, and   *)
(* it looks for links only if that book had no link of some format; when   *)
(* it saves, it saw no book.                                               *)
Linked == [Extensions -> Values]
Drafts == [pc : {"allowed", "isbn", "external", "scrape", "merge", "urls", "fields", "save",
                 "add", "done", "failed"},
           target : Sources \cup {NULL}, book : BookDocs \cup {NULL}, links : Linked \cup {NULL}]

DraftFacts(c, q) ==
    /\ c.source \in Sources /\ c.isbn \in Values /\ c.about \in Values
    /\ q \in Drafts
    /\ q.pc \in {"allowed", "isbn", "external"} => q.book = NULL
    /\ q.pc \in {"scrape", "merge"} => \/ q.book = NULL /\ q.target = c.source
                                       \/ q.book # NULL /\ q.target \in Stored
    /\ q.pc \in {"scrape", "merge", "urls"} /\ q.book # NULL =>
          \E x \in Extensions : q.book.urls[x] = NULL
    /\ q.pc = "save" => q.book = NULL /\ q.target = c.source /\ q.links \in Linked
    /\ q.pc \in {"urls", "fields"} => q.book # NULL /\ q.target \in Stored
    /\ q.pc = "urls" => q.links \in Linked
    /\ q.pc = "add" => q.target \in Stored

IsbnsUnique == \A s, t \in Stored : books[s].isbn # NULL /\ books[s].isbn = books[t].isbn => s = t
EntriesStored == entries \in Seq(ToSet(entries)) /\ \A i \in DOMAIN entries : entries[i].book \in Stored

(* The inductive invariant of the books.                                   *)
BookInv ==
    /\ books \in [Sources -> BookDocs \cup {NULL}]
    /\ IsbnsUnique
    /\ EntriesStored
    /\ \A c \in DOMAIN suggest : DraftFacts(c, suggest[c])

(* What a step may do to a book, as BooksKept has it.                      *)
Keeps(s) ==
    /\ \/ books[s].isbn \in {NULL, books'[s].isbn}
       \/ \E c \in DOMAIN suggest : /\ Amends(c, s) /\ suggest[c].book.isbn = NULL
                                    /\ c.isbn # NULL /\ books'[s].isbn = c.isbn
    /\ \/ books[s].about \in {NULL, books'[s].about}
       \/ \E c \in DOMAIN suggest : /\ Amends(c, s) /\ suggest[c].book.about = NULL
                                    /\ c.about # NULL /\ books'[s].about = c.about
    /\ \A x \in Extensions :
          \/ books[s].urls[x] \in {NULL, books'[s].urls[x]}
          \/ \E c \in DOMAIN suggest :
                /\ Amends(c, s) /\ suggest[c].pc = "urls" /\ Missing(c) # {}
                /\ suggest[c].links[x] # NULL
                /\ books'[s].urls[x] = suggest[c].links[x]

KeptBooks == Stored \subseteq Stored' /\ \A s \in Stored : Keeps(s)

LEMMA BooksStart == Init => BookInv
<1> SUFFICES ASSUME NEW w \in Workloads,
                    CatalogInit(w.stored, w.entries, w.suggestions, w.pages)
             PROVE  BookInv
  BY DEF Init
<1>1. /\ books = w.stored /\ entries = w.entries /\ DOMAIN suggest = w.suggestions
      /\ \A c \in DOMAIN suggest : suggest[c] = NewSuggestion
  BY DEF CatalogInit
<1>2. /\ books \in [Sources -> BookDocs \cup {NULL}]
      /\ IsbnsUnique /\ EntriesStored
  BY <1>1, ShelfAssumption DEF IsbnsUnique, EntriesStored, Stored
<1>3. NewSuggestion \in Drafts
  BY DEF NewSuggestion, Drafts
<1>4. ASSUME NEW c \in DOMAIN suggest
      PROVE  DraftFacts(c, suggest[c])
  <2>1. c.source \in Sources /\ c.isbn \in Values /\ c.about \in Values
    BY <1>1, ShelfAssumption
  <2>2. QED
    BY <1>1, <1>3, <2>1 DEF DraftFacts, NewSuggestion
<1>5. QED
  BY <1>2, <1>4 DEF BookInv

(* Books that stay leave the rest of the shelf in order.                   *)
LEMMA BookTypes ==
    ASSUME BookInv, NEW s \in Stored
    PROVE  s \in Sources /\ books[s] \in BookDocs /\ books[s] # NULL
BY DEF BookInv, Stored

(* A suggestion that goes on without a write: what it holds is in order.   *)
LEMMA DraftMoves ==
    ASSUME BookInv, books' = books, entries' = entries, NEW c \in DOMAIN suggest, NEW q,
           suggest' = [suggest EXCEPT ![c] = q], DraftFacts(c, q)
    PROVE  BookInv' /\ KeptBooks
<1>1. Stored' = Stored
  BY DEF Stored
<1>2. \A d \in DOMAIN suggest' : DraftFacts(d, suggest'[d])
  BY DEF BookInv
<1>3. (\A d \in DOMAIN suggest : DraftFacts(d, suggest[d]))'
  BY <1>1, <1>2 DEF DraftFacts
<1>4. IsbnsUnique' /\ EntriesStored'
  BY <1>1 DEF BookInv, IsbnsUnique, EntriesStored
<1>5. KeptBooks
  BY <1>1 DEF KeptBooks, Keeps
<1>6. QED
  BY <1>3, <1>4, <1>5 DEF BookInv

LEMMA GoesOn ==
    ASSUME BookInv, books' = books, entries' = entries, NEW c \in DOMAIN suggest, NEW pc, Goes(c, pc),
           DraftFacts(c, [suggest[c] EXCEPT !.pc = pc])
    PROVE  BookInv' /\ KeptBooks
<1>1. PICK q : q = [suggest[c] EXCEPT !.pc = pc]
  OBVIOUS
<1>2. suggest' = [suggest EXCEPT ![c] = q] /\ DraftFacts(c, q)
  BY <1>1 DEF Goes
<1>3. QED
  BY <1>2, DraftMoves

LEMMA FailsCleanly ==
    ASSUME BookInv, NEW c \in DOMAIN suggest
    PROVE  DraftFacts(c, [suggest[c] EXCEPT !.pc = "failed"])
BY DEF BookInv, DraftFacts, Drafts

LEMMA EnsureAllowedKeeps ==
    ASSUME BookInv, NEW c \in DOMAIN suggest, EnsureAllowed(c)
    PROVE  BookInv' /\ KeptBooks
<1>1. books' = books /\ entries' = entries /\ suggest[c].pc = "allowed"
  BY DEF EnsureAllowed, KeepAll, shelf, Suggesting
<1>2. CASE Goes(c, "failed")
  BY <1>1, <1>2, FailsCleanly, GoesOn
<1>3. PICK pc : pc = IF c.isbn # NULL THEN "isbn" ELSE "external"
  OBVIOUS
<1>4. CASE Goes(c, pc)
  <2>1. DraftFacts(c, [suggest[c] EXCEPT !.pc = pc])
    BY <1>1, <1>3 DEF BookInv, DraftFacts, Drafts
  <2>2. QED
    BY <1>1, <1>4, <2>1, GoesOn
<1>5. QED
  BY <1>2, <1>3, <1>4 DEF EnsureAllowed

LEMMA FoundKeeps ==
    ASSUME BookInv, NEW c \in DOMAIN suggest, NEW s \in Stored, Found(c, s),
           books' = books, entries' = entries
    PROVE  BookInv' /\ KeptBooks
<1>1. PICK pc : /\ pc = IF \E x \in Extensions : books[s].urls[x] = NULL THEN "scrape" ELSE "fields"
                /\ pc \in {"scrape", "fields"}
  OBVIOUS
<1>2. PICK q : q = [suggest[c] EXCEPT !.target = s, !.book = books[s], !.pc = pc]
  OBVIOUS
<1>3. suggest' = [suggest EXCEPT ![c] = q]
  BY <1>1, <1>2 DEF Found
<1>4. s \in Sources /\ books[s] \in BookDocs /\ books[s] # NULL /\ DraftFacts(c, suggest[c])
  BY BookTypes DEF BookInv
<1>5. /\ q \in Drafts /\ q.pc = pc /\ q.target = s /\ q.book = books[s]
  BY <1>1, <1>2, <1>4 DEF DraftFacts, Drafts
<1>6. DraftFacts(c, q)
  BY <1>1, <1>4, <1>5 DEF DraftFacts
<1>7. QED
  BY <1>3, <1>6, DraftMoves

LEMMA FindsKeep ==
    ASSUME BookInv, NEW c \in DOMAIN suggest, FindByIsbn(c) \/ FindByExternalId(c)
    PROVE  BookInv' /\ KeptBooks
<1>1. /\ books' = books /\ entries' = entries /\ suggest[c].pc \in {"isbn", "external"}
      /\ DraftFacts(c, suggest[c])
  BY DEF FindByIsbn, FindByExternalId, KeepAll, shelf, Suggesting, BookInv
<1>2. CASE \E s \in Stored : Found(c, s)
  BY <1>1, <1>2, FoundKeeps
<1>3. CASE Goes(c, "external")
  <2>1. DraftFacts(c, [suggest[c] EXCEPT !.pc = "external"])
    BY <1>1 DEF DraftFacts, Drafts
  <2>2. QED
    BY <1>1, <1>3, <2>1, GoesOn
<1>4. CASE suggest' = [suggest EXCEPT ![c].target = c.source, ![c].pc = "scrape"]
  <2>1. PICK q : q = [suggest[c] EXCEPT !.target = c.source, !.pc = "scrape"]
    OBVIOUS
  <2>2. suggest' = [suggest EXCEPT ![c] = q]
    BY <1>4, <2>1
  <2>3. DraftFacts(c, q)
    BY <1>1, <2>1 DEF DraftFacts, Drafts
  <2>4. QED
    BY <1>1, <2>2, <2>3, DraftMoves
<1>5. QED
  BY <1>2, <1>3, <1>4 DEF FindByIsbn, FindByExternalId, WithIsbn

LEMMA AsksKeep ==
    ASSUME BookInv, NEW c \in DOMAIN suggest,
           SearchAll(c) \/ CancelSuggestion(c) \/ SuggestionFails(c)
    PROVE  BookInv' /\ KeptBooks
<1>1. books' = books /\ entries' = entries /\ DraftFacts(c, suggest[c])
  BY DEF SearchAll, CancelSuggestion, SuggestionFails, KeepAll, shelf, BookInv
<1>2. CASE SearchAll(c)
  <2>1. Goes(c, "merge") /\ suggest[c].pc = "scrape"
    BY <1>2 DEF SearchAll, Suggesting
  <2>2. DraftFacts(c, [suggest[c] EXCEPT !.pc = "merge"])
    BY <1>1, <2>1 DEF DraftFacts, Drafts
  <2>3. QED
    BY <1>1, <2>1, <2>2, GoesOn
<1>3. CASE CancelSuggestion(c) \/ SuggestionFails(c)
  BY <1>1, <1>3, FailsCleanly, GoesOn DEF CancelSuggestion, SuggestionFails
<1>4. QED
  BY <1>2, <1>3

(* The links are of the candidates found.                                  *)
LEMMA LinksFound ==
    ASSUME NEW c, NEW answers, answers \in Seq(Candidates), NEW links,
           links = EvaluateCandidates(c, answers)
    PROVE  links \in Linked
<1> DEFINE threshold == 13 * Weights(Asked(c))
           score(i) == 2 * Weighted(Asked(c), answers[i], c.languages)
           foreign(a) == /\ c.languages # {} /\ a.languages # {}
                         /\ BestLanguageMatch(a.languages, c.languages) = NONE
           good(x) == {i \in Merge(answers) : /\ answers[i].extension = x
                                              /\ ~foreign(answers[i])
                                              /\ score(i) > threshold}
           best(x) == {i \in good(x) : \A j \in good(x) :
                           score(j) < score(i) \/ (score(j) = score(i) /\ i <= j)}
<1>1. links = [x \in Extensions |-> IF best(x) = {} THEN NULL
                                    ELSE answers[CHOOSE i \in best(x) : TRUE].md5]
  BY DEF EvaluateCandidates
<1>2. \A x \in Extensions : \A i \in best(x) : i \in Merge(answers)
  OBVIOUS
<1> HIDE DEF best
<1>3. \A i \in Merge(answers) : i \in DOMAIN answers
  BY DEF Merge
<1>4. ASSUME NEW x \in Extensions, best(x) # {}
      PROVE  links[x] \in Values
  <2>1. PICK i \in best(x) : i = (CHOOSE j \in best(x) : TRUE)
    BY <1>4
  <2>2. links[x] = answers[i].md5
    BY <1>1, <1>4, <2>1
  <2>3. answers[i] \in Candidates
    BY <1>2, <1>3
  <2>4. QED
    BY <2>2, <2>3 DEF Candidates
<1>5. ASSUME NEW x \in Extensions, best(x) = {}
      PROVE  links[x] = NULL
  BY <1>1, <1>5
<1>6. links \in [Extensions -> Values]
  BY <1>1, <1>4, <1>5, BookAssumption
<1>7. QED
  BY <1>4, <1>5, <1>6 DEF Linked

LEMMA MergeKeeps ==
    ASSUME BookInv, NEW c \in DOMAIN suggest, MergeResponses(c)
    PROVE  BookInv' /\ KeptBooks
<1>1. /\ books' = books /\ entries' = entries /\ suggest[c].pc = "merge"
      /\ DraftFacts(c, suggest[c])
  BY DEF MergeResponses, shelf, Suggesting, BookInv
<1>2. PICK found \in [RunsOf(c) -> SearchResults] :
          LET links == EvaluateCandidates(c, Answers(c, found))
              none == \A x \in Extensions : links[x] = NULL
          IN  suggest' = [suggest EXCEPT ![c].links = links,
                 ![c].pc = IF suggest[c].book = NULL THEN "save"
                           ELSE IF none THEN "fields" ELSE "urls"]
  BY DEF MergeResponses
<1>3. Answers(c, found) \in Seq(Candidates)
  <2>1. <<c, "title">> \in RunsOf(c) /\ (c.isbn # NULL => <<c, "isbn">> \in RunsOf(c))
    BY DEF RunsOf, Queries
  <2>2. /\ found[<<c, "title">>] \in Seq(Candidates)
        /\ c.isbn # NULL => found[<<c, "isbn">>] \in Seq(Candidates)
    BY <2>1, BookAssumption
  <2>3. PICK first : first = IF c.isbn # NULL THEN found[<<c, "isbn">>] ELSE <<>>
    OBVIOUS
  <2>4. first \in Seq(Candidates)
    BY <2>2, <2>3
  <2>5. Answers(c, found) = first \o found[<<c, "title">>]
    BY <2>3 DEF Answers
  <2>6. QED
    BY <2>2, <2>4, <2>5
<1>4. PICK links : links = EvaluateCandidates(c, Answers(c, found))
  OBVIOUS
<1>5. links \in Linked
  BY <1>3, <1>4, LinksFound
<1>6. PICK pc : /\ pc = IF suggest[c].book = NULL THEN "save"
                        ELSE IF \A x \in Extensions : links[x] = NULL THEN "fields" ELSE "urls"
                /\ pc \in {"save", "fields", "urls"}
  OBVIOUS
<1>7. PICK q : q = [suggest[c] EXCEPT !.links = links, !.pc = pc]
  OBVIOUS
<1>8. suggest' = [suggest EXCEPT ![c] = q]
  BY <1>2, <1>4, <1>6, <1>7
<1>9. /\ q \in Drafts /\ q.pc = pc /\ q.links = links
      /\ q.book = suggest[c].book /\ q.target = suggest[c].target
  BY <1>1, <1>5, <1>6, <1>7 DEF DraftFacts, Drafts
<1>10. DraftFacts(c, q)
  BY <1>1, <1>5, <1>6, <1>9 DEF DraftFacts
<1>11. QED
  BY <1>1, <1>8, <1>10, DraftMoves

(* A suggestion that writes: the books stored before stay stored, so what  *)
(* the other suggestions hold stays in order.                              *)
LEMMA WritesKeep ==
    ASSUME BookInv, NEW c \in DOMAIN suggest, NEW q, suggest' = [suggest EXCEPT ![c] = q],
           entries' = entries, Stored \subseteq Stored',
           books' \in [Sources -> BookDocs \cup {NULL}], IsbnsUnique', DraftFacts(c, q)'
    PROVE  BookInv'
<1>1. /\ DOMAIN suggest' = DOMAIN suggest /\ suggest'[c] = q
      /\ \A d \in DOMAIN suggest : d # c => suggest'[d] = suggest[d]
  OBVIOUS
<1>2. \A d \in DOMAIN suggest : DraftFacts(d, suggest[d])
  BY DEF BookInv
<1>3. (\A d \in DOMAIN suggest : DraftFacts(d, suggest[d]))'
  BY <1>1, <1>2 DEF DraftFacts
<1>4. EntriesStored'
  BY DEF BookInv, EntriesStored
<1>5. QED
  BY <1>3, <1>4 DEF BookInv

LEMMA AddToUrlsKeeps ==
    ASSUME BookInv, NEW c \in DOMAIN suggest, AddToUrls(c)
    PROVE  BookInv' /\ KeptBooks
<1>1. PICK s, links : s = suggest[c].target /\ links = suggest[c].links
  OBVIOUS
<1>2. /\ suggest[c].pc = "urls" /\ entries' = entries /\ DraftFacts(c, suggest[c])
      /\ books' = [books EXCEPT ![s].urls =
            [x \in Extensions |-> IF links[x] # NULL THEN links[x] ELSE @[x]]]
  BY <1>1 DEF AddToUrls, Suggesting, BookInv
<1>3. /\ s \in Stored /\ s \in Sources /\ books[s] \in BookDocs /\ links \in Linked
      /\ suggest[c].book # NULL /\ \E x \in Extensions : suggest[c].book.urls[x] = NULL
  BY <1>1, <1>2, BookTypes DEF DraftFacts, Drafts
<1>4. PICK urls : urls = [x \in Extensions |-> IF links[x] # NULL THEN links[x] ELSE books[s].urls[x]]
  OBVIOUS
<1>5. PICK b : b = [books[s] EXCEPT !.urls = urls]
  OBVIOUS
<1>6. books' = [books EXCEPT ![s] = b]
  BY <1>2, <1>4, <1>5
<1>7. /\ urls \in Linked /\ b \in BookDocs /\ b # NULL
      /\ b.isbn = books[s].isbn /\ b.about = books[s].about /\ b.urls = urls
  <2>1. books[s].urls \in Linked
    BY <1>3 DEF BookDocs, Linked
  <2>2. urls \in Linked
    BY <1>3, <1>4, <2>1 DEF Linked
  <2>3. /\ b \in BookDocs
        /\ b.isbn = books[s].isbn /\ b.about = books[s].about /\ b.urls = urls
    BY <1>3, <1>5, <2>2 DEF BookDocs, Linked
  <2>4. QED
    BY <2>2, <2>3, BookAssumption
<1>8. /\ books \in [Sources -> BookDocs \cup {NULL}]
      /\ books' \in [Sources -> BookDocs \cup {NULL}] /\ books'[s] = b
      /\ \A t \in Sources : t # s => books'[t] = books[t]
  BY <1>3, <1>6, <1>7 DEF BookInv
<1>9. Stored' = Stored /\ \A t \in Stored : books'[t].isbn = books[t].isbn
  BY <1>3, <1>7, <1>8 DEF Stored
<1>10. IsbnsUnique'
  BY <1>9 DEF BookInv, IsbnsUnique
<1>11. PICK q : q = [suggest[c] EXCEPT !.pc = "fields"]
  OBVIOUS
<1>12. suggest' = [suggest EXCEPT ![c] = q] /\ suggest'[c] # suggest[c]
  <2>1. suggest' = [suggest EXCEPT ![c] = q]
    BY <1>11 DEF AddToUrls, Goes
  <2>2. q.pc = "fields"
    BY <1>2, <1>11 DEF DraftFacts, Drafts
  <2>3. QED
    BY <1>2, <2>1, <2>2
<1>13. DraftFacts(c, q)'
  <2>1. DraftFacts(c, q)
    BY <1>2, <1>11 DEF DraftFacts, Drafts
  <2>2. QED
    BY <1>9, <2>1 DEF DraftFacts
<1>14. BookInv'
  BY <1>2, <1>8, <1>9, <1>10, <1>12, <1>13, WritesKeep
<1>15. ASSUME NEW t \in Stored
       PROVE  Keeps(t)
  <2>1. CASE t # s
    BY <1>8, <2>1, BookTypes DEF Keeps
  <2>2. CASE t = s
    <3>1. Amends(c, s) /\ Missing(c) # {}
      BY <1>1, <1>3, <1>12 DEF Amends, Missing
    <3>2. ASSUME NEW x \in Extensions
          PROVE  books[s].urls[x] = b.urls[x] \/ (links[x] # NULL /\ b.urls[x] = links[x])
      <4>1. b.urls[x] = IF links[x] # NULL THEN links[x] ELSE books[s].urls[x]
        BY <1>4, <1>7
      <4>2. CASE links[x] = NULL
        BY <4>1, <4>2
      <4>3. CASE links[x] # NULL
        BY <4>1, <4>3
      <4>4. QED
        BY <4>2, <4>3
    <3>3. QED
      BY <1>1, <1>2, <1>7, <1>8, <2>2, <3>1, <3>2 DEF Keeps
  <2>3. QED
    BY <2>1, <2>2
<1>16. QED
  BY <1>9, <1>14, <1>15 DEF KeptBooks

LEMMA FillMissingFieldsKeeps ==
    ASSUME BookInv, NEW c \in DOMAIN suggest, FillMissingFields(c)
    PROVE  BookInv' /\ KeptBooks
<1>1. PICK s, old, fields :
          s = suggest[c].target /\ old = suggest[c].book /\ fields = ResolveMissingFields(c)
  OBVIOUS
<1>2. suggest[c].pc = "fields" /\ entries' = entries /\ DraftFacts(c, suggest[c])
  BY DEF FillMissingFields, Suggesting, BookInv
<1>3. CASE Goes(c, "failed") /\ UNCHANGED books
  BY <1>2, <1>3, FailsCleanly, GoesOn
<1>4. CASE /\ ~("isbn" \in fields /\ WithIsbn(c.isbn) \ {s} # {})
           /\ Goes(c, "add")
           /\ books' = [books EXCEPT ![s].isbn = IF "isbn" \in fields THEN c.isbn ELSE @,
                                     ![s].about = IF "about" \in fields THEN c.about ELSE @]
  <2>1. /\ s \in Stored /\ s \in Sources /\ books[s] \in BookDocs
        /\ old # NULL /\ old \in BookDocs /\ c.isbn \in Values /\ c.about \in Values
    BY <1>1, <1>2, BookTypes DEF DraftFacts, Drafts
  <2>2. /\ "isbn" \in fields <=> old.isbn = NULL /\ c.isbn # NULL
        /\ "about" \in fields <=> old.about = NULL /\ c.about # NULL
    BY <1>1 DEF ResolveMissingFields
  <2>3. PICK isbn, about : /\ isbn = IF "isbn" \in fields THEN c.isbn ELSE books[s].isbn
                           /\ about = IF "about" \in fields THEN c.about ELSE books[s].about
    OBVIOUS
  <2>4. PICK b : b = [books[s] EXCEPT !.isbn = isbn, !.about = about]
    OBVIOUS
  <2>5. /\ b \in BookDocs /\ b # NULL
        /\ b.isbn = isbn /\ b.about = about /\ b.urls = books[s].urls
    BY <2>1, <2>3, <2>4, BookAssumption DEF BookDocs
  <2>6. books' = [books EXCEPT ![s] = b]
    BY <1>4, <2>1, <2>3, <2>4 DEF BookInv, BookDocs
  <2>7. /\ books \in [Sources -> BookDocs \cup {NULL}]
        /\ books' \in [Sources -> BookDocs \cup {NULL}] /\ books'[s] = b
        /\ \A t \in Sources : t # s => books'[t] = books[t]
    BY <2>1, <2>5, <2>6 DEF BookInv
  <2>8. Stored' = Stored
    BY <2>1, <2>5, <2>7 DEF Stored
  <2>9. IsbnsUnique'
    <3>1. SUFFICES ASSUME NEW t \in Stored, NEW u \in Stored, t # u,
                          books'[t].isbn # NULL, books'[t].isbn = books'[u].isbn
                   PROVE  FALSE
      BY <2>8 DEF IsbnsUnique
    <3>2. CASE t # s /\ u # s
      BY <2>7, <3>1, <3>2, BookTypes DEF BookInv, IsbnsUnique
    <3>3. \A v \in Stored : v # s => books[v].isbn # isbn \/ isbn = NULL
      <4>1. CASE "isbn" \in fields
        BY <1>4, <2>3, <4>1 DEF WithIsbn
      <4>2. CASE "isbn" \notin fields
        BY <2>1, <2>3, <4>2 DEF BookInv, IsbnsUnique
      <4>3. QED
        BY <4>1, <4>2
    <3>4. QED
      BY <2>5, <2>7, <3>1, <3>2, <3>3, BookTypes
  <2>10. PICK q : q = [suggest[c] EXCEPT !.pc = "add"]
    OBVIOUS
  <2>11. suggest' = [suggest EXCEPT ![c] = q] /\ suggest'[c] # suggest[c]
    <3>1. suggest' = [suggest EXCEPT ![c] = q]
      BY <1>4, <2>10 DEF Goes
    <3>2. q.pc = "add"
      BY <1>2, <2>10 DEF DraftFacts, Drafts
    <3>3. QED
      BY <1>2, <3>1, <3>2
  <2>12. DraftFacts(c, q)'
    <3>1. DraftFacts(c, q)
      BY <1>2, <2>10 DEF DraftFacts, Drafts
    <3>2. QED
      BY <2>8, <3>1 DEF DraftFacts
  <2>13. BookInv'
    BY <1>2, <2>7, <2>8, <2>9, <2>11, <2>12, WritesKeep
  <2>14. ASSUME NEW t \in Stored
         PROVE  Keeps(t)
    <3>1. CASE t # s
      BY <2>7, <3>1, BookTypes DEF Keeps
    <3>2. CASE t = s
      <4>1. Amends(c, s)
        BY <1>1, <2>1, <2>11 DEF Amends
      <4>2. /\ books[s].isbn = isbn \/ (old.isbn = NULL /\ c.isbn # NULL /\ isbn = c.isbn)
            /\ books[s].about = about \/ (old.about = NULL /\ c.about # NULL /\ about = c.about)
        BY <2>2, <2>3
      <4>3. QED
        BY <1>1, <2>5, <2>7, <3>2, <4>1, <4>2 DEF Keeps
    <3>3. QED
      BY <3>1, <3>2
  <2>15. QED
    BY <2>8, <2>13, <2>14 DEF KeptBooks
<1>5. QED
  BY <1>1, <1>3, <1>4 DEF FillMissingFields

LEMMA SaveBookKeeps ==
    ASSUME BookInv, NEW c \in DOMAIN suggest, SaveBook(c)
    PROVE  BookInv' /\ KeptBooks
<1>1. /\ suggest[c].pc = "save" /\ entries' = entries /\ DraftFacts(c, suggest[c])
  BY DEF SaveBook, Suggesting, BookInv
<1>2. CASE Goes(c, "failed") /\ UNCHANGED books
  BY <1>1, <1>2, FailsCleanly, GoesOn
<1>3. CASE /\ ~(c.source \in Stored \/ (c.isbn # NULL /\ WithIsbn(c.isbn) # {}))
           /\ Goes(c, "add")
           /\ books' = [books EXCEPT ![c.source] = NewBook(c)]
  <2>1. PICK b : b = NewBook(c)
    OBVIOUS
  <2>2. /\ c.source \in Sources /\ c.source \notin Stored
        /\ b \in BookDocs /\ b # NULL /\ b.isbn = c.isbn
    BY <1>1, <1>3, <2>1, BookAssumption DEF DraftFacts, NewBook, BookDocs, Linked
  <2>3. /\ books \in [Sources -> BookDocs \cup {NULL}]
        /\ books' \in [Sources -> BookDocs \cup {NULL}] /\ books'[c.source] = b
        /\ \A t \in Sources : t # c.source => books'[t] = books[t]
    BY <1>3, <2>1, <2>2 DEF BookInv
  <2>4. Stored' = Stored \cup {c.source}
    BY <2>2, <2>3 DEF Stored
  <2>5. \A t \in Stored : books'[t] = books[t]
    BY <2>2, <2>3, BookTypes
  <2>6. \A t \in Stored : c.isbn # NULL => books[t].isbn # c.isbn
    BY <1>3 DEF WithIsbn
  <2>7. IsbnsUnique'
    BY <2>2, <2>3, <2>4, <2>5, <2>6 DEF BookInv, IsbnsUnique
  <2>8. PICK q : q = [suggest[c] EXCEPT !.pc = "add"]
    OBVIOUS
  <2>9. suggest' = [suggest EXCEPT ![c] = q]
    BY <1>3, <2>8 DEF Goes
  <2>10. DraftFacts(c, q)'
    <3>1. q \in Drafts /\ q.pc = "add" /\ q.target = c.source
      BY <1>1, <2>8 DEF DraftFacts, Drafts
    <3>2. QED
      BY <1>1, <2>4, <3>1 DEF DraftFacts
  <2>11. BookInv'
    BY <1>1, <2>3, <2>4, <2>7, <2>9, <2>10, WritesKeep
  <2>12. QED
    BY <2>4, <2>5, <2>11 DEF KeptBooks, Keeps
<1>4. QED
  BY <1>2, <1>3 DEF SaveBook

(* The catalog: entries are appended and removed.                          *)
LEMMA EntriesKeep ==
    ASSUME BookInv, books' = books, suggest' = suggest, EntriesStored'
    PROVE  BookInv' /\ KeptBooks
<1>1. Stored' = Stored
  BY DEF Stored
<1>2. (\A d \in DOMAIN suggest : DraftFacts(d, suggest[d]))'
  BY <1>1 DEF BookInv, DraftFacts
<1>3. QED
  BY <1>1, <1>2 DEF BookInv, IsbnsUnique, KeptBooks, Keeps

LEMMA RemoveEntryKeeps ==
    ASSUME BookInv, NEW i \in DOMAIN entries, RemoveEntry(i)
    PROVE  BookInv' /\ KeptBooks
<1>1. books' = books /\ suggest' = suggest /\ entries' = RemoveAt(entries, i)
  BY DEF RemoveEntry
<1>2. PICK S : S = ToSet(entries)
  OBVIOUS
<1>3. entries \in Seq(S) /\ i \in 1..Len(entries) /\ \A e \in S : e.book \in Stored
  BY <1>2 DEF BookInv, EntriesStored, ToSet
<1>4. PICK n : n = Len(entries) /\ n \in Nat
  BY <1>3
<1>5. PICK a, b : a = SubSeq(entries, 1, i - 1) /\ b = SubSeq(entries, i + 1, n)
  OBVIOUS
<1>6. a \in Seq(S) /\ b \in Seq(S)
  BY <1>3, <1>4, <1>5
<1>7. entries' = a \o b
  BY <1>1, <1>4, <1>5 DEF RemoveAt
<1>8. entries' \in Seq(S)
  BY <1>6, <1>7
<1>9. EntriesStored'
  <2>1. Stored' = Stored
    BY <1>1 DEF Stored
  <2>2. entries' \in Seq(ToSet(entries'))
    BY <1>8 DEF ToSet
  <2>3. QED
    BY <1>3, <1>8, <2>1, <2>2 DEF EntriesStored
<1>10. QED
  BY <1>1, <1>9, EntriesKeep

LEMMA AddEntryKeeps ==
    ASSUME BookInv, NEW c \in DOMAIN suggest, AddEntry(c)
    PROVE  BookInv' /\ KeptBooks
<1>1. PICK s : s = suggest[c].target
  OBVIOUS
<1>2. /\ books' = books /\ Goes(c, "done") /\ suggest[c].pc = "add" /\ DraftFacts(c, suggest[c])
      /\ entries' = IF InCatalog(s) THEN entries ELSE Append(entries, [book |-> s, by |-> c.by])
  BY <1>1 DEF AddEntry, Suggesting, BookInv
<1>3. Stored' = Stored /\ s \in Stored
  BY <1>1, <1>2 DEF Stored, DraftFacts
<1>4. EntriesStored'
  <2>1. CASE entries' = entries
    BY <1>3, <2>1 DEF BookInv, EntriesStored
  <2>2. PICK e, S : e = [book |-> s, by |-> c.by] /\ S = ToSet(entries) \cup {e}
    OBVIOUS
  <2>3. CASE entries' = Append(entries, e)
    <3>1. /\ entries \in Seq(S) /\ \A i \in DOMAIN entries : entries[i].book \in Stored
      <4>1. entries \in Seq(ToSet(entries)) /\ \A i \in DOMAIN entries : entries[i].book \in Stored
        BY DEF BookInv, EntriesStored
      <4>2. ToSet(entries) \subseteq S
        BY <2>2
      <4>3. QED
        BY <4>1, <4>2
    <3>2. e \in S /\ e.book = s
      BY <2>2
    <3>3. /\ entries' \in Seq(S) /\ \A i \in DOMAIN entries' : entries'[i].book \in Stored
      BY <1>3, <2>3, <3>1, <3>2
    <3>4. entries' \in Seq(ToSet(entries'))
      BY <3>3 DEF ToSet
    <3>5. QED
      BY <1>3, <3>3, <3>4 DEF EntriesStored
  <2>4. QED
    BY <1>2, <2>1, <2>2, <2>3
<1>5. PICK q : q = [suggest[c] EXCEPT !.pc = "done"]
  OBVIOUS
<1>6. suggest' = [suggest EXCEPT ![c] = q] /\ DraftFacts(c, q)
  BY <1>2, <1>5 DEF Goes, DraftFacts, Drafts
<1>7. (\A d \in DOMAIN suggest : DraftFacts(d, suggest[d]))'
  <2>1. \A d \in DOMAIN suggest' : DraftFacts(d, suggest'[d])
    BY <1>6 DEF BookInv
  <2>2. QED
    BY <1>3, <2>1, <1>6 DEF DraftFacts
<1>8. QED
  BY <1>2, <1>3, <1>4, <1>7 DEF BookInv, IsbnsUnique, KeptBooks, Keeps

LEMMA BooksStay ==
    ASSUME BookInv, UNCHANGED <<books, entries, suggest>>
    PROVE  BookInv' /\ KeptBooks
<1>1. books' = books /\ entries' = entries /\ suggest' = suggest
  OBVIOUS
<1>2. EntriesStored'
  BY <1>1 DEF BookInv, EntriesStored, Stored
<1>3. QED
  BY <1>1, <1>2, EntriesKeep

LEMMA LibraryKeepsBooks ==
    ASSUME BookInv, [Next]_vars
    PROVE  BookInv' /\ KeptBooks
<1>1. CASE UNCHANGED catalog
  BY <1>1, BooksStay DEF catalog, shelf
<1>2. ASSUME NEW c \in DOMAIN suggest,
             \/ EnsureAllowed(c) \/ FindByIsbn(c) \/ FindByExternalId(c) \/ SearchAll(c)
             \/ CancelSuggestion(c) \/ MergeResponses(c) \/ AddToUrls(c) \/ FillMissingFields(c)
             \/ SaveBook(c) \/ AddEntry(c) \/ SuggestionFails(c)
      PROVE  BookInv' /\ KeptBooks
  BY <1>2, EnsureAllowedKeeps, FindsKeep, AsksKeep, MergeKeeps, AddToUrlsKeeps,
     FillMissingFieldsKeeps, SaveBookKeeps, AddEntryKeeps
<1>3. ASSUME NEW p \in DOMAIN page,
             \/ EnsureMember(p) \/ CountEntries(p) \/ FindEntries(p) \/ FindJoined(p)
             \/ ResolveScope(p) \/ RunSearch(p) \/ FindBooks(p)
      PROVE  UNCHANGED <<books, entries, suggest>>
  BY <1>3 DEF EnsureMember, CountEntries, FindEntries, FindJoined, ResolveScope, RunSearch,
              FindBooks, PageGoes, shelf
<1>4. CASE CatalogNext
  <2>1. CASE \E i \in DOMAIN entries : RemoveEntry(i)
    BY <2>1, RemoveEntryKeeps
  <2>2. CASE \E s \in Sources : IndexBook(s)
    BY <2>2, BooksStay DEF IndexBook
  <2>3. CASE UNCHANGED <<shelf, suggest, page>>
    BY <2>3, BooksStay DEF shelf
  <2>4. QED
    BY <1>2, <1>3, <1>4, <2>1, <2>2, <2>3, BooksStay DEF CatalogNext
<1>5. QED
  BY <1>1, <1>4 DEF Next, vars

LEMMA BooksHold == Spec => []BookInv
<1>1. BookInv /\ [Next]_vars => BookInv'
  BY LibraryKeepsBooks
<1>2. QED
  BY <1>1, BooksStart, PTL DEF Spec

(* However suggestions race, a book that is known stays, its ISBN and its  *)
(* field but for what a suggestion replaces that read the book before, its *)
(* links but for what one finds that read the book with a format missing;  *)
(* ISBNs are unique, and the catalog lists stored books only.              *)
THEOREM BooksAreKept == Spec => BooksKept
<1>1. BookInv /\ [Next]_vars =>
          [/\ \A s \in Stored :
                 /\ books'[s] # NULL
                 /\ \/ books[s].isbn \in {NULL, books'[s].isbn}
                    \/ \E c \in DOMAIN suggest : /\ Amends(c, s) /\ suggest[c].book.isbn = NULL
                                                 /\ c.isbn # NULL /\ books'[s].isbn = c.isbn
                 /\ \/ books[s].about \in {NULL, books'[s].about}
                    \/ \E c \in DOMAIN suggest : /\ Amends(c, s) /\ suggest[c].book.about = NULL
                                                 /\ c.about # NULL /\ books'[s].about = c.about
                 /\ \A x \in Extensions :
                       \/ books[s].urls[x] \in {NULL, books'[s].urls[x]}
                       \/ \E c \in DOMAIN suggest :
                             /\ Amends(c, s) /\ suggest[c].pc = "urls" /\ Missing(c) # {}
                             /\ suggest[c].links[x] # NULL
                             /\ books'[s].urls[x] = suggest[c].links[x]
           /\ \A s, t \in {u \in Sources : books'[u] # NULL} :
                 books'[s].isbn # NULL /\ books'[s].isbn = books'[t].isbn => s = t
           /\ \A i \in DOMAIN entries' : books'[entries'[i].book] # NULL]_<<books, entries, suggest>>
  <2>1. SUFFICES ASSUME BookInv, [Next]_vars
                 PROVE  /\ \A s \in Stored : books'[s] # NULL /\ Keeps(s)
                        /\ \A s, t \in {u \in Sources : books'[u] # NULL} :
                              books'[s].isbn # NULL /\ books'[s].isbn = books'[t].isbn => s = t
                        /\ \A i \in DOMAIN entries' : books'[entries'[i].book] # NULL
    BY DEF Keeps
  <2>2. BookInv' /\ KeptBooks
    BY <2>1, LibraryKeepsBooks
  <2>3. \A s \in Stored : books'[s] # NULL /\ Keeps(s)
    BY <2>2 DEF KeptBooks, Stored
  <2>4. \A s, t \in {u \in Sources : books'[u] # NULL} :
            books'[s].isbn # NULL /\ books'[s].isbn = books'[t].isbn => s = t
    BY <2>2 DEF BookInv, IsbnsUnique, Stored
  <2>5. \A i \in DOMAIN entries' : books'[entries'[i].book] # NULL
    BY <2>2 DEF BookInv, EntriesStored, Stored
  <2>6. QED
    BY <2>3, <2>4, <2>5
<1>2. QED
  BY <1>1, BooksHold, PTL DEF Spec, BooksKept

-----------------------------------------------------------------------------
(* The elements of a finite set in an order of it, each given by those up  *)
(* to it: counting those gives each element a place of its own, and every  *)
(* place is taken.                                                         *)
Ordered(P, upTo) ==
    /\ upTo \in [P -> SUBSET P]
    /\ \A i \in P : i \in upTo[i]
    /\ \A i, j \in P : i # j =>
          \/ upTo[i] \subseteq upTo[j] /\ j \notin upTo[i]
          \/ upTo[j] \subseteq upTo[i] /\ i \notin upTo[j]

LEMMA PlacesAreCounted ==
    ASSUME NEW P, IsFiniteSet(P), NEW upTo, Ordered(P, upTo)
    PROVE  /\ Cardinality(P) \in Nat
           /\ \A i \in P : Cardinality(upTo[i]) \in 1..Cardinality(P)
           /\ \A k \in 1..Cardinality(P) : \E i \in P : Cardinality(upTo[i]) = k
           /\ \A i, j \in P : i # j /\ i \in upTo[j] => Cardinality(upTo[i]) < Cardinality(upTo[j])
           /\ \A i, j \in P : Cardinality(upTo[i]) = Cardinality(upTo[j]) => i = j
<1> DEFINE count == [i \in P |-> Cardinality(upTo[i])]
           n == Cardinality(P)
<1>1. /\ upTo \in [P -> SUBSET P]
      /\ \A i \in P : i \in upTo[i]
      /\ \A i, j \in P : i # j => \/ upTo[i] \subseteq upTo[j] /\ j \notin upTo[i]
                                  \/ upTo[j] \subseteq upTo[i] /\ i \notin upTo[j]
  BY DEF Ordered
<1>2. n \in Nat
  BY FS_CardinalityType
<1>3. \A i \in P : IsFiniteSet(upTo[i]) /\ Cardinality(upTo[i]) \in Nat /\ Cardinality(upTo[i]) <= n
  <2>1. TAKE i \in P
  <2>2. upTo[i] \in SUBSET P
    BY <1>1
  <2>3. QED
    BY <2>2, FS_Subset, FS_CardinalityType
<1>4. \A i \in P : Cardinality(upTo[i]) \in 1..n
  <2>1. TAKE i \in P
  <2>2. upTo[i] # {}
    BY <1>1
  <2>3. Cardinality(upTo[i]) # 0
    BY <1>3, <2>2, FS_EmptySet
  <2>4. QED
    BY <1>2, <1>3, <2>3
<1>5. ASSUME NEW i \in P, NEW j \in P, upTo[i] \subseteq upTo[j], j \notin upTo[i]
      PROVE  Cardinality(upTo[i]) < Cardinality(upTo[j])
  <2>1. upTo[i] \in SUBSET upTo[j] /\ upTo[i] # upTo[j]
    BY <1>1, <1>5
  <2>2. Cardinality(upTo[i]) <= Cardinality(upTo[j]) /\ Cardinality(upTo[j]) # Cardinality(upTo[i])
    BY <1>3, <2>1, FS_Subset
  <2>3. QED
    BY <1>3, <2>2
<1>6. \A i, j \in P : i # j /\ i \in upTo[j] => Cardinality(upTo[i]) < Cardinality(upTo[j])
  BY <1>1, <1>5
<1>7. \A i, j \in P : Cardinality(upTo[i]) = Cardinality(upTo[j]) => i = j
  <2>1. SUFFICES ASSUME NEW i \in P, NEW j \in P, i # j
                 PROVE  Cardinality(upTo[i]) # Cardinality(upTo[j])
    OBVIOUS
  <2>2. Cardinality(upTo[i]) < Cardinality(upTo[j]) \/ Cardinality(upTo[j]) < Cardinality(upTo[i])
    BY <1>1, <1>5, <2>1
  <2>3. QED
    BY <1>3, <2>2
<1>8. count \in Injection(P, 1..n)
  BY <1>4, <1>7 DEF Injection, IsInjective
<1>9. IsFiniteSet(1..n) /\ Cardinality(1..n) = n
  BY <1>2, FS_Interval
<1>10. count \in Surjection(P, 1..n)
  BY <1>8, <1>9, FS_Injection
<1>11. \A k \in 1..n : \E i \in P : Cardinality(upTo[i]) = k
  BY <1>10 DEF Surjection
<1>12. QED
  BY <1>2, <1>4, <1>6, <1>7, <1>11

(* A listing by places: what is at each of its places, chosen by counting. *)
Placing(P, upTo) ==
    [k \in 1..Cardinality(P) |-> CHOOSE i \in P : Cardinality(upTo[i]) = k]

LEMMA PlacingCounts ==
    ASSUME NEW P, IsFiniteSet(P), NEW upTo, Ordered(P, upTo)
    PROVE  /\ Placing(P, upTo) \in Bijection(1..Cardinality(P), P)
           /\ \A j, k \in 1..Cardinality(P) :
                 j < k => Placing(P, upTo)[k] \notin upTo[Placing(P, upTo)[j]]
<1> DEFINE place == Placing(P, upTo)
           n == Cardinality(P)
<1>1. \A k \in 1..n : place[k] \in P /\ Cardinality(upTo[place[k]]) = k
  BY PlacesAreCounted DEF Placing
<1>2. place \in [1..n -> P]
  BY <1>1 DEF Placing
<1>3. \A j, k \in 1..n : place[j] = place[k] => j = k
  BY <1>1
<1>4. \A i \in P : \E k \in 1..n : place[k] = i
  <2>1. TAKE i \in P
  <2>2. Cardinality(upTo[i]) \in 1..n
    BY PlacesAreCounted
  <2>3. PICK k \in 1..n : k = Cardinality(upTo[i])
    BY <2>2
  <2>4. place[k] = i
    BY <1>1, <2>3, PlacesAreCounted
  <2>5. QED
    BY <2>4
<1>5. ASSUME NEW j \in 1..n, NEW k \in 1..n, j < k, place[k] \in upTo[place[j]]
      PROVE  FALSE
  <2>1. place[k] # place[j] /\ place[k] \in P /\ place[j] \in P
    BY <1>1, <1>5
  <2>2. Cardinality(upTo[place[k]]) < Cardinality(upTo[place[j]])
    BY <1>5, <2>1, PlacesAreCounted
  <2>3. k < j
    BY <1>1, <2>2
  <2>4. QED
    BY <1>5, <2>3
<1> HIDE DEF place
<1>6. place \in Bijection(1..n, P)
  BY <1>2, <1>3, <1>4 DEF Bijection, Injection, Surjection, IsInjective
<1>7. QED
  BY <1>5, <1>6 DEF place

(* The best match of languages is one of the levels.                       *)
LEMMA LanguageScore ==
    ASSUME NEW candidates, NEW wanted
    PROVE  BestLanguageMatch(candidates, wanted) \in {NONE, BASE, FULL}
<1> DEFINE levels == {NONE} \cup {LanguageMatchLevel(c, p) : c \in candidates, p \in wanted}
<1>1. \A c, p : LanguageMatchLevel(c, p) \in {NONE, BASE, FULL}
  BY DEF LanguageMatchLevel
<1>2. levels \subseteq {NONE, BASE, FULL} /\ NONE \in levels
  BY <1>1
<1> HIDE DEF levels
<1>3. \E m \in levels : \A l \in levels : m >= l
  BY <1>2 DEF NONE, BASE, FULL
<1>4. Max(levels) \in levels
  BY <1>3 DEF Max
<1>5. QED
  BY <1>2, <1>4 DEF BestLanguageMatch, levels

(* The score of a volume is an integer.                                    *)
LEMMA ScoresAreNumbers ==
    ASSUME NEW v \in VolumeDocs
    PROVE  ScoreBook(v) \in Int
<1>1. v.title \in Int /\ v.author \in Int /\ v.complete \in Int
  BY DEF VolumeDocs
<1>2. PICK match \in Int : match = BestLanguageMatch(v.languages, Terms.languages)
  BY LanguageScore DEF NONE, BASE, FULL
<1>3. Weighted(Terms.asked, v, Terms.languages) \in Int
  BY <1>1, <1>2 DEF Weighted, TITLE_WEIGHT, AUTHOR_WEIGHT, LANGUAGE_WEIGHT
<1>4. PICK unit \in Int : unit = IF Weights(Terms.asked) = 0 THEN 1 ELSE Weights(Terms.asked)
  BY DEF Weights, TITLE_WEIGHT, AUTHOR_WEIGHT, LANGUAGE_WEIGHT
<1>5. PICK part \in Int : part = 15 * v.complete
  BY <1>1
<1>6. PICK share \in Int : share = part * unit
  BY <1>4
<1>7. PICK main \in Int : main = IF IsbnMatch(v) THEN 340 * unit
                                 ELSE 34 * Weighted(Terms.asked, v, Terms.languages)
  BY <1>3, <1>4
<1>8. ScoreBook(v) = main + share
  BY <1>4, <1>5, <1>6, <1>7 DEF ScoreBook
<1>9. QED
  BY <1>8

(* A chunk is sorted and nothing else: every volume of it is there once,   *)
(* a match of the ISBN before any other, the better score before the       *)
(* worse, and volumes of equal rank in the provider's order, for any terms *)
(* and volumes: __score_and_sort_books.                                    *)
THEOREM SortedByRelevance ==
    ASSUME NEW s \in Seq(VolumeDocs)
    PROVE  LET sorted == ScoreAndSortBooks(s)
           IN  /\ DOMAIN sorted = DOMAIN s
               /\ \A j, k \in DOMAIN s : j < k => ~Before(sorted[k], sorted[j])
               /\ \E place \in Bijection(DOMAIN s, DOMAIN s) :
                     /\ \A k \in DOMAIN s : sorted[k] = s[place[k]]
                     /\ \A j, k \in DOMAIN s :
                           j < k /\ ~Before(sorted[j], sorted[k]) => place[j] < place[k]
<1> DEFINE ahead(j, i) == Before(s[j], s[i]) \/ (~Before(s[i], s[j]) /\ j <= i)
           upTo == [i \in DOMAIN s |-> {j \in DOMAIN s : ahead(j, i)}]
           sorted == ScoreAndSortBooks(s)
           place == Placing(DOMAIN s, upTo)
<1>1. PICK n \in Nat : n = Len(s) /\ DOMAIN s = 1..n
  OBVIOUS
<1>2. IsFiniteSet(DOMAIN s) /\ Cardinality(DOMAIN s) = n
  <2>1. IsFiniteSet(1..n) /\ Cardinality(1..n) = n
    BY FS_Interval
  <2>2. QED
    BY <1>1, <2>1
<1>3. \A i \in DOMAIN s : upTo[i] = {j \in DOMAIN s : ahead(j, i)}
  OBVIOUS
<1>4. sorted = [k \in DOMAIN s |-> s[CHOOSE i \in DOMAIN s : Cardinality({j \in DOMAIN s : ahead(j, i)}) = k]]
  BY DEF ScoreAndSortBooks
<1>5. upTo \in [DOMAIN s -> SUBSET DOMAIN s]
  OBVIOUS
<1>6. PICK hit : hit = [i \in DOMAIN s |-> IF IsbnMatch(s[i]) THEN 1 ELSE 0]
  OBVIOUS
<1>7. PICK score : score = [i \in DOMAIN s |-> ScoreBook(s[i])]
  OBVIOUS
<1>8. hit \in [1..n -> 0..1] /\ score \in [1..n -> Int]
  <2>1. \A i \in DOMAIN s : s[i] \in VolumeDocs
    OBVIOUS
  <2>2. \A i \in DOMAIN s : ScoreBook(s[i]) \in Int
    BY <2>1, ScoresAreNumbers
  <2>3. QED
    BY <1>1, <1>6, <1>7, <2>2
<1>9. \A i, j \in 1..n : Before(s[i], s[j]) <=>
                            hit[i] > hit[j] \/ (hit[i] = hit[j] /\ score[i] > score[j])
  <2>1. TAKE i \in 1..n, j \in 1..n
  <2>2. /\ hit[i] = IF IsbnMatch(s[i]) THEN 1 ELSE 0
        /\ hit[j] = IF IsbnMatch(s[j]) THEN 1 ELSE 0
        /\ score[i] = ScoreBook(s[i]) /\ score[j] = ScoreBook(s[j])
    BY <1>1, <1>6, <1>7
  <2>3. IsbnMatch(s[i]) \in BOOLEAN /\ IsbnMatch(s[j]) \in BOOLEAN
    BY DEF IsbnMatch
  <2>4. CASE IsbnMatch(s[i]) = IsbnMatch(s[j])
    <3>1. Before(s[i], s[j]) <=> score[i] > score[j]
      BY <2>2, <2>3, <2>4 DEF Before
    <3>2. hit[i] = hit[j]
      BY <2>2, <2>4
    <3>3. hit[i] \in Int
      BY <1>8
    <3>4. QED
      BY <3>1, <3>2, <3>3
  <2>5. CASE IsbnMatch(s[i]) # IsbnMatch(s[j])
    BY <2>2, <2>3, <2>5 DEF Before
  <2>6. QED
    BY <2>4, <2>5
<1> DEFINE first(j, i) == \/ hit[j] > hit[i]
                          \/ hit[j] = hit[i] /\ score[j] > score[i]
                          \/ hit[j] = hit[i] /\ score[j] = score[i] /\ j <= i
<1>10. \A i, j \in 1..n : ahead(j, i) <=> first(j, i)
  <2>1. TAKE i \in 1..n, j \in 1..n
  <2>2. i \in Int /\ j \in Int /\ hit[i] \in Int /\ hit[j] \in Int /\ score[i] \in Int /\ score[j] \in Int
    BY <1>8
  <2>3. QED
    BY <1>9, <2>2
<1> HIDE DEF ahead, upTo, sorted
<1>11. \A i, j \in 1..n : j \in upTo[i] <=> first(j, i)
  BY <1>1, <1>3, <1>10
<1>12. Ordered(DOMAIN s, upTo)
  <2>1. \A i \in 1..n : i \in upTo[i]
    BY <1>8, <1>11
  <2>2. ASSUME NEW i \in 1..n, NEW j \in 1..n, i # j, first(i, j)
        PROVE  upTo[i] \subseteq upTo[j] /\ j \notin upTo[i]
    <3>1. /\ i \in Int /\ hit[i] \in Int /\ score[i] \in Int
          /\ j \in Int /\ hit[j] \in Int /\ score[j] \in Int
      BY <1>8
    <3>2. ~first(j, i)
      BY <2>2, <3>1
    <3>3. ASSUME NEW m \in 1..n, first(m, i) PROVE first(m, j)
      <4>1. m \in Int /\ hit[m] \in Int /\ score[m] \in Int
        BY <1>8
      <4>2. QED
        BY <2>2, <3>1, <3>3, <4>1
    <3>4. QED
      BY <1>1, <1>5, <1>11, <3>2, <3>3
  <2>3. \A i, j \in 1..n : first(i, j) \/ first(j, i)
    <3>1. TAKE i \in 1..n, j \in 1..n
    <3>2. i \in Int /\ hit[i] \in Int /\ score[i] \in Int
      BY <1>8
    <3>3. j \in Int /\ hit[j] \in Int /\ score[j] \in Int
      BY <1>8
    <3>4. QED
      BY <3>2, <3>3
  <2>4. QED
    BY <1>1, <1>5, <2>1, <2>2, <2>3 DEF Ordered
<1>13. /\ place \in Bijection(1..n, DOMAIN s)
       /\ \A j, k \in 1..n : j < k => place[k] \notin upTo[place[j]]
  BY <1>2, <1>12, PlacingCounts
<1>14. place \in [1..n -> 1..n]
  BY <1>1, <1>13 DEF Bijection, Injection
<1>15. ASSUME NEW k \in 1..n
       PROVE  sorted[k] = s[place[k]]
  <2>1. PICK c : c = CHOOSE i \in DOMAIN s : Cardinality({j \in DOMAIN s : ahead(j, i)}) = k
    OBVIOUS
  <2>2. PICK p : p = CHOOSE i \in DOMAIN s : Cardinality(upTo[i]) = k
    OBVIOUS
  <2>3. \E i \in DOMAIN s : Cardinality(upTo[i]) = k
    <3>1. \A l \in 1..Cardinality(DOMAIN s) : \E i \in DOMAIN s : Cardinality(upTo[i]) = l
      BY <1>2, <1>12, PlacesAreCounted
    <3>2. QED
      BY <1>2, <3>1
  <2>4. p \in DOMAIN s /\ Cardinality(upTo[p]) = k
    BY <2>2, <2>3
  <2>5. c \in DOMAIN s /\ Cardinality({j \in DOMAIN s : ahead(j, c)}) = k
    <3>1. \E i \in DOMAIN s : Cardinality({j \in DOMAIN s : ahead(j, i)}) = k
      BY <1>3, <2>3
    <3>2. QED
      BY <2>1, <3>1
  <2>6. c = p
    <3>1. Cardinality(upTo[c]) = Cardinality(upTo[p])
      BY <1>3, <2>4, <2>5
    <3>2. QED
      BY <1>2, <1>12, <2>4, <2>5, <3>1, PlacesAreCounted
  <2>7. place[k] = p
    BY <1>2, <2>2 DEF Placing
  <2>8. sorted[k] = s[c]
    BY <1>1, <1>4, <2>1
  <2>9. QED
    BY <2>6, <2>7, <2>8
<1>16. ASSUME NEW j \in 1..n, NEW k \in 1..n, j < k
       PROVE  /\ ~Before(sorted[k], sorted[j])
              /\ ~Before(sorted[j], sorted[k]) => place[j] < place[k]
  <2>1. PICK i \in 1..n, m \in 1..n : i = place[j] /\ m = place[k]
    BY <1>14
  <2>2. ~first(m, i)
    BY <1>11, <1>13, <1>16, <2>1
  <2>3. sorted[j] = s[i] /\ sorted[k] = s[m]
    BY <1>15, <2>1
  <2>4. /\ Before(s[m], s[i]) <=> hit[m] > hit[i] \/ (hit[m] = hit[i] /\ score[m] > score[i])
        /\ Before(s[i], s[m]) <=> hit[i] > hit[m] \/ (hit[i] = hit[m] /\ score[i] > score[m])
    BY <1>9
  <2>5. hit[i] \in Int /\ hit[m] \in Int /\ score[i] \in Int /\ score[m] \in Int
    BY <1>8
  <2>6. ~Before(s[m], s[i]) /\ (~Before(s[i], s[m]) => i < m)
    BY <2>2, <2>4, <2>5
  <2>7. QED
    BY <2>1, <2>3, <2>6
<1>17. DOMAIN sorted = DOMAIN s
  BY <1>4
<1>18. QED
  BY <1>1, <1>13, <1>15, <1>16, <1>17 DEF sorted

-----------------------------------------------------------------------------
(* Induction, from the pigeonhole principle: if n were missing, adding one *)
(* would be an injection of the numbers up to n that are there into those  *)
(* above 0.                                                                *)
LEMMA Counting ==
    ASSUME NEW A \in SUBSET Nat, 0 \in A, \A i \in A : i + 1 \in A
    PROVE  A = Nat
<1>1. SUFFICES ASSUME NEW n \in Nat, n \notin A PROVE FALSE
  OBVIOUS
<1> DEFINE B == A \cap 0..n
           C == B \ {0}
           next == [i \in B |-> i + 1]
<1>2. IsFiniteSet(B) /\ IsFiniteSet(C) /\ Cardinality(C) < Cardinality(B)
  <2>1. IsFiniteSet(0..n)
    BY FS_Interval
  <2>2. IsFiniteSet(B)
    BY <2>1, FS_Subset
  <2>3. Cardinality(B) \in Nat /\ 0 \in B
    BY <2>2, FS_CardinalityType
  <2>4. IsFiniteSet(C) /\ Cardinality(C) = Cardinality(B) - 1
    <3> HIDE DEF B
    <3>1. QED
      BY <2>2, <2>3, FS_RemoveElement
  <2>5. QED
    BY <2>2, <2>3, <2>4
<1>3. next \in [B -> C]
  <2>1. ASSUME NEW i \in B PROVE i + 1 \in C
    BY <1>1
  <2>2. QED
    BY <2>1
<1>4. PICK i \in B, j \in B : i # j /\ next[i] = next[j]
  <2> HIDE DEF B, C, next
  <2>1. QED
    BY <1>2, <1>3, FS_PigeonHole
<1>5. QED
  BY <1>4

(* The query after each call of a chain.                                   *)
IsChain(query, calls) ==
    /\ query[0] = NewQuery
    /\ \A i \in 1..Len(calls) : query[i] = Chain(query[i - 1], calls[i])

LEMMA ChainsExist ==
    ASSUME NEW calls, NEW n \in Nat
    PROVE  \E query : query = [i \in 0..n |-> IF i = 0 THEN NewQuery ELSE Chain(query[i - 1], calls[i])]
<1> DEFINE A == {m \in Nat : \E query :
                    query = [i \in 0..m |-> IF i = 0 THEN NewQuery ELSE Chain(query[i - 1], calls[i])]}
<1>1. 0 \in A
  <2> DEFINE q == [i \in 0..0 |-> NewQuery]
  <2>1. q = [i \in 0..0 |-> IF i = 0 THEN NewQuery ELSE Chain(q[i - 1], calls[i])]
    OBVIOUS
  <2>2. QED
    BY <2>1
<1>2. ASSUME NEW m \in A PROVE m + 1 \in A
  <2>1. PICK q : q = [i \in 0..m |-> IF i = 0 THEN NewQuery ELSE Chain(q[i - 1], calls[i])]
    OBVIOUS
  <2> DEFINE r == [i \in 0..(m + 1) |-> IF i = m + 1 THEN Chain(q[m], calls[m + 1]) ELSE q[i]]
  <2>2. \A i \in 0..(m + 1) : r[i] = IF i = 0 THEN NewQuery ELSE Chain(r[i - 1], calls[i])
    <3>1. ASSUME NEW i \in 0..(m + 1) PROVE r[i] = IF i = 0 THEN NewQuery ELSE Chain(r[i - 1], calls[i])
      <4>1. CASE i = m + 1
        <5>1. r[i] = Chain(q[m], calls[i]) /\ r[i - 1] = q[m] /\ i # 0
          BY <4>1
        <5>2. QED
          BY <5>1
      <4>2. CASE i # m + 1
        <5>1. r[i] = q[i] /\ i \in 0..m
          BY <4>2
        <5>2. i # 0 => r[i - 1] = q[i - 1]
          BY <4>2
        <5>3. q[i] = IF i = 0 THEN NewQuery ELSE Chain(q[i - 1], calls[i])
          BY <2>1, <5>1
        <5>4. QED
          BY <5>1, <5>2, <5>3
      <4>3. QED
        BY <4>1, <4>2
    <3>2. QED
      BY <3>1
  <2>3. r = [i \in 0..(m + 1) |-> IF i = 0 THEN NewQuery ELSE Chain(r[i - 1], calls[i])]
    BY <2>2
  <2>4. \E query :
           query = [i \in 0..(m + 1) |-> IF i = 0 THEN NewQuery ELSE Chain(query[i - 1], calls[i])]
    <3> HIDE DEF r
    <3>1. QED
      BY <2>3
  <2>5. QED
    BY <2>4
<1>3. n \in A
  <2> HIDE DEF A
  <2>1. A \in SUBSET Nat
    BY DEF A
  <2>2. QED
    BY <1>1, <1>2, <2>1, Counting
<1>4. QED
  BY <1>3

LEMMA BuildIsChain ==
    ASSUME NEW T, NEW calls \in Seq(T)
    PROVE  \E query : IsChain(query, calls) /\ Build(calls) = query[Len(calls)]
<1>1. Len(calls) \in Nat
  OBVIOUS
<1> DEFINE q == CHOOSE query : query = [i \in 0..Len(calls) |->
                    IF i = 0 THEN NewQuery ELSE Chain(query[i - 1], calls[i])]
<1>2. q = [i \in 0..Len(calls) |-> IF i = 0 THEN NewQuery ELSE Chain(q[i - 1], calls[i])]
  BY <1>1, ChainsExist
<1>3. Build(calls) = q[Len(calls)]
  BY DEF Build
<1>4. IsChain(q, calls)
  <2> HIDE DEF q
  <2>1. QED
    BY <1>1, <1>2 DEF IsChain
<1>5. QED
  BY <1>3, <1>4

(* What a query has come to be.                                            *)
QueryShapes ==
    [must : SUBSET SUBSET Sources, filter : SUBSET SUBSET Sources, mustNot : SUBSET SUBSET Sources,
     should : Seq(SUBSET Sources), minimumShouldMatch : Nat, limit : Nat]
Required == {"text", "phrase", "filter_in", "filter_equals"}
Places(calls, n, names) == {i \in 1..n : calls[i].call \in names}

(* What a call changes of it.                                              *)
LEMMA ChainChanges ==
    ASSUME NEW q \in QueryShapes, NEW c \in ChainCalls(Sources), NEW r, r = Chain(q, c)
    PROVE  /\ r \in QueryShapes
           /\ r.must \cup r.filter =
                 (q.must \cup q.filter) \cup (IF c.call \in Required THEN {c.hits} ELSE {})
           /\ r.mustNot = q.mustNot \cup (IF c.call = "filter_not_equals" THEN {c.hits} ELSE {})
           /\ r.should = IF c.call = "should" THEN Append(q.should, c.hits) ELSE q.should
           /\ r.minimumShouldMatch = IF c.call = "should" THEN c.number ELSE q.minimumShouldMatch
           /\ r.limit = IF c.call = "limit" THEN c.number ELSE q.limit
<1>1. /\ c.call \in CallNames /\ c.hits \in SUBSET Sources /\ c.number \in Nat
      /\ q.must \in SUBSET SUBSET Sources /\ q.filter \in SUBSET SUBSET Sources
      /\ q.mustNot \in SUBSET SUBSET Sources /\ q.should \in Seq(SUBSET Sources)
  BY DEF ChainCalls, QueryShapes
<1>2. CASE c.call \in {"text", "phrase"}
  <2>1. r = [q EXCEPT !.must = q.must \cup {c.hits}]
    BY <1>2 DEF Chain, Text, Phrase
  <2>2. q.must \cup {c.hits} \in SUBSET SUBSET Sources
    BY <1>1
  <2>3. QED
    BY <1>1, <1>2, <2>1, <2>2 DEF QueryShapes, Required
<1>3. CASE c.call \in {"filter_in", "filter_equals"}
  <2>1. r = [q EXCEPT !.filter = q.filter \cup {c.hits}]
    BY <1>3 DEF Chain, FilterIn, FilterEquals
  <2>2. q.filter \cup {c.hits} \in SUBSET SUBSET Sources
    BY <1>1
  <2>3. QED
    BY <1>1, <1>3, <2>1, <2>2 DEF QueryShapes, Required
<1>4. CASE c.call = "filter_not_equals"
  <2>1. r = [q EXCEPT !.mustNot = q.mustNot \cup {c.hits}]
    BY <1>4 DEF Chain, FilterNotEquals
  <2>2. q.mustNot \cup {c.hits} \in SUBSET SUBSET Sources
    BY <1>1
  <2>3. QED
    BY <1>1, <1>4, <2>1, <2>2 DEF QueryShapes, Required
<1>5. CASE c.call = "should"
  <2>1. r = [q EXCEPT !.should = Append(q.should, c.hits), !.minimumShouldMatch = c.number]
    BY <1>5 DEF Chain, Should
  <2>2. Append(q.should, c.hits) \in Seq(SUBSET Sources)
    BY <1>1
  <2>3. QED
    BY <1>1, <1>5, <2>1, <2>2 DEF QueryShapes, Required
<1>6. CASE c.call = "limit"
  <2>1. r = [q EXCEPT !.limit = c.number]
    BY <1>6 DEF Chain, SetLimit
  <2>2. QED
    BY <1>1, <1>6, <2>1 DEF QueryShapes, Required
<1>7. QED
  BY <1>1, <1>2, <1>3, <1>4, <1>5, <1>6 DEF CallNames

LEMMA PlacesGrow ==
    ASSUME NEW calls, NEW n \in Nat, NEW names
    PROVE  Places(calls, n + 1, names) =
              Places(calls, n, names) \cup (IF calls[n + 1].call \in names THEN {n + 1} ELSE {})
BY DEF Places

(* The clauses of a sequence that match a document.                        *)
Matches(s, d) == {k \in DOMAIN s : d \in s[k]}

(* The query after n calls of a chain asks for what they ask for.          *)
LastOf(calls, n, name, number) ==
    \E i \in Places(calls, n, {name}) :
        number = calls[i].number /\ \A j \in Places(calls, n, {name}) : j <= i
Asks(q, calls, n) ==
    /\ q \in QueryShapes
    /\ q.must \cup q.filter = {calls[i].hits : i \in Places(calls, n, Required)}
    /\ q.mustNot = {calls[i].hits : i \in Places(calls, n, {"filter_not_equals"})}
    /\ q.should = <<>> <=> Places(calls, n, {"should"}) = {}
    /\ \A d : Cardinality(Matches(q.should, d)) =
                 Cardinality({i \in Places(calls, n, {"should"}) : d \in calls[i].hits})
    /\ Places(calls, n, {"should"}) # {} => LastOf(calls, n, "should", q.minimumShouldMatch)
    /\ IF Places(calls, n, {"limit"}) = {} THEN q.limit = NoLimit
       ELSE LastOf(calls, n, "limit", q.limit)

LEMMA AppendNotEmpty ==
    ASSUME NEW T, NEW s \in Seq(T), NEW h
    PROVE  Append(s, h) # <<>>
<1>1. Len(Append(s, h)) = Len(s) + 1 /\ Len(s) \in Nat
  OBVIOUS
<1>2. QED
  BY <1>1

LEMMA CountGrows ==
    ASSUME NEW T, NEW s \in Seq(T), NEW h, NEW d
    PROVE  /\ Cardinality(Matches(s, d)) \in Nat
           /\ d \in h => Cardinality(Matches(Append(s, h), d)) = Cardinality(Matches(s, d)) + 1
           /\ d \notin h => Cardinality(Matches(Append(s, h), d)) = Cardinality(Matches(s, d))
<1> DEFINE before == Matches(s, d)
           after == Matches(Append(s, h), d)
           n == Len(s) + 1
<1>1. n \in Nat /\ DOMAIN s = 1..Len(s) /\ n \notin before
  BY DEF Matches
<1>2. IsFiniteSet(before) /\ Cardinality(before) \in Nat
  <2>1. IsFiniteSet(1..Len(s)) /\ before \in SUBSET (1..Len(s))
    BY <1>1, FS_Interval DEF Matches
  <2>2. QED
    BY <2>1, FS_Subset, FS_CardinalityType
<1>3. after = IF d \in h THEN before \cup {n} ELSE before
  <2>1. /\ DOMAIN Append(s, h) = 1..n /\ Append(s, h)[n] = h
        /\ \A k \in 1..Len(s) : Append(s, h)[k] = s[k]
    OBVIOUS
  <2>2. \A k : k \in 1..n <=> k \in 1..Len(s) \/ k = n
    OBVIOUS
  <2>3. QED
    BY <1>1, <2>1, <2>2 DEF Matches
<1> HIDE DEF before, after, n
<1>4. Cardinality(after) = IF d \in h THEN Cardinality(before) + 1 ELSE Cardinality(before)
  BY <1>1, <1>2, <1>3, FS_AddElement
<1>5. QED
  BY <1>2, <1>4 DEF before, after

LEMMA LastCall ==
    ASSUME NEW calls, NEW n \in Nat, NEW name, NEW old, NEW new,
           Places(calls, n, {name}) # {} => LastOf(calls, n, name, old),
           new = IF calls[n + 1].call = name THEN calls[n + 1].number ELSE old
    PROVE  Places(calls, n + 1, {name}) # {} => LastOf(calls, n + 1, name, new)
<1>1. CASE calls[n + 1].call = name
  <2>1. n + 1 \in Places(calls, n + 1, {name}) /\ \A j \in Places(calls, n + 1, {name}) : j <= n + 1
    BY <1>1 DEF Places
  <2>2. QED
    BY <1>1, <2>1 DEF LastOf
<1>2. CASE calls[n + 1].call # name
  <2>1. Places(calls, n + 1, {name}) = Places(calls, n, {name})
    BY <1>2 DEF Places
  <2>2. QED
    BY <1>2, <2>1 DEF LastOf
<1>3. QED
  BY <1>1, <1>2

(* One more call.                                                          *)
LEMMA AsksMore ==
    ASSUME NEW calls \in Seq(ChainCalls(Sources)), NEW n \in Nat, n + 1 \in 1..Len(calls),
           NEW q, Asks(q, calls, n), NEW r, r = Chain(q, calls[n + 1])
    PROVE  Asks(r, calls, n + 1)
<1>1. PICK c \in ChainCalls(Sources) : c = calls[n + 1]
  OBVIOUS
<1>2. q \in QueryShapes /\ q.should \in Seq(SUBSET Sources)
  BY DEF Asks, QueryShapes
<1>3. /\ r \in QueryShapes
      /\ r.must \cup r.filter =
            (q.must \cup q.filter) \cup (IF c.call \in Required THEN {c.hits} ELSE {})
      /\ r.mustNot = q.mustNot \cup (IF c.call = "filter_not_equals" THEN {c.hits} ELSE {})
      /\ r.should = IF c.call = "should" THEN Append(q.should, c.hits) ELSE q.should
      /\ r.minimumShouldMatch = IF c.call = "should" THEN c.number ELSE q.minimumShouldMatch
      /\ r.limit = IF c.call = "limit" THEN c.number ELSE q.limit
  <2>1. r = Chain(q, c)
    BY <1>1
  <2>2. QED
    BY <1>2, <2>1, ChainChanges
<1>4. \A names : Places(calls, n + 1, names) =
                    Places(calls, n, names) \cup (IF c.call \in names THEN {n + 1} ELSE {})
  <2>1. TAKE names
  <2>2. QED
    BY <1>1, PlacesGrow
<1>5. r.must \cup r.filter = {calls[i].hits : i \in Places(calls, n + 1, Required)}
  <2>1. q.must \cup q.filter = {calls[i].hits : i \in Places(calls, n, Required)}
    BY DEF Asks
  <2>2. QED
    BY <1>1, <1>3, <1>4, <2>1
<1>6. r.mustNot = {calls[i].hits : i \in Places(calls, n + 1, {"filter_not_equals"})}
  <2>1. q.mustNot = {calls[i].hits : i \in Places(calls, n, {"filter_not_equals"})}
    BY DEF Asks
  <2>2. QED
    BY <1>1, <1>3, <1>4, <2>1
<1>7. r.should = <<>> <=> Places(calls, n + 1, {"should"}) = {}
  <2>1. q.should = <<>> <=> Places(calls, n, {"should"}) = {}
    BY DEF Asks
  <2>2. Append(q.should, c.hits) # <<>>
    BY <1>2, AppendNotEmpty
  <2>3. Places(calls, n + 1, {"should"}) =
           Places(calls, n, {"should"}) \cup (IF c.call = "should" THEN {n + 1} ELSE {})
    BY <1>4
  <2>4. QED
    BY <1>3, <2>1, <2>2, <2>3
<1>8. ASSUME NEW d
      PROVE  Cardinality(Matches(r.should, d)) =
                Cardinality({i \in Places(calls, n + 1, {"should"}) : d \in calls[i].hits})
  <2> DEFINE P == Places(calls, n, {"should"})
             U == {i \in P : d \in calls[i].hits}
             S == Matches(q.should, d)
  <2>1. Cardinality(S) = Cardinality(U)
    BY DEF Asks
  <2>2. CASE c.call # "should"
    <3>1. Places(calls, n + 1, {"should"}) = P /\ r.should = q.should
      <4>1. Places(calls, n + 1, {"should"}) = P \cup (IF c.call \in {"should"} THEN {n + 1} ELSE {})
        BY <1>4
      <4>2. QED
        BY <1>3, <2>2, <4>1
    <3>2. QED
      BY <2>1, <3>1
  <2>3. CASE c.call = "should"
    <3>1. /\ Cardinality(S) \in Nat
          /\ Cardinality(Matches(r.should, d)) =
                IF d \in c.hits THEN Cardinality(S) + 1 ELSE Cardinality(S)
      <4>1. /\ Cardinality(S) \in Nat
            /\ d \in c.hits =>
                  Cardinality(Matches(Append(q.should, c.hits), d)) = Cardinality(S) + 1
            /\ d \notin c.hits =>
                  Cardinality(Matches(Append(q.should, c.hits), d)) = Cardinality(S)
        BY <1>2, CountGrows
      <4>2. r.should = Append(q.should, c.hits)
        BY <1>3, <2>3
      <4>3. QED
        BY <4>1, <4>2
    <3>2. {i \in Places(calls, n + 1, {"should"}) : d \in calls[i].hits} =
             IF d \in c.hits THEN U \cup {n + 1} ELSE U
      BY <1>1, <1>4, <2>3
    <3>3. IsFiniteSet(U) /\ n + 1 \notin U
      <4>1. IsFiniteSet(1..n) /\ U \in SUBSET (1..n) /\ n + 1 \notin 1..n
        BY FS_Interval DEF Places
      <4>2. QED
        BY <4>1, FS_Subset
    <3>4. Cardinality(U \cup {n + 1}) = Cardinality(U) + 1
      <4> HIDE DEF U
      <4>1. QED
        BY <3>3, FS_AddElement
    <3> HIDE DEF U, S
    <3>5. QED
      BY <2>1, <3>1, <3>2, <3>4
  <2>4. QED
    BY <2>2, <2>3
<1>9. Places(calls, n + 1, {"should"}) # {} => LastOf(calls, n + 1, "should", r.minimumShouldMatch)
  <2>1. Places(calls, n, {"should"}) # {} => LastOf(calls, n, "should", q.minimumShouldMatch)
    BY DEF Asks
  <2>2. QED
    BY <1>1, <1>3, <2>1, LastCall
<1>10. IF Places(calls, n + 1, {"limit"}) = {} THEN r.limit = NoLimit
       ELSE LastOf(calls, n + 1, "limit", r.limit)
  <2>1. IF Places(calls, n, {"limit"}) = {} THEN q.limit = NoLimit
        ELSE LastOf(calls, n, "limit", q.limit)
    BY DEF Asks
  <2>2. Places(calls, n + 1, {"limit"}) # {} => LastOf(calls, n + 1, "limit", r.limit)
    BY <1>1, <1>3, <2>1, LastCall
  <2>3. Places(calls, n + 1, {"limit"}) = {} => c.call # "limit" /\ Places(calls, n, {"limit"}) = {}
    BY <1>4
  <2>4. QED
    BY <1>3, <2>1, <2>2, <2>3
<1>11. QED
  BY <1>3, <1>5, <1>6, <1>7, <1>8, <1>9, <1>10 DEF Asks

LEMMA BuildAsks ==
    ASSUME NEW calls \in Seq(ChainCalls(Sources))
    PROVE  Asks(Build(calls), calls, Len(calls))
<1>1. PICK query : IsChain(query, calls) /\ Build(calls) = query[Len(calls)]
  BY BuildIsChain
<1> DEFINE A == {n \in Nat : n =< Len(calls) => Asks(query[n], calls, n)}
<1>2. 0 \in A
  <2>1. query[0] = NewQuery /\ \A names : Places(calls, 0, names) = {}
    BY <1>1 DEF IsChain, Places
  <2>2. NewQuery \in QueryShapes
    BY DEF NewQuery, QueryShapes, NoLimit
  <2>3. \A d : Matches(NewQuery.should, d) = {}
    BY DEF NewQuery, Matches
  <2>4. \A d : {i \in Places(calls, 0, {"should"}) : d \in calls[i].hits} = {}
    BY <2>1
  <2>5. NewQuery.must \cup NewQuery.filter = {} /\ NewQuery.mustNot = {}
        /\ NewQuery.should = <<>> /\ NewQuery.limit = NoLimit
    BY DEF NewQuery
  <2>6. Asks(NewQuery, calls, 0)
    BY <2>1, <2>2, <2>3, <2>4, <2>5 DEF Asks
  <2>7. QED
    BY <2>1, <2>6
<1>3. ASSUME NEW n \in A PROVE n + 1 \in A
  <2>1. SUFFICES ASSUME n + 1 =< Len(calls) PROVE Asks(query[n + 1], calls, n + 1)
    OBVIOUS
  <2>2. n \in Nat /\ n + 1 \in 1..Len(calls) /\ Asks(query[n], calls, n)
    BY <2>1
  <2>3. query[n + 1] = Chain(query[n], calls[n + 1])
    BY <1>1, <2>2 DEF IsChain
  <2>4. QED
    BY <2>2, <2>3, AsksMore
<1>4. A = Nat
  <2>1. A \in SUBSET Nat
    OBVIOUS
  <2> HIDE DEF A
  <2>2. QED
    BY <1>2, <1>3, <2>1, Counting
<1>5. QED
  BY <1>1, <1>4

(* A page is the part of a sequence that it should be.                     *)
Listing(s) == \E n \in Nat : s = [k \in 1..n |-> s[k]]

LEMMA ListingShape ==
    ASSUME NEW s, Listing(s)
    PROVE  Len(s) \in Nat /\ DOMAIN s = 1..Len(s) /\ s = [k \in 1..Len(s) |-> s[k]]
<1>1. PICK n \in Nat : s = [k \in 1..n |-> s[k]]
  BY DEF Listing
<1>2. Len(s) = n /\ DOMAIN s = 1..n
  BY <1>1
<1>3. QED
  BY <1>1, <1>2

LEMMA PartShows ==
    ASSUME NEW s, Listing(s), NEW from \in Nat \ {0}, NEW size \in Nat,
           NEW to, to = IF from + size - 1 < Len(s) THEN from + size - 1 ELSE Len(s)
    PROVE  Shows(SubSeq(s, from, to), s, from, size)
<1>1. PICK n \in Nat : n = Len(s) /\ DOMAIN s = 1..n
  BY ListingShape
<1>2. /\ from \in Nat /\ from >= 1 /\ to \in Nat /\ to =< n
      /\ to = IF from + size - 1 < n THEN from + size - 1 ELSE n
  BY <1>1
<1> DEFINE part == SubSeq(s, from, to)
<1>3. /\ Len(part) = IF from =< to THEN to - from + 1 ELSE 0
      /\ DOMAIN part = 1..Len(part)
      /\ \A i \in 1..(to - from + 1) : part[i] = s[from + i - 1]
  <2>1. \A i \in from..to : s[i] \in {s[j] : j \in 1..n}
    <3>1. \A i \in from..to : i \in 1..n
      BY <1>2
    <3>2. QED
      BY <3>1
  <2>2. PICK S : S = {s[j] : j \in 1..n}
    OBVIOUS
  <2>3. from \in Int /\ to \in Int /\ \A i \in from..to : s[i] \in S
    BY <1>2, <2>1, <2>2
  <2>4. /\ part \in Seq(S)
        /\ Len(part) = IF from =< to THEN to - from + 1 ELSE 0
        /\ \A i \in 1..(to - from + 1) : part[i] = s[from + i - 1]
    BY <2>3, SubSeqProperties
  <2>5. QED
    BY <2>4
<1>4. {i \in DOMAIN s : i >= from /\ i < from + size} = from..to
  <2>1. \A i \in 1..n : i >= from /\ i < from + size <=> i \in from..to
    BY <1>2
  <2>2. \A i \in from..to : i \in 1..n
    BY <1>2
  <2>3. QED
    BY <1>1, <2>1, <2>2
<1>5. Cardinality(from..to) = IF from > to THEN 0 ELSE to - from + 1
  <2>1. from \in Int /\ to \in Int
    BY <1>2
  <2>2. QED
    BY <2>1, FS_Interval
<1>6. Len(part) = Cardinality(from..to) /\ \A i \in DOMAIN part : part[i] = s[from + i - 1]
  <2> HIDE DEF part
  <2>1. Len(part) = Cardinality(from..to)
    BY <1>2, <1>3, <1>5
  <2>2. DOMAIN part \subseteq 1..(to - from + 1)
    BY <1>2, <1>3
  <2>3. QED
    BY <1>3, <2>1, <2>2
<1>7. QED
  BY <1>4, <1>6 DEF Shows

LEMMA PageShows ==
    ASSUME NEW s, Listing(s), NEW number \in Nat \ {0}, NEW size \in Nat \ {0}
    PROVE  Shows(PageOf(s, number, size), s, (number - 1) * size + 1, size)
<1>1. /\ (number - 1) * size \in Nat
      /\ number * size = (number - 1) * size + size
  OBVIOUS
<1>2. PICK before \in Nat : before = (number - 1) * size
  BY <1>1
<1>3. PageOf(s, number, size) =
         SubSeq(s, before + 1, IF before + size < Len(s) THEN before + size ELSE Len(s))
  BY <1>1, <1>2 DEF PageOf
<1>4. before + 1 \in Nat \ {0} /\ (before + 1) + size - 1 = before + size
  BY <1>2
<1>5. QED
  BY <1>2, <1>3, <1>4, PartShows

(* The first n of a sequence.                                              *)
FirstOf(s, n) == [i \in 1..Min({n, Len(s)}) |-> s[i]]

LEMMA FirstOnes ==
    ASSUME NEW s, Listing(s), NEW n \in Nat
    PROVE  PageOf(s, 1, n) = FirstOf(s, n) /\ Listing(FirstOf(s, n)) /\ s = FirstOf(s, Len(s))
<1>1. Len(s) \in Nat /\ DOMAIN s = 1..Len(s) /\ s = [k \in 1..Len(s) |-> s[k]]
  BY ListingShape
<1>2. ASSUME NEW a \in Nat, NEW b \in Nat
      PROVE  Min({a, b}) = IF a < b THEN a ELSE b
  <2>1. ASSUME NEW m \in {a, b}, \A y \in {a, b} : m =< y
        PROVE  m = IF a < b THEN a ELSE b
    BY <2>1
  <2>2. \E m \in {a, b} : \A y \in {a, b} : m =< y
    OBVIOUS
  <2>3. QED
    BY <2>1, <2>2 DEF Min
<1>3. PICK m \in Nat : m = IF n < Len(s) THEN n ELSE Len(s)
  BY <1>1
<1>4. PageOf(s, 1, n) = SubSeq(s, 1, m)
  BY <1>1, <1>3 DEF PageOf
<1>5. SubSeq(s, 1, m) = [i \in 1..m |-> s[i]]
  <2>1. \A i \in 1..m : s[i] \in {s[j] : j \in 1..m}
    OBVIOUS
  <2>2. /\ SubSeq(s, 1, m) \in Seq({s[j] : j \in 1..m})
        /\ Len(SubSeq(s, 1, m)) = m
        /\ \A i \in 1..m : SubSeq(s, 1, m)[i] = s[i]
    BY <2>1, SubSeqProperties
  <2>3. QED
    BY <2>2
<1>6. Min({n, Len(s)}) = m /\ Min({Len(s), Len(s)}) = Len(s)
  BY <1>1, <1>2, <1>3
<1>7. Listing([i \in 1..m |-> s[i]])
  BY DEF Listing
<1>8. QED
  BY <1>1, <1>4, <1>5, <1>6, <1>7 DEF FirstOf

LEMMA BestFirstListing ==
    ASSUME NEW docs
    PROVE  Listing(BestFirst(Ranking, docs))
<1> DEFINE places == {i \in DOMAIN Ranking : Ranking[i] \in docs}
<1>1. Cardinality(places) \in Nat
  <2>1. Ranking \in Seq(Sources)
    BY BookAssumption
  <2>2. IsFiniteSet(1..Len(Ranking)) /\ places \in SUBSET (1..Len(Ranking))
    BY <2>1, FS_Interval
  <2>3. QED
    BY <2>2, FS_Subset, FS_CardinalityType
<1>2. PICK n \in Nat : n = Cardinality(places)
  BY <1>1
<1>3. BestFirst(Ranking, docs) = [k \in 1..n |-> BestFirst(Ranking, docs)[k]]
  BY <1>2 DEF BestFirst
<1>4. QED
  BY <1>3 DEF Listing

LEMMA LastIsMax ==
    ASSUME NEW calls, NEW n \in Nat, NEW name, NEW number, LastOf(calls, n, name, number)
    PROVE  number = calls[Max(Places(calls, n, {name}))].number
<1>1. PICK i \in Places(calls, n, {name}) :
         number = calls[i].number /\ \A j \in Places(calls, n, {name}) : j =< i
  BY DEF LastOf
<1>2. Places(calls, n, {name}) \subseteq Nat
  BY DEF Places
<1>3. \A m \in Places(calls, n, {name}) :
         (\A j \in Places(calls, n, {name}) : m >= j) => m = i
  BY <1>1, <1>2
<1>4. Max(Places(calls, n, {name})) = i
  BY <1>1, <1>2, <1>3 DEF Max
<1>5. QED
  BY <1>1, <1>4

(* What the query matches is what its calls ask for.                       *)
LEMMA CompoundIsWanted ==
    ASSUME NEW calls \in Seq(ChainCalls(Sources)), NEW q, Asks(q, calls, Len(calls)), NEW d
    PROVE  Wanted(d, calls) <=>
              /\ \A c \in q.must \cup q.filter : d \in c
              /\ \A c \in q.mustNot : d \notin c
              /\ q.should # <<>> => Cardinality(Matches(q.should, d)) >= q.minimumShouldMatch
<1> DEFINE n == Len(calls)
           of(name) == {i \in DOMAIN calls : calls[i].call = name}
<1>1. n \in Nat /\ DOMAIN calls = 1..n
  OBVIOUS
<1>2. \A name : of(name) = Places(calls, n, {name})
  BY <1>1 DEF Places
<1>3. of("text") \cup of("phrase") \cup of("filter_in") \cup of("filter_equals") = Places(calls, n, Required)
  BY <1>1 DEF Places, Required
<1>4. (\A i \in Places(calls, n, Required) : d \in calls[i].hits) <=> \A c \in q.must \cup q.filter : d \in c
  BY DEF Asks
<1>5. (\A i \in of("filter_not_equals") : d \notin calls[i].hits) <=> \A c \in q.mustNot : d \notin c
  <2>1. q.mustNot = {calls[i].hits : i \in Places(calls, n, {"filter_not_equals"})}
    BY DEF Asks
  <2>2. of("filter_not_equals") = Places(calls, n, {"filter_not_equals"})
    BY <1>2
  <2> HIDE DEF of
  <2>3. QED
    BY <2>1, <2>2
<1>6. (of("should") # {} => Cardinality({i \in of("should") : d \in calls[i].hits}) >=
                               calls[Max(of("should"))].number)
      <=> (q.should # <<>> => Cardinality(Matches(q.should, d)) >= q.minimumShouldMatch)
  <2>1. of("should") = Places(calls, n, {"should"})
    BY <1>2
  <2>2. /\ q.should = <<>> <=> Places(calls, n, {"should"}) = {}
        /\ Cardinality(Matches(q.should, d)) =
              Cardinality({i \in Places(calls, n, {"should"}) : d \in calls[i].hits})
    BY DEF Asks
  <2>3. Places(calls, n, {"should"}) # {} =>
           q.minimumShouldMatch = calls[Max(Places(calls, n, {"should"}))].number
    BY <1>1, LastIsMax DEF Asks
  <2> HIDE DEF of
  <2>4. QED
    BY <2>1, <2>2, <2>3
<1>7. Wanted(d, calls) <=>
         /\ \A i \in of("text") \cup of("phrase") \cup of("filter_in") \cup of("filter_equals") :
               d \in calls[i].hits
         /\ \A i \in of("filter_not_equals") : d \notin calls[i].hits
         /\ of("should") # {} => Cardinality({i \in of("should") : d \in calls[i].hits}) >=
                                    calls[Max(of("should"))].number
  BY DEF Wanted
<1> HIDE DEF of
<1>8. QED
  BY <1>3, <1>4, <1>5, <1>6, <1>7

(* What the request p for a page relies on when it is as far as g says:    *)
(* what it asks for, and that a search of everything is not narrowed.      *)
PagePcs == {"member", "count", "find", "join", "scope", "search", "books", "done"}
PageFacts(p, g) ==
    /\ p.page \in Nat \ {0} /\ p.size \in Nat \ {0} /\ p.calls \in Seq(ChainCalls(Sources))
    /\ \A i \in DOMAIN p.calls : p.calls[i].call = "limit" => p.calls[i].number # NoLimit
    /\ g \in [pc : PagePcs, scopes : {g.scopes}, turn : {1, 2}, items : {g.items}, total : {g.total}]
    /\ p.kind \in PageKinds /\ (g.pc \in {"scope", "search"} => p.kind \in {"q", "all", "scoped"})
    /\ p.kind = "all" => g.scopes \subseteq {Sources}

PageInv == indexed \subseteq Sources /\ \A p \in DOMAIN page : PageFacts(p, page[p])

LEMMA ScopedCompound ==
    ASSUME indexed \subseteq Sources, NEW p, PageFacts(p, page[p])
    PROVE  Compound(ScopedQuery(p), indexed) =
              {d \in indexed : Wanted(d, p.calls) /\ \A ids \in page[p].scopes : d \in ids}
<1> DEFINE q == Build(p.calls)
           r == ScopedQuery(p)
<1>1. Asks(q, p.calls, Len(p.calls))
  BY BuildAsks DEF PageFacts
<1>2. q \in QueryShapes
  BY <1>1 DEF Asks
<1>3. r = IF p.kind = "all" THEN q ELSE [q EXCEPT !.filter = q.filter \cup page[p].scopes]
  BY DEF ScopedQuery
<1> HIDE DEF q, r
<1>4. /\ r.must = q.must /\ r.mustNot = q.mustNot /\ r.should = q.should
      /\ r.minimumShouldMatch = q.minimumShouldMatch
      /\ r.filter = IF p.kind = "all" THEN q.filter ELSE q.filter \cup page[p].scopes
  BY <1>2, <1>3 DEF QueryShapes
<1>5. ASSUME NEW d \in indexed
      PROVE  (\A c \in r.must \cup r.filter : d \in c) <=>
                /\ \A c \in q.must \cup q.filter : d \in c
                /\ \A ids \in page[p].scopes : d \in ids
  <2>1. CASE p.kind = "all"
    <3>1. \A ids \in page[p].scopes : d \in ids
      BY <2>1 DEF PageFacts
    <3>2. QED
      BY <1>4, <2>1, <3>1
  <2>2. CASE p.kind # "all"
    BY <1>4, <2>2
  <2>3. QED
    BY <2>1, <2>2
<1>6. ASSUME NEW d \in indexed
      PROVE  d \in Compound(r, indexed) <=>
                Wanted(d, p.calls) /\ \A ids \in page[p].scopes : d \in ids
  <2>1. d \in Compound(r, indexed) <=>
           /\ \A c \in r.must \cup r.filter : d \in c
           /\ \A c \in r.mustNot : d \notin c
           /\ r.should # <<>> => Cardinality(Matches(r.should, d)) >= r.minimumShouldMatch
    BY DEF Compound, Matches
  <2>2. Wanted(d, p.calls) <=>
           /\ \A c \in q.must \cup q.filter : d \in c
           /\ \A c \in q.mustNot : d \notin c
           /\ q.should # <<>> => Cardinality(Matches(q.should, d)) >= q.minimumShouldMatch
    BY <1>1, CompoundIsWanted DEF PageFacts
  <2>3. QED
    BY <1>4, <1>5, <2>1, <2>2
<1>7. Compound(r, indexed) \subseteq indexed
  BY DEF Compound
<1>8. QED
  BY <1>6, <1>7 DEF r

LEMMA RankedIsEntitled ==
    ASSUME indexed \subseteq Sources, NEW p, PageFacts(p, page[p])
    PROVE  /\ Ranked(ScopedQuery(p), indexed, Ranking) = Entitled(p)
           /\ Listing(Entitled(p))
<1> DEFINE r == ScopedQuery(p)
           n == Len(p.calls)
           hits == BestFirst(Ranking, Compound(r, indexed))
           limits == {i \in DOMAIN p.calls : p.calls[i].call = "limit"}
<1>1. /\ hits = BestFirst(Ranking, {d \in indexed : /\ Wanted(d, p.calls)
                                                    /\ \A ids \in page[p].scopes : d \in ids})
      /\ Listing(hits)
  BY ScopedCompound, BestFirstListing
<1>2. Entitled(p) = FirstOf(hits, IF limits = {} THEN Len(hits) ELSE p.calls[Max(limits)].number)
  BY <1>1 DEF Entitled, FirstOf
<1>3. Ranked(r, indexed, Ranking) = IF r.limit = NoLimit THEN hits ELSE PageOf(hits, 1, r.limit)
  BY DEF Ranked
<1>4. n \in Nat /\ limits = Places(p.calls, n, {"limit"})
  BY DEF PageFacts, Places
<1>5. Asks(Build(p.calls), p.calls, n)
  BY BuildAsks DEF PageFacts
<1>6. r.limit = Build(p.calls).limit
  BY <1>5 DEF ScopedQuery, Asks, QueryShapes
<1> HIDE DEF r, hits, limits
<1>7. CASE limits = {}
  <2>1. r.limit = NoLimit
    BY <1>4, <1>5, <1>6, <1>7 DEF Asks
  <2>2. QED
    BY <1>1, <1>2, <1>3, <1>7, <2>1, FirstOnes DEF r
<1>8. CASE limits # {}
  <2>1. LastOf(p.calls, n, "limit", r.limit)
    BY <1>4, <1>5, <1>6, <1>8 DEF Asks
  <2>2. r.limit = p.calls[Max(limits)].number
    BY <1>4, <2>1, LastIsMax
  <2>3. r.limit \in Nat /\ r.limit # NoLimit
    <3>1. PICK i \in Places(p.calls, n, {"limit"}) : r.limit = p.calls[i].number
      BY <2>1 DEF LastOf
    <3>2. i \in DOMAIN p.calls /\ p.calls[i].call = "limit" /\ p.calls[i] \in ChainCalls(Sources)
      BY <1>4 DEF PageFacts, Places
    <3>3. QED
      BY <3>1, <3>2 DEF PageFacts, ChainCalls
  <2>4. PICK m \in Nat : m = r.limit
    BY <2>3
  <2>5. PageOf(hits, 1, m) = FirstOf(hits, m) /\ Listing(FirstOf(hits, m))
    BY <1>1, FirstOnes
  <2>6. Ranked(r, indexed, Ranking) = PageOf(hits, 1, m)
    BY <1>3, <2>3, <2>4
  <2>7. Entitled(p) = FirstOf(hits, m)
    BY <1>2, <1>8, <2>2, <2>4
  <2>8. QED
    BY <2>5, <2>6, <2>7 DEF r
<1>9. QED
  BY <1>7, <1>8

(* A page that is answered with this step shows what it should.            *)
SearchAnswered(p) ==
    page[p].pc = "search" /\ page'[p].pc = "books" =>
        /\ Shows(page'[p].items, Entitled(p), (p.page + page[p].turn - 2) * p.size + 1, p.size)
        /\ page'[p].total = Len(Entitled(p))

LEMMA PageMoves ==
    ASSUME PageInv, NEW p \in DOMAIN page, NEW g, PageGoes(p, g), PageFacts(p, g),
           page[p].pc = "search" /\ g.pc = "books" =>
               /\ Shows(g.items, Entitled(p), (p.page + page[p].turn - 2) * p.size + 1, p.size)
               /\ g.total = Len(Entitled(p))
    PROVE  PageInv' /\ \A r \in DOMAIN page : SearchAnswered(r)
<1>1. /\ page' = [page EXCEPT ![p] = g] /\ indexed' = indexed
  BY DEF PageGoes, shelf
<1>2. DOMAIN page' = DOMAIN page /\ page'[p] = g /\ \A r \in DOMAIN page : r # p => page'[r] = page[r]
  BY <1>1
<1>3. \A r \in DOMAIN page' : PageFacts(r, page'[r])
  BY <1>2 DEF PageInv
<1>4. PageInv'
  BY <1>1, <1>3 DEF PageInv, PageFacts
<1>5. \A r \in DOMAIN page : SearchAnswered(r)
  BY <1>2 DEF SearchAnswered
<1>6. QED
  BY <1>4, <1>5

LEMMA EnsureMemberShows ==
    ASSUME PageInv, NEW p \in DOMAIN page, EnsureMember(p)
    PROVE  PageInv' /\ \A r \in DOMAIN page : SearchAnswered(r)
<1>1. PICK f : f = page[p] /\ PageFacts(p, f) /\ f.pc = "member"
  BY DEF PageInv, EnsureMember, Paging
<1>2. PICK pc \in PagePcs :
         /\ PageGoes(p, [f EXCEPT !.pc = pc])
         /\ pc \in {"scope", "search"} => p.kind \in {"q", "all", "scoped"}
  BY <1>1 DEF EnsureMember, PagePcs, PageFacts, PageKinds
<1>3. PICK g : g = [f EXCEPT !.pc = pc] /\ PageFacts(p, g)
  BY <1>1, <1>2 DEF PageFacts
<1>4. QED
  BY <1>1, <1>2, <1>3, PageMoves

LEMMA EntriesPageShows ==
    ASSUME PageInv, NEW p \in DOMAIN page, CountEntries(p) \/ FindEntries(p) \/ FindJoined(p)
    PROVE  PageInv' /\ \A r \in DOMAIN page : SearchAnswered(r)
<1>1. PICK f : f = page[p] /\ PageFacts(p, f) /\ f.pc # "search"
  BY DEF PageInv, CountEntries, FindEntries, FindJoined, Paging
<1>2. PICK g : PageGoes(p, g) /\ PageFacts(p, g)
  <2>1. CASE CountEntries(p)
    <3>1. PICK total : PageGoes(p, [f EXCEPT !.pc = "find", !.total = total])
      BY <1>1, <2>1 DEF CountEntries
    <3>2. PageFacts(p, [f EXCEPT !.pc = "find", !.total = total])
      BY <1>1 DEF PageFacts, PagePcs
    <3>3. QED
      BY <3>1, <3>2
  <2>2. CASE FindEntries(p)
    <3>1. PICK items : PageGoes(p, [f EXCEPT !.pc = "books", !.items = items])
      BY <1>1, <2>2 DEF FindEntries
    <3>2. PageFacts(p, [f EXCEPT !.pc = "books", !.items = items])
      BY <1>1 DEF PageFacts, PagePcs
    <3>3. QED
      BY <3>1, <3>2
  <2>3. CASE FindJoined(p)
    <3>1. PICK total, items : PageGoes(p, [f EXCEPT !.pc = "books", !.total = total, !.items = items])
      BY <1>1, <2>3 DEF FindJoined
    <3>2. PageFacts(p, [f EXCEPT !.pc = "books", !.total = total, !.items = items])
      BY <1>1 DEF PageFacts, PagePcs
    <3>3. QED
      BY <3>1, <3>2
  <2>4. QED
    BY <2>1, <2>2, <2>3
<1>3. QED
  BY <1>1, <1>2, PageMoves

LEMMA FindBooksShows ==
    ASSUME PageInv, NEW p \in DOMAIN page, FindBooks(p)
    PROVE  PageInv' /\ \A r \in DOMAIN page : SearchAnswered(r)
<1>1. PICK f : f = page[p] /\ PageFacts(p, f) /\ f.pc = "books"
  BY DEF PageInv, FindBooks, Paging
<1>2. PICK g : PageGoes(p, g) /\ PageFacts(p, g)
  <2>1. CASE PageGoes(p, [f EXCEPT !.pc = "done"])
    <3>1. PageFacts(p, [f EXCEPT !.pc = "done"])
      BY <1>1 DEF PageFacts, PagePcs
    <3>2. QED
      BY <2>1, <3>1
  <2>2. CASE p.kind \in {"all", "scoped"} /\ PageGoes(p, [f EXCEPT !.pc = "scope", !.turn = 2])
    <3>1. PageFacts(p, [f EXCEPT !.pc = "scope", !.turn = 2])
      BY <1>1, <2>2 DEF PageFacts, PagePcs
    <3>2. QED
      BY <2>2, <3>1
  <2>3. QED
    BY <1>1, <2>1, <2>2 DEF FindBooks
<1>3. QED
  BY <1>1, <1>2, PageMoves

LEMMA ResolveScopeShows ==
    ASSUME PageInv, NEW p \in DOMAIN page, ResolveScope(p)
    PROVE  PageInv' /\ \A r \in DOMAIN page : SearchAnswered(r)
<1>1. PICK f : f = page[p] /\ PageFacts(p, f) /\ f.pc = "scope"
  BY DEF PageInv, ResolveScope, Paging
<1>2. PICK g : PageGoes(p, g) /\ PageFacts(p, g)
  <2>1. CASE ScopeOf(p) = {}
    <3>1. PageGoes(p, [f EXCEPT !.pc = "books", !.items = <<>>, !.total = 0])
      BY <1>1, <2>1 DEF ResolveScope
    <3>2. PageFacts(p, [f EXCEPT !.pc = "books", !.items = <<>>, !.total = 0])
      BY <1>1 DEF PageFacts, PagePcs
    <3>3. QED
      BY <3>1, <3>2
  <2>2. CASE ScopeOf(p) # {}
    <3>1. PageGoes(p, [f EXCEPT !.pc = "search", !.scopes = f.scopes \cup {ScopeOf(p)}])
      BY <1>1, <2>2 DEF ResolveScope
    <3>2. p.kind = "all" => ScopeOf(p) = Sources
      BY DEF ScopeOf
    <3>3. PageFacts(p, [f EXCEPT !.pc = "search", !.scopes = f.scopes \cup {ScopeOf(p)}])
      <4>1. PICK scopes : scopes = f.scopes \cup {ScopeOf(p)}
        OBVIOUS
      <4>2. p.kind = "all" => scopes \subseteq {Sources}
        BY <1>1, <3>2, <4>1 DEF PageFacts
      <4>3. PageFacts(p, [f EXCEPT !.pc = "search", !.scopes = scopes])
        BY <1>1, <4>2 DEF PageFacts, PagePcs
      <4>4. QED
        BY <4>1, <4>3
    <3>4. QED
      BY <3>1, <3>3
  <2>3. QED
    BY <2>1, <2>2
<1>3. QED
  BY <1>1, <1>2, PageMoves

LEMMA RunSearchShows ==
    ASSUME PageInv, NEW p \in DOMAIN page, RunSearch(p)
    PROVE  PageInv' /\ \A r \in DOMAIN page : SearchAnswered(r)
<1>1. PICK f : f = page[p] /\ PageFacts(p, f) /\ f.pc = "search"
  BY DEF PageInv, RunSearch, Paging
<1>2. PICK number \in Nat \ {0} : number = p.page + f.turn - 1
  BY <1>1 DEF PageFacts
<1>3. PICK items, total :
         /\ items = PageOf(Ranked(ScopedQuery(p), indexed, Ranking), number, p.size)
         /\ total = Len(Ranked(ScopedQuery(p), indexed, Ranking))
         /\ PageGoes(p, [f EXCEPT !.pc = "books", !.items = items, !.total = total])
  BY <1>1, <1>2 DEF RunSearch, Paginate
<1>4. /\ Ranked(ScopedQuery(p), indexed, Ranking) = Entitled(p) /\ Listing(Entitled(p))
  BY <1>1, RankedIsEntitled DEF PageInv
<1>5. Shows(items, Entitled(p), (number - 1) * p.size + 1, p.size) /\ total = Len(Entitled(p))
  BY <1>1, <1>3, <1>4, PageShows DEF PageFacts
<1>6. number - 1 = p.page + f.turn - 2
  BY <1>1, <1>2 DEF PageFacts
<1>7. PICK g : g = [f EXCEPT !.pc = "books", !.items = items, !.total = total]
  OBVIOUS
<1>8. PageFacts(p, g) /\ g.items = items /\ g.total = total
  BY <1>1, <1>7 DEF PageFacts, PagePcs
<1>9. QED
  BY <1>1, <1>3, <1>5, <1>6, <1>7, <1>8, PageMoves

(* The other steps of the catalog leave the pages alone.                   *)
LEMMA PagesStay ==
    ASSUME PageInv, page' = page, indexed' \subseteq Sources
    PROVE  PageInv' /\ \A r \in DOMAIN page : SearchAnswered(r)
<1>1. \A r \in DOMAIN page' : PageFacts(r, page'[r])
  BY DEF PageInv
<1>2. PageInv'
  BY <1>1 DEF PageInv, PageFacts
<1>3. QED
  BY <1>2 DEF SearchAnswered

LEMMA CatalogShows ==
    ASSUME PageInv, CatalogNext
    PROVE  PageInv' /\ \A r \in DOMAIN page : SearchAnswered(r)
<1>1. ASSUME NEW c \in DOMAIN suggest,
             \/ EnsureAllowed(c) \/ FindByIsbn(c) \/ FindByExternalId(c) \/ SearchAll(c)
             \/ CancelSuggestion(c) \/ MergeResponses(c) \/ AddToUrls(c) \/ FillMissingFields(c)
             \/ SaveBook(c) \/ AddEntry(c) \/ SuggestionFails(c)
      PROVE  page' = page /\ indexed' = indexed
  BY <1>1 DEF EnsureAllowed, FindByIsbn, FindByExternalId, SearchAll, CancelSuggestion,
              MergeResponses, AddToUrls, FillMissingFields, SaveBook, AddEntry, SuggestionFails,
              KeepAll, shelf
<1>2. ASSUME MirrorNext /\ UNCHANGED <<shelf, suggest, page>>
      PROVE  page' = page /\ indexed' = indexed
  BY <1>2 DEF shelf
<1>3. ASSUME NEW i \in DOMAIN entries, RemoveEntry(i)
      PROVE  page' = page /\ indexed' = indexed
  BY <1>3 DEF RemoveEntry
<1>4. ASSUME NEW s \in Sources, IndexBook(s)
      PROVE  page' = page /\ indexed' \subseteq Sources
  BY <1>4 DEF IndexBook, PageInv
<1>5. ASSUME NEW p \in DOMAIN page,
             \/ EnsureMember(p) \/ CountEntries(p) \/ FindEntries(p) \/ FindJoined(p)
             \/ ResolveScope(p) \/ RunSearch(p) \/ FindBooks(p)
      PROVE  PageInv' /\ \A r \in DOMAIN page : SearchAnswered(r)
  BY <1>5, EnsureMemberShows, EntriesPageShows, ResolveScopeShows, RunSearchShows, FindBooksShows
<1>6. indexed \subseteq Sources
  BY DEF PageInv
<1>7. CASE page' = page /\ indexed' \subseteq Sources
  BY <1>7, PagesStay
<1>8. QED
  BY <1>1, <1>2, <1>3, <1>4, <1>5, <1>6, <1>7 DEF CatalogNext

LEMMA Division ==
    ASSUME NEW a \in Nat, NEW b \in Nat \ {0}
    PROVE  \E c \in Nat, m \in 0..(b - 1) : c = a \div b /\ m = a % b /\ a = b * c + m
<1>1. PICK c \in Nat : c = a \div b
  OBVIOUS
<1>2. PICK m \in 0..(b - 1) : m = a % b
  OBVIOUS
<1>3. a = b * c + m
  BY <1>1, <1>2
<1>4. QED
  BY <1>1, <1>2, <1>3

LEMMA PageStart ==
    ASSUME NEW b \in Nat \ {0}, NEW l \in Nat \ {0}, NEW n \in Nat \ {0}, b % l = 0
    PROVE  \E c \in Nat, start \in Nat :
              /\ c = (n * l + b - 1) \div b
              /\ start = (n - 1) * l - (c - 1) * b
              /\ start = ((n - 1) * l) % b
<1>1. PICK k \in Nat : b = l * k
  <2>1. PICK k \in Nat, m \in 0..(l - 1) : m = b % l /\ b = l * k + m
    BY Division
  <2>2. QED
    BY <2>1
<1>2. PICK x \in Nat : x = n * l
  OBVIOUS
<1>3. PICK y \in Nat : y = (n - 1) * l /\ y + l = x
  BY <1>2
<1>4. PICK c \in Nat : c = (x + b - 1) \div b /\ b * c =< x + b - 1 /\ x + b - 1 < b * c + b
  <2>1. x + b - 1 \in Nat
    BY <1>2
  <2>2. PICK c \in Nat, m \in 0..(b - 1) : c = (x + b - 1) \div b /\ x + b - 1 = b * c + m
    BY <2>1, Division
  <2>3. QED
    BY <2>2
<1>5. PICK z \in Int : z = b * (c - 1) /\ z = (c - 1) * b /\ z + b = b * c
  OBVIOUS
<1>6. z < x /\ x =< z + b
  BY <1>4, <1>5
<1>7. z =< y
  <2>1. PICK m \in Int : m = (c - 1) * k
    OBVIOUS
  <2>2. z = l * m
    BY <1>1, <1>5, <2>1
  <2>3. x = l * n /\ y = l * (n - 1)
    BY <1>2, <1>3
  <2>4. m < n
    <3>1. CASE m >= n
      <4>1. l * m >= l * n
        BY <3>1
      <4>2. QED
        BY <1>6, <2>2, <2>3, <4>1
    <3>2. QED
      BY <3>1
  <2>5. m =< n - 1
    BY <2>4
  <2>6. l * m =< l * (n - 1)
    BY <2>5
  <2>7. QED
    BY <2>2, <2>3, <2>6
<1>8. y - z \in 0..(b - 1)
  BY <1>3, <1>6, <1>7
<1>9. y % b = y - z
  <2>1. PICK d \in Nat, m \in 0..(b - 1) : m = y % b /\ y = b * d + m
    BY Division
  <2>2. PICK r \in 0..(b - 1) : r = y - z /\ y = b * (c - 1) + r
    BY <1>5, <1>8
  <2>3. PICK f \in Int : f = d - (c - 1)
    OBVIOUS
  <2>4. b * f = r - m
    <3>1. PICK u \in Int : u = b * d /\ y = u + m
      BY <2>1
    <3>2. PICK v \in Int : v = b * (c - 1) /\ y = v + r
      BY <2>2
    <3>3. b * f = u - v
      <4>1. PICK g \in Int : g = c - 1 /\ f = d - g /\ v = b * g
        BY <2>3, <3>2
      <4>2. b * f = b * d - b * g
        BY <4>1
      <4>3. QED
        BY <3>1, <4>1, <4>2
    <3>4. QED
      BY <3>1, <3>2, <3>3
  <2>5. ~(f >= 1)
    <3>1. SUFFICES ASSUME f >= 1 PROVE FALSE
      OBVIOUS
    <3>2. b * f >= b
      BY <3>1
    <3>3. QED
      BY <2>4, <3>2
  <2>6. ~(f =< -1)
    <3>1. SUFFICES ASSUME f =< -1 PROVE FALSE
      OBVIOUS
    <3>2. b * f =< -b
      BY <3>1
    <3>3. QED
      BY <2>4, <3>2
  <2>7. f = 0 /\ b * f = 0
    BY <2>5, <2>6
  <2>8. QED
    BY <2>1, <2>2, <2>4, <2>7
<1>10. PICK start \in Nat : start = y - z
  BY <1>8
<1>11. c = (n * l + b - 1) \div b /\ start = (n - 1) * l - (c - 1) * b /\ start = ((n - 1) * l) % b
  BY <1>2, <1>3, <1>4, <1>5, <1>9, <1>10
<1>12. QED
  BY <1>11

(* The slice of a chunk is the page, if pages fit in a chunk.              *)
LEMMA SliceShows ==
    ASSUME NEW q, q.page \in Nat \ {0}, q.limit \in Nat \ {0}, MAX_PROVIDER_CHUNK % q.limit = 0,
           NEW chunk, Listing(chunk)
    PROVE  Shows(SlicePagination(q, chunk), chunk,
                 (((q.page - 1) * q.limit) - (ChunkOf(q) - 1) * MAX_PROVIDER_CHUNK) + 1, q.limit)
<1>1. PICK b \in Nat \ {0} : b = MAX_PROVIDER_CHUNK
  BY SearchAssumption
<1>2. PICK l \in Nat \ {0}, n \in Nat \ {0} : l = q.limit /\ n = q.page
  OBVIOUS
<1>3. b % l = 0
  BY <1>1, <1>2
<1>4. PICK c \in Nat, start \in Nat : /\ c = (n * l + b - 1) \div b
                                     /\ start = (n - 1) * l - (c - 1) * b
                                     /\ start = ((n - 1) * l) % b
  BY <1>3, PageStart
<1>5. ChunkOf(q) = c
  BY <1>1, <1>2, <1>4 DEF ChunkOf
<1>6. (((q.page - 1) * q.limit) - (ChunkOf(q) - 1) * MAX_PROVIDER_CHUNK) + 1 = start + 1
  BY <1>1, <1>2, <1>4, <1>5
<1>7. SlicePagination(q, chunk) =
         SubSeq(chunk, start + 1, IF start + l < Len(chunk) THEN start + l ELSE Len(chunk))
  BY <1>1, <1>2, <1>4 DEF SlicePagination
<1>8. PICK from \in Nat \ {0} : from = start + 1 /\ from + l - 1 = start + l
  OBVIOUS
<1>9. Shows(SubSeq(chunk, from, IF from + l - 1 < Len(chunk) THEN from + l - 1 ELSE Len(chunk)),
            chunk, from, l)
  BY PartShows
<1>10. QED
  BY <1>2, <1>6, <1>7, <1>8, <1>9

(* The part of the invariant about the searches outside.                   *)
SearchFacts(q, g) ==
    /\ q.page \in Nat \ {0} /\ q.limit \in Nat \ {0}
    /\ g \in [pc : {"cache", "fetch", "save", "done"}, chunk : {g.chunk}, items : {g.items}]
    /\ g.pc = "save" => g.chunk = SortedChunk(ChunkOf(q))
CacheFacts == /\ DOMAIN cached \subseteq Nat \ {0}
              /\ \A k \in DOMAIN cached : cached[k] \in {Absent, Corrupt, SortedChunk(k)}
SearchInv ==
    /\ CacheFacts
    /\ \A q \in DOMAIN search : ChunkOf(q) \in DOMAIN cached /\ SearchFacts(q, search[q])

OutsideAnswered(q) ==
    search[q].pc # "done" /\ search'[q].pc = "done" =>
        LET skipped == ((q.page - 1) * q.limit) - (ChunkOf(q) - 1) * MAX_PROVIDER_CHUNK
        IN  /\ search'[q].chunk \in {<<>>, SortedChunk(ChunkOf(q))}
            /\ MAX_PROVIDER_CHUNK % q.limit = 0 =>
                  Shows(search'[q].items, search'[q].chunk, skipped + 1, q.limit)

LEMMA FetchedListing ==
    ASSUME NEW k \in Nat
    PROVE  Listing(SortedChunk(k))
<1> DEFINE s == FetchVolumes(k)
<1>1. PICK m \in Nat : m = Len(Volumes) /\ DOMAIN Volumes = 1..m
  BY SearchAssumption
<1>2. PICK from \in Int, last \in Int : s = SubSeq(Volumes, from, last)
  <2>1. PICK from \in Int, to \in Int :
           from = (k - 1) * MAX_PROVIDER_CHUNK + 1 /\ to = k * MAX_PROVIDER_CHUNK
    BY SearchAssumption
  <2>2. PICK last \in Int : last = IF to < Len(Volumes) THEN to ELSE Len(Volumes)
    BY <1>1
  <2>3. s = SubSeq(Volumes, from, last)
    BY <2>1, <2>2 DEF FetchVolumes
  <2>4. QED
    BY <2>3
<1>3. \E n \in Nat : DOMAIN s = 1..n
  <2>1. PICK S : S = {Volumes[i] : i \in from..last}
    OBVIOUS
  <2>2. SubSeq(Volumes, from, last) \in Seq(S)
    BY <2>1, SubSeqProperties
  <2>3. Len(s) \in Nat /\ DOMAIN s = 1..Len(s)
    BY <1>2, <2>2
  <2>4. QED
    BY <2>3
<1>4. PICK n \in Nat : DOMAIN s = 1..n
  BY <1>3
<1> HIDE DEF s
<1>5. DOMAIN ScoreAndSortBooks(s) = 1..n /\ ScoreAndSortBooks(s) = [i \in 1..n |-> ScoreAndSortBooks(s)[i]]
  BY <1>4 DEF ScoreAndSortBooks
<1>6. Listing(ScoreAndSortBooks(s))
  BY <1>5 DEF Listing
<1>7. QED
  BY <1>6 DEF s, SortedChunk

LEMMA ChunkOfType ==
    ASSUME NEW q, q.page \in Nat \ {0}, q.limit \in Nat \ {0}
    PROVE  ChunkOf(q) \in Nat \ {0}
<1>1. PICK b \in Nat \ {0} : b = MAX_PROVIDER_CHUNK
  BY SearchAssumption
<1>2. PICK x \in Nat : x = q.page * q.limit + b - 1 /\ x >= b
  <2>1. PICK l \in Nat \ {0}, n \in Nat \ {0} : l = q.limit /\ n = q.page
    OBVIOUS
  <2>2. n * l \in Nat \ {0}
    OBVIOUS
  <2>3. n * l + b - 1 \in Nat /\ n * l + b - 1 >= b
    BY <2>2
  <2>4. QED
    BY <2>1, <2>3
<1>3. PICK c \in Nat, m \in 0..(b - 1) : c = x \div b /\ x = b * c + m
  BY Division
<1>4. c # 0
  BY <1>2, <1>3
<1>5. QED
  BY <1>1, <1>2, <1>3, <1>4 DEF ChunkOf

LEMMA ChunksAreListings ==
    ASSUME NEW q, q.page \in Nat \ {0}, q.limit \in Nat \ {0},
           NEW chunk \in {<<>>, SortedChunk(ChunkOf(q))}
    PROVE  Listing(chunk)
<1>1. Listing(<<>>)
  <2>1. <<>> = [k \in 1..0 |-> <<>>[k]]
    OBVIOUS
  <2>2. QED
    BY <2>1 DEF Listing
<1>2. Listing(SortedChunk(ChunkOf(q)))
  BY ChunkOfType, FetchedListing
<1>3. QED
  BY <1>1, <1>2

LEMMA SearchMoves ==
    ASSUME SearchInv, NEW q \in DOMAIN search, NEW g, search' = [search EXCEPT ![q] = g],
           SearchFacts(q, g), DOMAIN cached' = DOMAIN cached, CacheFacts',
           g.pc = "done" => /\ g.chunk \in {<<>>, SortedChunk(ChunkOf(q))}
                            /\ g.items = SlicePagination(q, g.chunk)
    PROVE  SearchInv' /\ \A r \in DOMAIN search : OutsideAnswered(r)
<1>1. DOMAIN search' = DOMAIN search /\ search'[q] = g /\ \A r \in DOMAIN search : r # q => search'[r] = search[r]
  OBVIOUS
<1>2. \A r \in DOMAIN search' : ChunkOf(r) \in DOMAIN cached' /\ SearchFacts(r, search'[r])
  BY <1>1 DEF SearchInv
<1>3. SearchInv'
  BY <1>2 DEF SearchInv, SearchFacts
<1>4. OutsideAnswered(q)
  BY <1>1, ChunksAreListings, SliceShows DEF OutsideAnswered, SearchFacts
<1>5. QED
  BY <1>1, <1>3, <1>4 DEF OutsideAnswered

LEMMA RepliesMoves ==
    ASSUME SearchInv, NEW q \in DOMAIN search, NEW chunk \in {<<>>, SortedChunk(ChunkOf(q))},
           Replies(q, chunk), DOMAIN cached' = DOMAIN cached, CacheFacts'
    PROVE  SearchInv' /\ \A r \in DOMAIN search : OutsideAnswered(r)
<1>1. PICK g : g = [pc |-> "done", chunk |-> chunk, items |-> SlicePagination(q, chunk)]
  OBVIOUS
<1>2. /\ g.pc = "done" /\ g.chunk = chunk /\ g.items = SlicePagination(q, g.chunk)
      /\ search' = [search EXCEPT ![q] = g]
  BY <1>1 DEF Replies
<1>3. SearchFacts(q, g)
  BY <1>1, <1>2 DEF SearchInv, SearchFacts
<1>4. QED
  BY <1>2, <1>3, SearchMoves

LEMMA OutsideShows ==
    ASSUME SearchInv, SearchNext
    PROVE  SearchInv' /\ \A r \in DOMAIN search : OutsideAnswered(r)
<1>1. ASSUME NEW q \in DOMAIN search, TryCacheHit(q)
      PROVE  SearchInv' /\ \A r \in DOMAIN search : OutsideAnswered(r)
  <2>1. PICK f : f = search[q] /\ SearchFacts(q, f) /\ f.pc = "cache"
    BY <1>1 DEF SearchInv, TryCacheHit, Searching
  <2>2. DOMAIN cached' = DOMAIN cached /\ CacheFacts'
    BY <1>1 DEF TryCacheHit, SearchInv, CacheFacts
  <2>3. PICK c : c = cached[ChunkOf(q)] /\ c \in {Absent, Corrupt, SortedChunk(ChunkOf(q))}
    BY DEF SearchInv, CacheFacts
  <2>4. CASE c \notin {Absent, Corrupt} /\ Replies(q, c)
    BY <2>2, <2>3, <2>4, RepliesMoves
  <2>5. CASE search' = [search EXCEPT ![q].pc = "fetch"]
    <3>1. PICK g : g = [f EXCEPT !.pc = "fetch"]
      OBVIOUS
    <3>2. search' = [search EXCEPT ![q] = g]
      BY <2>1, <2>5, <3>1
    <3>3. SearchFacts(q, g) /\ g.pc # "done"
      BY <2>1, <3>1 DEF SearchFacts
    <3>4. QED
      BY <2>2, <3>2, <3>3, SearchMoves
  <2>6. QED
    BY <1>1, <2>3, <2>4, <2>5 DEF TryCacheHit
<1>2. ASSUME NEW q \in DOMAIN search, FetchChunk(q)
      PROVE  SearchInv' /\ \A r \in DOMAIN search : OutsideAnswered(r)
  <2>1. PICK f : f = search[q] /\ SearchFacts(q, f) /\ f.pc = "fetch"
    BY <1>2 DEF SearchInv, FetchChunk, Searching
  <2>2. DOMAIN cached' = DOMAIN cached /\ CacheFacts'
    BY <1>2 DEF FetchChunk, SearchInv, CacheFacts
  <2>3. PICK chunk : chunk = SortedChunk(ChunkOf(q))
    OBVIOUS
  <2>4. CASE Replies(q, <<>>)
    BY <2>2, <2>4, RepliesMoves
  <2>5. CASE search' = [search EXCEPT ![q].pc = "save", ![q].chunk = chunk]
    <3>1. PICK g : g = [f EXCEPT !.pc = "save", !.chunk = chunk]
      OBVIOUS
    <3>2. search' = [search EXCEPT ![q] = g]
      BY <2>1, <2>5, <3>1
    <3>3. SearchFacts(q, g) /\ g.pc # "done"
      BY <2>1, <2>3, <3>1 DEF SearchFacts
    <3>4. QED
      BY <2>2, <3>2, <3>3, SearchMoves
  <2>6. QED
    BY <1>2, <2>3, <2>4, <2>5 DEF FetchChunk
<1>3. ASSUME NEW q \in DOMAIN search, CacheResults(q)
      PROVE  SearchInv' /\ \A r \in DOMAIN search : OutsideAnswered(r)
  <2>1. PICK chunk : chunk = search[q].chunk /\ chunk = SortedChunk(ChunkOf(q))
    BY <1>3 DEF SearchInv, SearchFacts, CacheResults, Searching
  <2>2. cached' = [cached EXCEPT ![ChunkOf(q)] = chunk]
    BY <1>3, <2>1 DEF CacheResults
  <2>3. /\ DOMAIN cached' = DOMAIN cached
        /\ \A k \in DOMAIN cached : cached'[k] = cached[k] \/ (k = ChunkOf(q) /\ cached'[k] = chunk)
    BY <2>2
  <2>4. \A k \in DOMAIN cached : cached'[k] \in {Absent, Corrupt, SortedChunk(k)}
    BY <2>1, <2>3 DEF SearchInv, CacheFacts
  <2>5. CacheFacts'
    BY <2>3, <2>4 DEF SearchInv, CacheFacts
  <2>6. Replies(q, chunk)
    BY <1>3, <2>1 DEF CacheResults
  <2>7. QED
    BY <2>1, <2>3, <2>5, <2>6, RepliesMoves
<1>4. ASSUME NEW k \in DOMAIN cached, ChunkExpires(k)
      PROVE  SearchInv' /\ \A r \in DOMAIN search : OutsideAnswered(r)
  <2>1. cached' = [cached EXCEPT ![k] = Absent] /\ search' = search
    BY <1>4 DEF ChunkExpires
  <2>2. DOMAIN cached' = DOMAIN cached /\ \A j \in DOMAIN cached : cached'[j] = cached[j] \/ cached'[j] = Absent
    BY <2>1
  <2>3. \A j \in DOMAIN cached : cached'[j] \in {Absent, Corrupt, SortedChunk(j)}
    BY <2>2 DEF SearchInv, CacheFacts
  <2>4. CacheFacts'
    BY <2>2, <2>3 DEF SearchInv, CacheFacts
  <2>5. QED
    BY <2>1, <2>2, <2>4 DEF SearchInv, SearchFacts, OutsideAnswered
<1>5. QED
  BY <1>1, <1>2, <1>3, <1>4 DEF SearchNext

LEMMA PagesStart == Init => PageInv /\ SearchInv
<1>1. SUFFICES ASSUME Init PROVE PageInv /\ SearchInv
  OBVIOUS
<1>2. PICK w \in Workloads : /\ CatalogInit(w.stored, w.entries, w.suggestions, w.pages)
                             /\ SearchInit(w.searches)
  BY <1>1 DEF Init
<1>3. /\ indexed \subseteq Sources /\ DOMAIN page = w.pages
      /\ \A p \in w.pages : page[p] = NewPage
  BY <1>2 DEF CatalogInit
<1>4. ASSUME NEW p \in w.pages PROVE PageFacts(p, NewPage)
  BY PageAssumption DEF PageFacts, NewPage, PagePcs
<1>5. PageInv
  BY <1>3, <1>4 DEF PageInv
<1>6. /\ DOMAIN cached = {ChunkOf(q) : q \in w.searches} /\ DOMAIN search = w.searches
      /\ \A k \in DOMAIN cached : cached[k] \in {Absent, Corrupt}
      /\ \A q \in w.searches : search[q] = [pc |-> "cache", chunk |-> <<>>, items |-> <<>>]
  BY <1>2 DEF SearchInit
<1>7. ASSUME NEW q \in w.searches
      PROVE  SearchFacts(q, [pc |-> "cache", chunk |-> <<>>, items |-> <<>>])
  BY PageAssumption DEF SearchFacts
<1>8. SearchInv
  <2>1. \A q \in w.searches : ChunkOf(q) \in Nat \ {0}
    BY PageAssumption, ChunkOfType
  <2>2. QED
    BY <1>6, <1>7, <2>1 DEF SearchInv, CacheFacts
<1>9. QED
  BY <1>5, <1>8

LEMMA LibraryShows ==
    ASSUME PageInv, SearchInv, [Next]_vars
    PROVE  /\ PageInv' /\ SearchInv'
           /\ \A p \in DOMAIN page : SearchAnswered(p)
           /\ \A q \in DOMAIN search : OutsideAnswered(q)
<1>1. ASSUME UNCHANGED catalog
      PROVE  PageInv' /\ \A p \in DOMAIN page : SearchAnswered(p)
  <2>1. page' = page /\ indexed' = indexed
    BY <1>1 DEF catalog, shelf
  <2>2. QED
    BY <2>1, PagesStay DEF PageInv
<1>2. ASSUME UNCHANGED external
      PROVE  SearchInv' /\ \A q \in DOMAIN search : OutsideAnswered(q)
  <2>1. search' = search /\ cached' = cached
    BY <1>2 DEF external
  <2>2. QED
    BY <2>1 DEF SearchInv, CacheFacts, SearchFacts, OutsideAnswered
<1>3. CASE CatalogNext /\ UNCHANGED <<external, limiter>>
  BY <1>2, <1>3, CatalogShows
<1>4. CASE SearchNext /\ UNCHANGED <<catalog, limiter>>
  BY <1>1, <1>4, OutsideShows
<1>5. CASE LimiterNext /\ UNCHANGED <<catalog, external>>
  BY <1>1, <1>2, <1>5
<1>6. CASE UNCHANGED vars
  BY <1>1, <1>2, <1>6 DEF vars
<1>7. QED
  BY <1>3, <1>4, <1>5, <1>6 DEF Next

(* Pages are exact, whatever changes while they are made, however long the *)
(* chain of calls, and for any page, size and chunk.                       *)
THEOREM PagesAreExact == Spec => PageExact
<1>1. PageInv /\ SearchInv /\ [Next]_vars => PageInv' /\ SearchInv'
  BY LibraryShows
<1>2. PageInv /\ SearchInv /\ [Next]_vars =>
         [/\ \A p \in DOMAIN page :
               page[p].pc = "search" /\ page'[p].pc = "books" =>
                   /\ Shows(page'[p].items, Entitled(p), (p.page + page[p].turn - 2) * p.size + 1, p.size)
                   /\ page'[p].total = Len(Entitled(p))
          /\ \A q \in DOMAIN search :
               search[q].pc # "done" /\ search'[q].pc = "done" =>
                   LET skipped == ((q.page - 1) * q.limit) - (ChunkOf(q) - 1) * MAX_PROVIDER_CHUNK
                   IN  /\ search'[q].chunk \in {<<>>, SortedChunk(ChunkOf(q))}
                       /\ MAX_PROVIDER_CHUNK % q.limit = 0 =>
                             Shows(search'[q].items, search'[q].chunk, skipped + 1, q.limit)]_vars
  BY LibraryShows DEF SearchAnswered, OutsideAnswered
<1>3. QED
  BY <1>1, <1>2, PagesStart, PTL DEF Spec, PageExact

(* What is cached of a chunk is what the provider has of it, sorted.       *)
LEMMA ChunkVolumes ==
    ASSUME NEW k \in Nat \ {0}
    PROVE  FetchVolumes(k) \in Seq(VolumeDocs) /\ ToSet(SortedChunk(k)) \subseteq ToSet(Volumes)
<1> DEFINE s == FetchVolumes(k)
           all == {Volumes[i] : i \in DOMAIN Volumes}
<1>1. PICK m \in Nat : m = Len(Volumes) /\ DOMAIN Volumes = 1..m
  BY SearchAssumption
<1>2. PICK from \in Nat \ {0}, to \in Int :
         from = (k - 1) * MAX_PROVIDER_CHUNK + 1 /\ to = k * MAX_PROVIDER_CHUNK
  <2>1. PICK b \in Nat, j \in Nat : b = MAX_PROVIDER_CHUNK /\ j = k - 1
    BY SearchAssumption
  <2>2. j * b \in Nat /\ k * b \in Nat
    OBVIOUS
  <2>3. j * b + 1 \in Nat \ {0}
    BY <2>2
  <2>4. QED
    BY <2>1, <2>2, <2>3
<1>3. PICK last \in Int : last = (IF to < m THEN to ELSE m) /\ last <= m
  OBVIOUS
<1>4. s = SubSeq(Volumes, from, last)
  BY <1>1, <1>2, <1>3 DEF FetchVolumes
<1>5. \A i \in from..last : Volumes[i] \in all /\ Volumes[i] \in VolumeDocs
  <2>1. \A i \in from..last : i \in DOMAIN Volumes
    BY <1>1, <1>2, <1>3
  <2>2. \A i \in DOMAIN Volumes : Volumes[i] \in VolumeDocs
    BY SearchAssumption
  <2>3. QED
    BY <2>1, <2>2
<1> HIDE DEF all
<1>6. s \in Seq(VolumeDocs)
  BY <1>4, <1>5, SubSeqProperties
<1>7. s \in Seq(all)
  BY <1>4, <1>5, SubSeqProperties
<1>8. \A i \in DOMAIN s : s[i] \in all
  BY <1>7
<1>9. DOMAIN SortedChunk(k) = DOMAIN s /\ \A i \in DOMAIN s : SortedChunk(k)[i] \in all
  <2> DEFINE sorted == ScoreAndSortBooks(s)
  <2>1. PICK place \in Bijection(DOMAIN s, DOMAIN s) : \A i \in DOMAIN s : sorted[i] = s[place[i]]
    BY <1>6, SortedByRelevance
  <2>2. place \in [DOMAIN s -> DOMAIN s]
    BY DEF Bijection, Injection
  <2>3. DOMAIN sorted = DOMAIN s
    BY <1>6, SortedByRelevance
  <2>4. QED
    BY <1>8, <2>1, <2>2, <2>3 DEF SortedChunk
<1>10. ToSet(SortedChunk(k)) \subseteq all
  BY <1>9 DEF ToSet
<1>11. QED
  BY <1>6, <1>10 DEF ToSet, all

(* Every reachable state of the library is well typed: what is cached are  *)
(* volumes of the provider, what is listed and indexed are known books.    *)
THEOREM LibraryTypeCorrect == Spec => []TypeOK
<1>1. PoolInv /\ BookInv /\ PageInv /\ SearchInv /\ LimiterInv => TypeOK
  <2>1. SUFFICES ASSUME PoolInv, BookInv, PageInv, SearchInv, LimiterInv
                 PROVE  MirrorTypeOK /\ CatalogTypeOK /\ SearchTypeOK /\ LimiterTypeOK
    BY DEF TypeOK
  <2>2. MirrorTypeOK
    BY <2>1 DEF MirrorTypeOK, PoolInv, RunFacts
  <2>3. CatalogTypeOK
    <3>1. books \in [Sources -> BookDocs \cup {NULL}] /\ indexed \subseteq Sources
      BY <2>1 DEF BookInv, PageInv
    <3>2. \A i \in DOMAIN entries : entries[i].book \in Sources
      BY <2>1 DEF BookInv, EntriesStored, Stored
    <3>3. \A c \in DOMAIN suggest : suggest[c] \in Drafts
      BY <2>1 DEF BookInv, DraftFacts
    <3>4. \A p \in DOMAIN page : page[p].pc \in PagePcs
      BY <2>1 DEF PageInv, PageFacts
    <3>5. QED
      BY <3>1, <3>2, <3>3, <3>4 DEF CatalogTypeOK, Drafts, PagePcs
  <2>4. SearchTypeOK
    <3>1. \A k \in DOMAIN cached : cached[k] \in {Absent, Corrupt, SortedChunk(k)} /\ k \in Nat \ {0}
      BY <2>1 DEF SearchInv, CacheFacts
    <3>2. \A k \in DOMAIN cached :
             cached[k] \in {Absent, Corrupt} \/ ToSet(cached[k]) \subseteq ToSet(Volumes)
      BY <3>1, ChunkVolumes
    <3>3. \A q \in DOMAIN search : search[q].pc \in {"cache", "fetch", "save", "done"}
      BY <2>1 DEF SearchInv, SearchFacts
    <3>4. QED
      BY <3>2, <3>3 DEF SearchTypeOK
  <2>5. LimiterTypeOK
    BY <2>1 DEF LimiterInv
  <2>6. QED
    BY <2>2, <2>3, <2>4, <2>5
<1>2. PageInv /\ SearchInv /\ [Next]_vars => PageInv' /\ SearchInv'
  BY LibraryShows
<1>3. QED
  BY <1>1, <1>2, PagesStart, PoolHolds, BooksHold, LimiterHolds, PTL DEF Spec
=============================================================================
