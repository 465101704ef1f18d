---------------------------- MODULE ReadingRound ----------------------------
(***************************************************************************)
(* The reading rounds of one club and the catalog they draw from:          *)
(* services/round.py and the catalog writes of services/catalog.py.        *)
(*                                                                         *)
(* As in ClubMembership, a request is a program whose database calls are   *)
(* separate steps.  The transaction that records a finisher is modelled    *)
(* with its snapshot: it reads the round and its completions as they were  *)
(* when it began, and a document that somebody else wrote since makes its  *)
(* commit fail and the transaction start again.                            *)
(*                                                                         *)
(* Weights are left out: they are positive, so a draw can return any of    *)
(* its candidates.  So are deadlines, which no guard reads, and ratings.   *)
(***************************************************************************)
EXTENDS Naturals, FiniteSets

CONSTANTS
    Users,       \* user ids
    Books,       \* book ids
    RoundIds,    \* the ids the database will give out: bounds the rounds ever started
    Reqs,        \* request slots
    Operations,  \* the operations clients call, a subset of AllOperations
    PoolMax,     \* POOL_MAX
    NULL         \* None

VARIABLES
    role,     \* role[u]: the active role of u in the club, NULL if none
    catalog,  \* catalog[b]: who suggested b, NULL if b is not in the catalog
    rounds,   \* rounds[k]: the round document k
    done,     \* done[k]: the users with a completion row for round k
    read,     \* the reading histories, <<user, book>> pairs
    req       \* req[r]: the request served in slot r, NULL if none

vars == <<role, catalog, rounds, done, read, req>>
data == <<role, catalog, rounds, done, read>>

Staff == {"OWNER", "ADMIN"}
RoundStatus == {"SETUP", "VOTING", "DECIDED", "CONCLUDED"}
ActiveStatuses == {"SETUP", "VOTING", "DECIDED"}

RoundDocs == [status : RoundStatus \cup {"unused"}, pool : SUBSET Books,
              book : Books \cup {NULL}, lastBy : Users \cup {NULL}]
Unused == [status |-> "unused", pool |-> {}, book |-> NULL, lastBy |-> NULL]

RosterOps == {"join", "depart", "changeRole"}
AllOperations == {"start", "finalize", "finish", "suggest", "remove"} \cup RosterOps

Calls ==
    [op : {"start"}, caller : Users, arg : {"CURATED", "RANDOM"}]
        \cup [op : {"finalize"}, caller : Users, arg : {"DRAW", "VOTE"}]
        \cup [op : {"finish"}, caller : Users, arg : {NULL}]
        \cup [op : {"suggest", "remove"}, caller : Users, arg : Books]

(* The first database call of each operation after its club was found.     *)
FirstPc == [start |-> "staff", finalize |-> "staff", finish |-> "seat",
            suggest |-> "open", remove |-> "entry"]

(* What a request holds in its local variables before each database call.  *)
Local == [staff |-> {NULL}, active |-> {NULL}, members |-> {NULL},
          excluded |-> SUBSET Users, eligible |-> SUBSET Books, save |-> RoundDocs,
          setup |-> {NULL}, entries |-> RoundIds, vote |-> RoundIds,
          draw |-> [round : RoundIds, book : Books],
          seat |-> {NULL}, decided |-> {NULL}, roster |-> RoundIds,
          begin |-> [round : RoundIds, members : SUBSET Users],
          commit |-> [round : RoundIds, members : SUBSET Users,
                      doc : RoundDocs, done : SUBSET Users],
          finished |-> RoundIds,
          open |-> {NULL}, add |-> {NULL},
          entry |-> {NULL}, privilege |-> Users, lock |-> {NULL}, delete |-> {NULL}]

ASSUME RoundAssumption ==
    /\ PoolMax \in Nat
    /\ Operations \subseteq AllOperations
    /\ NULL \notin Users \cup Books \cup RoundIds \cup Staff \cup {"MEMBER"}

TypeOK ==
    /\ role \in [Users -> Staff \cup {"MEMBER", NULL}]
    /\ catalog \in [Books -> Users \cup {NULL}]
    /\ rounds \in [RoundIds -> RoundDocs]
    /\ done \in [RoundIds -> SUBSET Users]
    /\ read \in SUBSET (Users \X Books)
    /\ DOMAIN req = Reqs
    /\ \A r \in Reqs : req[r] # NULL =>
          /\ req[r].call \in Calls
          /\ req[r].pc \in DOMAIN Local
          /\ req[r].local \in Local[req[r].pc]
-----------------------------------------------------------------------------
Members == {u \in Users : role[u] # NULL}
Catalog == {b \in Books : catalog[b] # NULL}
Active == {k \in RoundIds : rounds[k].status \in ActiveStatuses}

(* The books a round keeps in the catalog.                                 *)
Locked(doc) == doc.pool \cup ({doc.book} \ {NULL})

(* Mutant: the majority test is turned round.                              *)
ExcludedMinority(members) ==
    {rounds[k].book : k \in {l \in RoundIds :
        2 * Cardinality(done[l] \cap members) < Cardinality(done[l])}}

(* The books of rounds most of whose finishers are still among members.    *)
Excluded(members) ==
    {rounds[k].book : k \in {l \in RoundIds :
        2 * Cardinality(done[l] \cap members) > Cardinality(done[l])}}

At(r, pc) == req[r] # NULL /\ req[r].pc = pc
Caller(r) == req[r].call.caller

(* Going on to the next database call, and answering the client.           *)
GoTo(r, pc, local) ==
    req' = [req EXCEPT ![r] = [call |-> req[r].call, pc |-> pc, local |-> local]]
Continue(r, pc, local) == GoTo(r, pc, local) /\ UNCHANGED data
Answer(r) == req' = [req EXCEPT ![r] = NULL]
Refuse(r) == Answer(r) /\ UNCHANGED data
ContinueIf(ok, r, pc, local) == \/ ok /\ Continue(r, pc, local)
                                \/ ~ok /\ Refuse(r)
-----------------------------------------------------------------------------
(* A request arrives.  The bound: a round id is left for every start.      *)
Arrive(r, call) ==
    /\ req[r] = NULL
    /\ call.op \in Operations
    /\ call.op = "start" =>
          Cardinality({k \in RoundIds : rounds[k] = Unused}) >
          Cardinality({s \in Reqs : req[s] # NULL /\ req[s].call.op = "start"})
    /\ req' = [req EXCEPT ![r] = [call |-> call, pc |-> FirstPc[call.op], local |-> NULL]]
    /\ UNCHANGED data

(* A database error or a stopped process ends a request between two calls. *)
Abort(r) == req[r] # NULL /\ Refuse(r)

StaffReadRole(r) ==
    /\ At(r, "staff")
    /\ ContinueIf(role[Caller(r)] \in Staff, r,
                  IF req[r].call.op = "start" THEN "active" ELSE "setup", NULL)

(* Mutant: only a decided round keeps another from starting.               *)
StartReadDecided(r) ==
    At(r, "active") /\ ContinueIf(\A k \in Active : rounds[k].status # "DECIDED", r, "members", NULL)

(* start_round.                                                            *)
StartReadActive(r) == At(r, "active") /\ ContinueIf(Active = {}, r, "members", NULL)
StartReadMembers(r) == At(r, "members") /\ Continue(r, "excluded", Members)
StartReadExcluded(r) == At(r, "excluded") /\ Continue(r, "eligible", Excluded(req[r].local))

StartReadEligible(r) ==
    LET eligible == Catalog \ req[r].local IN
    /\ At(r, "eligible")
    /\ \/ eligible = {} /\ Refuse(r)
       \/ /\ Cardinality(eligible) = 1 \/ req[r].call.arg = "RANDOM"
          /\ \E b \in eligible :
                Continue(r, "save", [Unused EXCEPT !.status = "DECIDED", !.book = b])
       \/ /\ Cardinality(eligible) > 1 /\ req[r].call.arg = "CURATED"
          /\ \E pool \in SUBSET eligible :
                /\ Cardinality(pool) =< PoolMax
                /\ Cardinality(pool) = PoolMax \/ pool = eligible
                /\ Continue(r, "save", [Unused EXCEPT !.status = "SETUP", !.pool = pool])

StartSave(r) ==
    /\ At(r, "save")
    /\ \E k \in RoundIds : rounds[k] = Unused /\ rounds' = [rounds EXCEPT ![k] = req[r].local]
    /\ Answer(r)
    /\ UNCHANGED <<role, catalog, done, read>>

(* finalize_round.  With several active rounds find_one returns any.       *)
FinalizeReadRound(r) ==
    /\ At(r, "setup")
    /\ \/ \E k \in Active :
             ContinueIf(rounds[k].status = "SETUP", r,
                        IF req[r].call.arg = "DRAW" THEN "entries" ELSE "vote", k)
       \/ Active = {} /\ Refuse(r)

(* The draw is among the pool books still in the catalog; drawing from     *)
(* none of them is an error.                                               *)
FinalizeReadEntries(r) ==
    LET k == req[r].local
        entries == rounds[k].pool \cap Catalog
    IN
    /\ At(r, "entries")
    /\ \/ \E b \in entries : Continue(r, "draw", [round |-> k, book |-> b])
       \/ entries = {} /\ Refuse(r)

(* Mutant: the update of the draw does not ask for a round in setup.       *)
FinalizeDrawAlways(r) ==
    LET k == req[r].local.round IN
    /\ At(r, "draw")
    /\ rounds' = [rounds EXCEPT ![k].status = "DECIDED", ![k].book = req[r].local.book]
    /\ Answer(r)
    /\ UNCHANGED <<role, catalog, done, read>>

FinalizeDraw(r) ==
    LET k == req[r].local.round IN
    /\ At(r, "draw")
    /\ \/ /\ rounds[k].status = "SETUP"
          /\ rounds' = [rounds EXCEPT ![k].status = "DECIDED", ![k].book = req[r].local.book]
          /\ Answer(r)
          /\ UNCHANGED <<role, catalog, done, read>>
       \/ rounds[k].status # "SETUP" /\ Refuse(r)

FinalizeVote(r) ==
    LET k == req[r].local IN
    /\ At(r, "vote")
    /\ \/ /\ rounds[k].status = "SETUP"
          /\ rounds' = [rounds EXCEPT ![k].status = "VOTING"]
          /\ Answer(r)
          /\ UNCHANGED <<role, catalog, done, read>>
       \/ rounds[k].status # "SETUP" /\ Refuse(r)
-----------------------------------------------------------------------------
(* mark_finished.                                                          *)
FinishReadSeat(r) == At(r, "seat") /\ ContinueIf(role[Caller(r)] # NULL, r, "decided", NULL)

FinishReadRound(r) ==
    /\ At(r, "decided")
    /\ \/ \E k \in Active : ContinueIf(rounds[k].status = "DECIDED", r, "roster", k)
       \/ Active = {} /\ Refuse(r)

(* Mutant: the reading history is written before the completion.           *)
FinishReadMembersLate(r) ==
    /\ At(r, "roster")
    /\ read' = read \cup {<<Caller(r), rounds[req[r].local].book>>}
    /\ GoTo(r, "begin", [round |-> req[r].local, members |-> Members])
    /\ UNCHANGED <<role, catalog, rounds, done>>

FinishReadMembers(r) ==
    /\ At(r, "roster")
    /\ Continue(r, "begin", [round |-> req[r].local, members |-> Members])

(* The transaction of record_completion takes its snapshot.                *)
FinishBegin(r) ==
    LET l == req[r].local IN
    /\ At(r, "begin")
    /\ Continue(r, "commit", [round |-> l.round, members |-> l.members,
                              doc |-> rounds[l.round], done |-> done[l.round]])

(* Mutant: finishers do not touch the round before they count.             *)
FinishCommitNoLock(r) ==
    LET l == req[r].local
        all == l.doc.status = "DECIDED" /\ l.members \subseteq l.done \cup {Caller(r)}
    IN
    /\ At(r, "commit")
    /\ done' = [done EXCEPT ![l.round] = @ \cup {Caller(r)}]
    /\ rounds' = [rounds EXCEPT ![l.round].status = IF all THEN "CONCLUDED" ELSE @]
    /\ GoTo(r, "finished", l.round)
    /\ UNCHANGED <<role, catalog, read>>

(* Its writes: the caller's completion, then the round's last_completed_by *)
(* and, with every member of the list finished, its conclusion.  A row or  *)
(* a round written since the snapshot is a conflict: begin again.          *)
FinishCommit(r) ==
    LET l == req[r].local
        isNew == Caller(r) \notin l.done
        locks == isNew /\ l.doc.status = "DECIDED"
        finishers == l.done \cup {Caller(r)}
        conflict == \/ isNew /\ Caller(r) \in done[l.round]
                    \/ locks /\ rounds[l.round] # l.doc
    IN
    /\ At(r, "commit")
    /\ \/ conflict /\ Continue(r, "begin", [round |-> l.round, members |-> l.members])
       \/ /\ ~conflict
          /\ done' = [done EXCEPT ![l.round] = @ \cup {Caller(r)}]
          /\ rounds' = IF ~locks THEN rounds ELSE
                [rounds EXCEPT
                    ![l.round].lastBy = Caller(r),
                    ![l.round].status = IF l.members \subseteq finishers THEN "CONCLUDED" ELSE @]
          /\ GoTo(r, "finished", l.round)
          /\ UNCHANGED <<role, catalog, read>>

FinishUpsertRead(r) ==
    /\ At(r, "finished")
    /\ read' = read \cup {<<Caller(r), rounds[req[r].local].book>>}
    /\ Answer(r)
    /\ UNCHANGED <<role, catalog, rounds, done>>

(* suggest_book_to_club: a member, while suggestions are open; the unique  *)
(* (club, book) index keeps the first suggestion.                          *)
SuggestReadOpen(r) ==
    /\ At(r, "open")
    /\ \/ role[Caller(r)] # NULL /\ Continue(r, "add", NULL)
       \/ Refuse(r)

SuggestAdd(r) ==
    LET b == req[r].call.arg IN
    /\ At(r, "add")
    /\ catalog' = [catalog EXCEPT ![b] = IF @ = NULL THEN Caller(r) ELSE @]
    /\ Answer(r)
    /\ UNCHANGED <<role, rounds, done, read>>

(* Mutants: the missing entry is not noticed; only the book of the active  *)
(* round is locked, not its candidates.                                    *)
RemoveReadAnyEntry(r) == At(r, "entry") /\ Continue(r, "privilege", catalog[req[r].call.arg])

RemoveReadBookLock(r) ==
    /\ At(r, "lock")
    /\ ContinueIf(\A k \in Active : rounds[k].book # req[r].call.arg, r, "delete", NULL)

(* remove_book_from_club.                                                  *)
RemoveReadEntry(r) ==
    /\ At(r, "entry")
    /\ LET by == catalog[req[r].call.arg] IN ContinueIf(by # NULL, r, "privilege", by)

RemoveReadRole(r) ==
    /\ At(r, "privilege")
    /\ ContinueIf(role[Caller(r)] \in Staff \/ Caller(r) = req[r].local, r, "lock", NULL)

RemoveReadLock(r) ==
    /\ At(r, "lock")
    /\ \/ \E k \in Active :
             ContinueIf(req[r].call.arg \notin Locked(rounds[k]), r, "delete", NULL)
       \/ Active = {} /\ Continue(r, "delete", NULL)

RemoveDelete(r) ==
    /\ At(r, "delete")
    /\ catalog' = [catalog EXCEPT ![req[r].call.arg] = NULL]
    /\ Answer(r)
    /\ UNCHANGED <<role, rounds, done, read>>
-----------------------------------------------------------------------------
(* The roster, which ClubMembership models in full: an admission, a        *)
(* departure or removal, a change between ADMIN and MEMBER.                *)
Join(u) ==
    /\ "join" \in Operations
    /\ role[u] = NULL
    /\ role' = [role EXCEPT ![u] = "MEMBER"]
    /\ UNCHANGED <<catalog, rounds, done, read, req>>

Depart(u) ==
    /\ "depart" \in Operations
    /\ role[u] \in {"ADMIN", "MEMBER"}
    /\ role' = [role EXCEPT ![u] = NULL]
    /\ UNCHANGED <<catalog, rounds, done, read, req>>

ChangeRole(u) ==
    /\ "changeRole" \in Operations
    /\ role[u] \in {"ADMIN", "MEMBER"}
    /\ role' = [role EXCEPT ![u] = IF @ = "ADMIN" THEN "MEMBER" ELSE "ADMIN"]
    /\ UNCHANGED <<catalog, rounds, done, read, req>>

(* A club with its owner and any members, its catalog empty or filled by   *)
(* the owner, before its first round.                                      *)
Init ==
    /\ \E owner \in Users :
          /\ role \in [Users -> {"OWNER", "MEMBER", NULL}]
          /\ \A u \in Users : role[u] = "OWNER" <=> u = owner
          /\ catalog \in {[b \in Books |-> NULL], [b \in Books |-> owner]}
    /\ rounds = [k \in RoundIds |-> Unused]
    /\ done = [k \in RoundIds |-> {}]
    /\ read = {}
    /\ req = [r \in Reqs |-> NULL]

Step(r) ==
    \/ StaffReadRole(r)
    \/ StartReadActive(r) \/ StartReadMembers(r) \/ StartReadExcluded(r)
    \/ StartReadEligible(r) \/ StartSave(r)
    \/ FinalizeReadRound(r) \/ FinalizeReadEntries(r) \/ FinalizeDraw(r) \/ FinalizeVote(r)
    \/ FinishReadSeat(r) \/ FinishReadRound(r) \/ FinishReadMembers(r)
    \/ FinishBegin(r) \/ FinishCommit(r) \/ FinishUpsertRead(r)
    \/ SuggestReadOpen(r) \/ SuggestAdd(r)
    \/ RemoveReadEntry(r) \/ RemoveReadRole(r) \/ RemoveReadLock(r) \/ RemoveDelete(r)

Next ==
    \/ \E r \in Reqs, call \in Calls : Arrive(r, call)
    \/ \E r \in Reqs : Step(r) \/ Abort(r)
    \/ \E u \in Users : Join(u) \/ Depart(u) \/ ChangeRole(u)

Spec == Init /\ [][Next]_vars
-----------------------------------------------------------------------------
(* A club has at most one active round: start_round answers that the club  *)
(* already has an active reading round.                                    *)
OneActiveRound == \A k, l \in Active : k = l

(* The candidates and the book of an active round stay in the catalog, so  *)
(* a draw always has a candidate left: remove_book_from_club refuses to    *)
(* remove a book that is part of the active round.                         *)
LockHonoured == \A k \in Active : Locked(rounds[k]) \subseteq Catalog

(* With a stable roster a book the club has finished never comes up again, *)
(* neither as the book nor as a candidate of an active round:              *)
(* find_majority_excluded_book_ids.                                        *)
NoSecondReading ==
    \A k \in RoundIds, l \in Active :
        rounds[k].status = "CONCLUDED" => rounds[k].book \notin Locked(rounds[l])

(* A round only moves forward, its book is chosen once, from its pool if   *)
(* it has one, and is known from the decision on, whatever finalizations   *)
(* and finishers race.                                                     *)
RoundFlow ==
    [][\A k \in RoundIds :
        LET old == rounds[k]  new == rounds'[k] IN
        /\ <<old.status, new.status>> \in
              {<<"unused", "SETUP">>, <<"unused", "DECIDED">>, <<"SETUP", "VOTING">>,
               <<"SETUP", "DECIDED">>, <<"DECIDED", "CONCLUDED">>}
              \cup {<<s, s>> : s \in RoundStatus \cup {"unused"}}
        /\ old.book # NULL => new.book = old.book
        /\ new.status \in {"DECIDED", "CONCLUDED"} => new.book # NULL
        /\ old.status = "SETUP" => new.book \in old.pool \cup {NULL}]_vars

(* A decided round is concluded exactly when the last member finishes:     *)
(* finishers serialize on the round document, so of two that commit        *)
(* together one sees the other, and no round is concluded early.  The      *)
(* exception is a finisher who listed the members before the roster        *)
(* changed.                                                                *)
StaleList(k) ==
    \E r \in Reqs : /\ At(r, "commit") /\ req'[r] # req[r]
                    /\ req[r].local.round = k /\ req[r].local.members # Members
ConclusionExact ==
    [][\A k \in RoundIds :
        rounds[k].status = "DECIDED" /\ role' = role /\ ~StaleList(k) =>
            LET finished == Members \subseteq done[k]
                finishedNow == Members \subseteq done'[k]
                concludes == rounds'[k].status = "CONCLUDED"
            IN  /\ concludes => finishedNow
                /\ finishedNow /\ ~finished => concludes]_vars

(* A book that a round put into a reading history is backed by the row of  *)
(* a completion, even when requests die half-way through mark_finished.    *)
HistoryBacked ==
    \A p \in read : \E k \in RoundIds : rounds[k].book = p[2] /\ p[1] \in done[k]
=============================================================================
