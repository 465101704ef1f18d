------------------------- MODULE ReadingRoundProofs -------------------------
(***************************************************************************)
(* Proofs about ReadingRound, for any club, any catalog, any number of     *)
(* rounds and of requests that interleave.                                 *)
(***************************************************************************)
EXTENDS ReadingRound, FiniteSetTheorems, TLAPS

Decided == {k \in RoundIds : rounds[k].status \in {"DECIDED", "CONCLUDED"}}
Concluded == {k \in RoundIds : rounds[k].status = "CONCLUDED"}

(* A round has its book from the decision on, completions only then, and   *)
(* the finisher it names has one.                                          *)
RoundsOK ==
    \A k \in RoundIds :
        /\ rounds[k].book # NULL <=> k \in Decided
        /\ done[k] # {} => k \in Decided
        /\ rounds[k].lastBy # NULL => rounds[k].lastBy \in done[k]

(* The snapshot a finisher's transaction reads, as it is when it commits.  *)
(* Every completion of a round not yet concluded has changed the name of   *)
(* the last finisher, to one who was not there before: a round document    *)
(* that looks the same has the same completions.                           *)
SnapshotOK(l) ==
    /\ l.round \in Decided /\ l.doc.status \in {"DECIDED", "CONCLUDED"}
    /\ l.doc.status = "CONCLUDED" => l.round \in Concluded
    /\ l.done \subseteq done[l.round]
    /\ l.doc.lastBy # NULL => l.doc.lastBy \in l.done
    /\ rounds[l.round] = l.doc => l.done = done[l.round] \/ l.round \in Concluded

(* What a request under way has found out, and stays so.                   *)
Knows(q) ==
    /\ q.pc = "save" => /\ q.local.status \in {"SETUP", "DECIDED"} /\ q.local.lastBy = NULL
                        /\ q.local.book # NULL <=> q.local.status = "DECIDED"
    /\ q.pc = "entries" => rounds[q.local].status # "unused"
    /\ q.pc = "draw" => /\ rounds[q.local.round].status # "unused"
                        /\ q.local.book \in rounds[q.local.round].pool
    /\ q.pc = "roster" => q.local \in Decided
    /\ q.pc = "begin" => q.local.round \in Decided
    /\ q.pc = "commit" => SnapshotOK(q.local)
    /\ q.pc = "finished" => q.local \in Decided /\ q.call.caller \in done[q.local]
    /\ q.pc \in {"entry", "privilege", "lock", "delete"} => q.call.arg \in Books

RequestsOK == \A r \in Reqs : req[r] # NULL => Knows(req[r])

(* The inductive invariant: a history is backed by what the transaction    *)
(* of its request has written, which that request alone knows.             *)
IInv == /\ TypeOK
        /\ RoundsOK
        /\ RequestsOK
        /\ HistoryBacked
-----------------------------------------------------------------------------
(* What a request holds before each of its database calls.                 *)
Typed(q) == q.call \in Calls /\ q.pc \in DOMAIN Local /\ q.local \in Local[q.pc]

(* The local variables of a request at each of its calls.                  *)
LEMMA LocalOf ==
    /\ DOMAIN Local = {"staff", "active", "members", "excluded", "eligible", "save", "setup",
                       "entries", "vote", "draw", "seat", "decided", "roster", "begin", "commit",
                       "finished", "open", "add", "entry", "privilege", "lock", "delete"}
    /\ Local["staff"] = {NULL} /\ Local["active"] = {NULL} /\ Local["members"] = {NULL}
    /\ Local["setup"] = {NULL} /\ Local["seat"] = {NULL} /\ Local["decided"] = {NULL}
    /\ Local["open"] = {NULL} /\ Local["add"] = {NULL} /\ Local["entry"] = {NULL}
    /\ Local["lock"] = {NULL} /\ Local["delete"] = {NULL}
    /\ Local["entries"] = RoundIds /\ Local["vote"] = RoundIds /\ Local["roster"] = RoundIds
    /\ Local["finished"] = RoundIds
    /\ Local["excluded"] = SUBSET Users
    /\ Local["eligible"] = SUBSET Books
    /\ Local["save"] = RoundDocs
    /\ Local["draw"] = [round : RoundIds, book : Books]
    /\ Local["begin"] = [round : RoundIds, members : SUBSET Users]
    /\ Local["commit"] = [round : RoundIds, members : SUBSET Users, doc : RoundDocs,
                          done : SUBSET Users]
    /\ Local["privilege"] = Users
BY DEF Local

(* The same for a typed request, with its call.                            *)
LEMMA LocalType ==
    ASSUME NEW q, Typed(q)
    PROVE  /\ q.call.caller \in Users
           /\ q.pc = "excluded" => q.local \in SUBSET Users
           /\ q.pc = "eligible" => q.local \in SUBSET Books
           /\ q.pc = "save" => q.local \in RoundDocs
           /\ q.pc \in {"entries", "vote", "roster", "finished"} => q.local \in RoundIds
           /\ q.pc = "draw" => q.local \in [round : RoundIds, book : Books]
           /\ q.pc = "begin" => q.local \in [round : RoundIds, members : SUBSET Users]
           /\ q.pc = "commit" => q.local \in [round : RoundIds, members : SUBSET Users,
                                              doc : RoundDocs, done : SUBSET Users]
           /\ q.pc = "privilege" => q.local \in Users
<1>1. q.call.caller \in Users
  BY DEF Typed, Calls
<1>2. q.local \in Local[q.pc]
  BY DEF Typed
<1>3. QED
  BY <1>1, <1>2, LocalOf

(* What makes a request well formed.                                       *)
LEMMA GoToType ==
    ASSUME NEW c \in Calls, NEW pc, NEW l,
           \/ pc \in {"staff", "active", "members", "setup", "seat", "decided", "open", "add",
                      "entry", "lock", "delete"} /\ l = NULL
           \/ pc = "excluded" /\ l \in SUBSET Users
           \/ pc = "eligible" /\ l \in SUBSET Books
           \/ pc = "save" /\ l \in RoundDocs
           \/ pc \in {"entries", "vote", "roster", "finished"} /\ l \in RoundIds
           \/ pc = "draw" /\ l \in [round : RoundIds, book : Books]
           \/ pc = "begin" /\ l \in [round : RoundIds, members : SUBSET Users]
           \/ pc = "commit" /\ l \in [round : RoundIds, members : SUBSET Users,
                                      doc : RoundDocs, done : SUBSET Users]
           \/ pc = "privilege" /\ l \in Users
    PROVE  Typed([call |-> c, pc |-> pc, local |-> l])
BY LocalOf DEF Typed

(* A slot in use holds a typed request that knows only what is there.      *)
LEMMA Serves ==
    ASSUME IInv, NEW r \in Reqs, req[r] # NULL
    PROVE  /\ Typed(req[r]) /\ Knows(req[r]) /\ req[r].call \in Calls
           /\ Caller(r) \in Users
BY LocalType DEF IInv, TypeOK, RequestsOK, Typed, Caller

(* How rounds and completions change: the pool is fixed when the round     *)
(* starts, a decision and a conclusion are final, completions are never    *)
(* withdrawn, and one that is recorded before the conclusion puts a new    *)
(* finisher's name on the round.                                           *)
Forward ==
    \A k \in RoundIds :
        /\ rounds[k].status # "unused" =>
              rounds'[k].status # "unused" /\ rounds'[k].pool = rounds[k].pool
        /\ k \in Decided => k \in Decided'
        /\ k \in Concluded => k \in Concluded'
        /\ done[k] \subseteq done'[k]
        /\ k \in Decided \ Concluded =>
              \/ rounds'[k] = rounds[k] /\ done'[k] = done[k]
              \/ rounds'[k].lastBy # NULL /\ rounds'[k].lastBy \notin done[k]

(* What a request knows survives such a change.                            *)
LEMMA ForwardKeepsKnown ==
    ASSUME NEW q, Typed(q), Knows(q), Forward
    PROVE  Knows(q)'
<1>1. CASE q.pc = "commit"
  <2> DEFINE l == q.local
  <2>1. l.round \in RoundIds /\ SnapshotOK(l)
    BY <1>1, LocalType DEF Knows
  <2>2. l.round \in Decided' /\ (l.round \in Concluded => l.round \in Concluded')
    BY <2>1 DEF SnapshotOK, Forward
  <2>3. l.done \subseteq done'[l.round]
    BY <2>1 DEF SnapshotOK, Forward
  <2>4. ASSUME rounds'[l.round] = l.doc, l.round \notin Concluded'
        PROVE  l.done = done'[l.round]
    <3>1. l.round \in Decided \ Concluded
      BY <2>1, <2>2, <2>4 DEF SnapshotOK
    <3>2. CASE rounds'[l.round] = rounds[l.round] /\ done'[l.round] = done[l.round]
      BY <2>1, <2>4, <3>1, <3>2 DEF SnapshotOK
    <3>3. CASE rounds'[l.round].lastBy # NULL /\ rounds'[l.round].lastBy \notin done[l.round]
      BY <2>1, <2>4, <3>3 DEF SnapshotOK
    <3> QED BY <2>1, <3>1, <3>2, <3>3 DEF Forward
  <2>5. SnapshotOK(l)'
    BY <2>1, <2>2, <2>3, <2>4 DEF SnapshotOK
  <2> QED BY <1>1, <2>5 DEF Knows
<1>2. CASE q.pc # "commit"
  BY <1>2, LocalType DEF Knows, Forward
<1> QED BY <1>1, <1>2

(* Nothing is undone by a step that writes nothing.                        *)
LEMMA Stays == UNCHANGED data => Forward
BY DEF data, Forward, Decided, Concluded

(* A step of request r, which goes on as q or ends.                        *)
LEMMA StepEffect ==
    ASSUME IInv, NEW r \in Reqs, NEW q, req' = [req EXCEPT ![r] = q],
           q # NULL => Typed(q) /\ Knows(q)', Forward
    PROVE  RequestsOK' /\ DOMAIN req' = Reqs /\ \A s \in Reqs : req'[s] # NULL => Typed(req'[s])
<1>1. DOMAIN req' = Reqs /\ \A s \in Reqs : req'[s] = IF s = r THEN q ELSE req[s]
  BY DEF IInv, TypeOK
<1>2. ASSUME NEW s \in Reqs, s # r, req[s] # NULL
      PROVE  Typed(req[s]) /\ req'[s] = req[s] /\ Knows(req[s])'
  <2>1. PICK p : p = req[s] /\ Typed(p) /\ Knows(p)
    BY <1>2, Serves
  <2>2. Knows(p)' /\ req'[s] = p
    BY <1>1, <1>2, <2>1, ForwardKeepsKnown
  <2> QED BY <2>1, <2>2 DEF Knows, SnapshotOK, Decided, Concluded
<1>3. ASSUME q # NULL
      PROVE  Knows(req[r])' /\ Typed(req[r])'
  BY <1>1, <1>3 DEF Knows, SnapshotOK, Decided, Concluded
<1> QED BY <1>1, <1>2, <1>3 DEF RequestsOK

(* A step that leaves the data alone: a read, or an answer.                *)
LEMMA ReadEffect ==
    ASSUME IInv, NEW r \in Reqs, NEW q, req' = [req EXCEPT ![r] = q], UNCHANGED data,
           q # NULL => Typed(q) /\ Knows(q)
    PROVE  IInv'
<1>1. Forward /\ (Knows(q) => Knows(q)')
  BY Stays DEF data, Knows, SnapshotOK, Decided, Concluded
<1>2. RequestsOK' /\ DOMAIN req' = Reqs /\ \A s \in Reqs : req'[s] # NULL => Typed(req'[s])
  BY <1>1, StepEffect
<1> QED BY <1>2 DEF IInv, TypeOK, Typed, RoundsOK, HistoryBacked, Decided, data

(* A refused request keeps the invariant.                                  *)
LEMMA RefuseEffect ==
    ASSUME IInv, NEW r \in Reqs, Refuse(r)
    PROVE  IInv'
BY ReadEffect DEF Refuse, Answer

(* So does a read that goes on with local variables of their type.         *)
LEMMA ContinueEffect ==
    ASSUME IInv, NEW r \in Reqs, req[r] # NULL, NEW pc, NEW l, Continue(r, pc, l),
           Typed([call |-> req[r].call, pc |-> pc, local |-> l]),
           Knows([call |-> req[r].call, pc |-> pc, local |-> l])
    PROVE  IInv'
BY ReadEffect DEF Continue, GoTo

(* Going on with nothing to know.                                          *)
LEMMA PlainEffect ==
    ASSUME IInv, NEW r \in Reqs, req[r] # NULL, NEW pc, NEW l, Continue(r, pc, l),
           \/ pc \in {"staff", "active", "members", "setup", "seat", "decided", "open", "add",
                      "entry", "lock", "delete"} /\ l = NULL
           \/ pc = "excluded" /\ l \in SUBSET Users
           \/ pc = "eligible" /\ l \in SUBSET Books
           \/ pc = "vote" /\ l \in RoundIds
           \/ pc = "privilege" /\ l \in Users,
           pc \in {"entry", "privilege", "lock", "delete"} => req[r].call.arg \in Books
    PROVE  IInv'
<1>1. Typed([call |-> req[r].call, pc |-> pc, local |-> l])
  BY GoToType, Serves
<1>2. Knows([call |-> req[r].call, pc |-> pc, local |-> l])
  BY DEF Knows
<1> QED BY <1>1, <1>2, ContinueEffect

(* A write of request r.                                                   *)
LEMMA WriteEffect ==
    ASSUME IInv, NEW r \in Reqs, NEW q, req' = [req EXCEPT ![r] = q],
           q # NULL => Typed(q) /\ Knows(q)', Forward,
           role' = role, catalog' \in [Books -> Users \cup {NULL}],
           rounds' \in [RoundIds -> RoundDocs], done' \in [RoundIds -> SUBSET Users],
           read' \in SUBSET (Users \X Books), RoundsOK', HistoryBacked'
    PROVE  IInv'
<1>1. RequestsOK' /\ DOMAIN req' = Reqs /\ \A s \in Reqs : req'[s] # NULL => Typed(req'[s])
  BY StepEffect
<1> QED BY <1>1 DEF IInv, TypeOK, Typed

(* The start of a round, up to its save.                                   *)
LEMMA StartReads ==
    ASSUME IInv, NEW r \in Reqs,
           \/ StaffReadRole(r) \/ StartReadActive(r) \/ StartReadMembers(r)
           \/ StartReadExcluded(r) \/ StartReadEligible(r)
    PROVE  IInv'
<1>1. CASE StaffReadRole(r)
  <2>1. PICK pc \in {"active", "setup"} : Continue(r, pc, NULL) \/ Refuse(r)
    BY <1>1 DEF StaffReadRole, ContinueIf
  <2> QED BY <1>1, <2>1, PlainEffect, RefuseEffect DEF StaffReadRole, At
<1>2. CASE StartReadActive(r)
  BY <1>2, PlainEffect, RefuseEffect DEF StartReadActive, ContinueIf, At
<1>3. CASE StartReadMembers(r)
  BY <1>3, PlainEffect DEF StartReadMembers, At, Members
<1>4. CASE StartReadExcluded(r)
  <2>1. ASSUME NEW k \in RoundIds,
               2 * Cardinality(done[k] \cap req[r].local) > Cardinality(done[k])
        PROVE  rounds[k].book \in Books
    <3>1. CASE done[k] = {}
      <4>1. done[k] \cap req[r].local = {}
        BY <3>1
      <4> QED BY <2>1, <3>1, <4>1, FS_EmptySet
    <3>2. CASE done[k] # {}
      BY <3>2 DEF IInv, TypeOK, RoundsOK, RoundDocs
    <3> QED BY <3>1, <3>2
  <2>2. Excluded(req[r].local) \in SUBSET Books
    BY <2>1 DEF Excluded
  <2> QED BY <1>4, <2>2, PlainEffect DEF StartReadExcluded, At
<1>5. CASE StartReadEligible(r)
  <2>1. req[r] # NULL /\ req[r].call \in Calls
    BY <1>5, Serves DEF StartReadEligible, At
  <2>2. ASSUME NEW d \in RoundDocs, Continue(r, "save", d), d.lastBy = NULL,
               \/ d.status = "DECIDED" /\ d.book # NULL
               \/ d.status = "SETUP" /\ d.book = NULL
        PROVE  IInv'
    <3>1. Typed([call |-> req[r].call, pc |-> "save", local |-> d])
      BY <2>1, GoToType
    <3>2. Knows([call |-> req[r].call, pc |-> "save", local |-> d])
      BY <2>2 DEF Knows
    <3> QED BY <2>1, <2>2, <3>1, <3>2, ContinueEffect
  <2>3. ASSUME NEW b \in Catalog, Continue(r, "save", [Unused EXCEPT !.status = "DECIDED", !.book = b])
        PROVE  IInv'
    <3>1. b \in Books /\ b # NULL
      BY RoundAssumption DEF Catalog
    <3>2. PICK d : d = [Unused EXCEPT !.status = "DECIDED", !.book = b]
      OBVIOUS
    <3>3. d \in RoundDocs /\ d.lastBy = NULL /\ d.status = "DECIDED" /\ d.book = b
      BY <3>1, <3>2 DEF Unused, RoundDocs, RoundStatus
    <3> QED BY <2>2, <2>3, <3>1, <3>2, <3>3
  <2>4. ASSUME NEW pool \in SUBSET Catalog,
               Continue(r, "save", [Unused EXCEPT !.status = "SETUP", !.pool = pool])
        PROVE  IInv'
    <3>1. pool \in SUBSET Books
      BY DEF Catalog
    <3>2. PICK d : d = [Unused EXCEPT !.status = "SETUP", !.pool = pool]
      OBVIOUS
    <3>3. d \in RoundDocs /\ d.lastBy = NULL /\ d.status = "SETUP" /\ d.book = NULL
      BY <3>1, <3>2 DEF Unused, RoundDocs, RoundStatus
    <3> QED BY <2>2, <2>4, <3>2, <3>3
  <2> QED BY <1>5, <2>3, <2>4, RefuseEffect DEF StartReadEligible
<1> QED BY <1>1, <1>2, <1>3, <1>4, <1>5

(* A started round is a fresh one: SETUP with its pool, or DECIDED with    *)
(* its book.                                                               *)
LEMMA SaveForward ==
    ASSUME IInv, NEW r \in Reqs, StartSave(r)
    PROVE  /\ Forward /\ RoundsOK' /\ rounds' \in [RoundIds -> RoundDocs]
           /\ \A k \in RoundIds : rounds[k].book # NULL => rounds'[k] = rounds[k]
<1>1. PICK k \in RoundIds : rounds[k] = Unused /\ rounds' = [rounds EXCEPT ![k] = req[r].local]
  BY DEF StartSave
<1>2. PICK d \in RoundDocs : /\ d = req[r].local
                             /\ d.status \in {"SETUP", "DECIDED"} /\ d.lastBy = NULL
                             /\ d.book # NULL <=> d.status = "DECIDED"
  BY Serves, LocalType DEF StartSave, At, Knows
<1>3. UNCHANGED done /\ done[k] = {}
  BY <1>1 DEF StartSave, IInv, RoundsOK, Decided, Unused
<1>4. \A l \in RoundIds : rounds'[l] = IF l = k THEN d ELSE rounds[l]
  BY <1>1, <1>2 DEF IInv, TypeOK
<1>5. k \notin Decided /\ rounds[k].book = NULL
  BY <1>1 DEF Unused, Decided
<1>6. rounds' \in [RoundIds -> RoundDocs]
  BY <1>1, <1>2 DEF IInv, TypeOK
<1>7. Forward
  BY <1>1, <1>3, <1>4, <1>5 DEF Forward, Decided, Concluded, Unused
<1>8. RoundsOK'
  BY <1>2, <1>3, <1>4 DEF RoundsOK, Decided, IInv
<1> QED BY <1>4, <1>5, <1>6, <1>7, <1>8

(* The insert of a new round: nobody has completed it yet.                 *)
LEMMA StartSaveEffect ==
    ASSUME IInv, NEW r \in Reqs, StartSave(r)
    PROVE  IInv'
<1>1. req' = [req EXCEPT ![r] = NULL] /\ UNCHANGED <<role, catalog, done, read>>
  BY DEF StartSave, Answer
<1>2. HistoryBacked'
  BY <1>1, SaveForward, RoundAssumption DEF HistoryBacked, IInv, TypeOK
<1> QED BY <1>1, <1>2, SaveForward, WriteEffect DEF IInv, TypeOK

(* The finalization, up to its write.                                      *)
LEMMA FinalizeReads ==
    ASSUME IInv, NEW r \in Reqs, FinalizeReadRound(r) \/ FinalizeReadEntries(r)
    PROVE  IInv'
<1>0. req[r] # NULL /\ req[r].call \in Calls
  BY Serves DEF FinalizeReadRound, FinalizeReadEntries, At
<1>1. CASE FinalizeReadRound(r)
  <2>1. ASSUME NEW k \in RoundIds, NEW pc \in {"entries", "vote"},
               rounds[k].status = "SETUP", Continue(r, pc, k)
        PROVE  IInv'
    <3>1. Typed([call |-> req[r].call, pc |-> pc, local |-> k])
      BY <1>0, GoToType
    <3>2. Knows([call |-> req[r].call, pc |-> pc, local |-> k])
      BY <2>1 DEF Knows
    <3> QED BY <1>0, <2>1, <3>1, <3>2, ContinueEffect
  <2> QED BY <1>1, <2>1, RefuseEffect DEF FinalizeReadRound, ContinueIf, Active
<1>2. CASE FinalizeReadEntries(r)
  <2>1. req[r].pc = "entries" /\ req[r].local \in RoundIds /\ rounds[req[r].local].status # "unused"
    BY <1>2, Serves, LocalType DEF FinalizeReadEntries, At, Knows
  <2>2. ASSUME NEW b \in rounds[req[r].local].pool \cap Catalog,
               Continue(r, "draw", [round |-> req[r].local, book |-> b])
        PROVE  IInv'
    <3>1. PICK l : l = [round |-> req[r].local, book |-> b]
      OBVIOUS
    <3>2. l \in [round : RoundIds, book : Books] /\ l.round = req[r].local /\ l.book = b
      BY <2>1, <3>1 DEF Catalog
    <3>3. Typed([call |-> req[r].call, pc |-> "draw", local |-> l])
      BY <1>0, <3>2, GoToType
    <3>4. Knows([call |-> req[r].call, pc |-> "draw", local |-> l])
      BY <2>1, <3>2 DEF Knows
    <3> QED BY <1>0, <2>2, <3>1, <3>3, <3>4, ContinueEffect
  <2> QED BY <1>2, <2>2, RefuseEffect DEF FinalizeReadEntries
<1> QED BY <1>1, <1>2

(* The draw decides a round in SETUP, which keeps its pool; a vote opens.  *)
LEMMA FinalizeForward ==
    ASSUME IInv, NEW k \in RoundIds, rounds[k].status = "SETUP", UNCHANGED done,
           \/ rounds' = [rounds EXCEPT ![k].status = "VOTING"]
           \/ \E b \in Books : rounds' = [rounds EXCEPT ![k].status = "DECIDED", ![k].book = b]
    PROVE  /\ Forward /\ RoundsOK' /\ rounds' \in [RoundIds -> RoundDocs]
           /\ \A l \in RoundIds : rounds[l].book # NULL => rounds'[l] = rounds[l]
<1>1. rounds \in [RoundIds -> RoundDocs] /\ rounds[k] \in RoundDocs
  BY DEF IInv, TypeOK
<1>2. rounds[k].book = NULL /\ k \notin Decided /\ done[k] = {} /\ rounds[k].lastBy = NULL
  BY DEF IInv, RoundsOK, Decided
<1>3. PICK d \in RoundDocs : /\ d.status \in {"VOTING", "DECIDED"} /\ d.pool = rounds[k].pool
                             /\ d.lastBy = NULL /\ (d.book # NULL <=> d.status = "DECIDED")
                             /\ rounds' = [rounds EXCEPT ![k] = d]
  <2>1. CASE rounds' = [rounds EXCEPT ![k].status = "VOTING"]
    <3>1. PICK d : d = [rounds[k] EXCEPT !.status = "VOTING"]
      OBVIOUS
    <3>2. /\ d \in RoundDocs /\ d.status = "VOTING" /\ d.pool = rounds[k].pool
          /\ d.lastBy = NULL /\ d.book = NULL
      BY <1>1, <1>2, <3>1 DEF RoundDocs, RoundStatus
    <3> QED BY <2>1, <3>1, <3>2
  <2>2. ASSUME NEW b \in Books, rounds' = [rounds EXCEPT ![k].status = "DECIDED", ![k].book = b]
        PROVE  \E d \in RoundDocs :
                  /\ d.status \in {"VOTING", "DECIDED"} /\ d.pool = rounds[k].pool
                  /\ d.lastBy = NULL /\ (d.book # NULL <=> d.status = "DECIDED")
                  /\ rounds' = [rounds EXCEPT ![k] = d]
    <3>1. PICK d : d = [rounds[k] EXCEPT !.status = "DECIDED", !.book = b]
      OBVIOUS
    <3>2. /\ d \in RoundDocs /\ d.status = "DECIDED" /\ d.pool = rounds[k].pool
          /\ d.lastBy = NULL /\ d.book = b /\ b # NULL
      BY <1>1, <1>2, <3>1, RoundAssumption DEF RoundDocs, RoundStatus
    <3>3. rounds' = [rounds EXCEPT ![k] = d]
      BY <1>1, <2>2, <3>1
    <3> QED BY <3>2, <3>3
  <2> QED BY <2>1, <2>2
<1>4. \A l \in RoundIds : rounds'[l] = IF l = k THEN d ELSE rounds[l]
  BY <1>1, <1>3
<1>5. rounds' \in [RoundIds -> RoundDocs]
  BY <1>1, <1>3
<1>6. Forward
  BY <1>2, <1>3, <1>4 DEF Forward, Decided, Concluded
<1>7. RoundsOK'
  <2>1. \A l \in RoundIds : l \in Decided' <=> IF l = k THEN d.status = "DECIDED" ELSE l \in Decided
    BY <1>3, <1>4 DEF Decided
  <2> QED BY <1>2, <1>3, <1>4, <2>1 DEF RoundsOK, IInv
<1> QED BY <1>2, <1>4, <1>5, <1>6, <1>7

(* A draw or a vote decides or opens a round that has no completions.      *)
LEMMA FinalizeEffect ==
    ASSUME IInv, NEW r \in Reqs, FinalizeDraw(r) \/ FinalizeVote(r)
    PROVE  IInv'
<1>1. PICK k \in RoundIds :
         \/ Refuse(r)
         \/ /\ rounds[k].status = "SETUP" /\ Answer(r) /\ UNCHANGED <<role, catalog, done, read>>
            /\ \/ rounds' = [rounds EXCEPT ![k].status = "VOTING"]
               \/ \E b \in Books : rounds' = [rounds EXCEPT ![k].status = "DECIDED", ![k].book = b]
  <2>1. CASE FinalizeDraw(r)
    <3>1. req[r].local \in [round : RoundIds, book : Books]
      BY <2>1, Serves, LocalType DEF FinalizeDraw, At
    <3> QED BY <2>1, <3>1 DEF FinalizeDraw
  <2>2. CASE FinalizeVote(r)
    <3>1. req[r].local \in RoundIds
      BY <2>2, Serves, LocalType DEF FinalizeVote, At
    <3> QED BY <2>2, <3>1 DEF FinalizeVote
  <2> QED BY <2>1, <2>2
<1>2. CASE ~Refuse(r)
  <2>1. /\ Forward /\ RoundsOK' /\ rounds' \in [RoundIds -> RoundDocs]
        /\ \A l \in RoundIds : rounds[l].book # NULL => rounds'[l] = rounds[l]
    BY <1>1, <1>2, FinalizeForward
  <2>2. UNCHANGED <<role, catalog, done, read>> /\ req' = [req EXCEPT ![r] = NULL]
    BY <1>1, <1>2 DEF Answer
  <2>3. HistoryBacked'
    BY <2>1, <2>2, RoundAssumption DEF HistoryBacked, IInv, TypeOK
  <2> QED BY <2>1, <2>2, <2>3, WriteEffect DEF IInv, TypeOK
<1> QED BY <1>2, RefuseEffect
-----------------------------------------------------------------------------
(* The finish, up to the transaction.                                      *)
LEMMA FinishReads ==
    ASSUME IInv, NEW r \in Reqs,
           FinishReadSeat(r) \/ FinishReadRound(r) \/ FinishReadMembers(r) \/ FinishBegin(r)
    PROVE  IInv'
<1>0. req[r] # NULL /\ req[r].call \in Calls /\ Typed(req[r]) /\ Knows(req[r])
  BY Serves DEF FinishReadSeat, FinishReadRound, FinishReadMembers, FinishBegin, At
<1>1. CASE FinishReadSeat(r)
  BY <1>0, <1>1, PlainEffect, RefuseEffect DEF FinishReadSeat, ContinueIf
<1>2. CASE FinishReadRound(r)
  <2>1. ASSUME NEW k \in RoundIds, rounds[k].status = "DECIDED", Continue(r, "roster", k)
        PROVE  IInv'
    <3>1. Typed([call |-> req[r].call, pc |-> "roster", local |-> k])
      BY <1>0, GoToType
    <3>2. Knows([call |-> req[r].call, pc |-> "roster", local |-> k])
      BY <2>1 DEF Knows, Decided
    <3> QED BY <1>0, <2>1, <3>1, <3>2, ContinueEffect
  <2> QED BY <1>2, <2>1, RefuseEffect DEF FinishReadRound, ContinueIf, Active
<1>3. CASE FinishReadMembers(r)
  <2>1. req[r].pc = "roster" /\ req[r].local \in Decided
    BY <1>0, <1>3 DEF FinishReadMembers, At, Knows
  <2>2. PICK l : l = [round |-> req[r].local, members |-> Members]
    OBVIOUS
  <2>3. l \in [round : RoundIds, members : SUBSET Users] /\ l.round \in Decided
    BY <2>1, <2>2 DEF Decided, Members
  <2>4. Typed([call |-> req[r].call, pc |-> "begin", local |-> l])
    BY <1>0, <2>3, GoToType
  <2>5. Knows([call |-> req[r].call, pc |-> "begin", local |-> l])
    BY <2>3 DEF Knows
  <2> QED BY <1>0, <1>3, <2>2, <2>4, <2>5, ContinueEffect DEF FinishReadMembers
<1>4. CASE FinishBegin(r)
  <2> DEFINE b == req[r].local
  <2>1. b \in [round : RoundIds, members : SUBSET Users] /\ b.round \in Decided
    BY <1>0, <1>4, LocalType DEF FinishBegin, At, Knows
  <2>2. PICK l : l = [round |-> b.round, members |-> b.members,
                      doc |-> rounds[b.round], done |-> done[b.round]]
    OBVIOUS
  <2>3. /\ l \in [round : RoundIds, members : SUBSET Users, doc : RoundDocs, done : SUBSET Users]
        /\ l.round = b.round /\ l.doc = rounds[b.round] /\ l.done = done[b.round]
    BY <2>1, <2>2 DEF IInv, TypeOK
  <2>4. SnapshotOK(l)
    BY <2>1, <2>3 DEF SnapshotOK, Decided, Concluded, IInv, RoundsOK
  <2>5. Typed([call |-> req[r].call, pc |-> "commit", local |-> l])
    BY <1>0, <2>3, GoToType
  <2>6. Knows([call |-> req[r].call, pc |-> "commit", local |-> l])
    BY <2>4 DEF Knows
  <2> QED BY <1>0, <1>4, <2>2, <2>5, <2>6, ContinueEffect DEF FinishBegin
<1> QED BY <1>1, <1>2, <1>3, <1>4

(* What the transaction holds when it commits: its list of members, and    *)
(* the round and its finishers as they were when it began.                 *)
LEMMA Commits ==
    ASSUME IInv, NEW r \in Reqs, At(r, "commit")
    PROVE  /\ req[r] # NULL /\ req[r].call \in Calls /\ Caller(r) \in Users
           /\ req[r].local \in [round : RoundIds, members : SUBSET Users,
                                doc : RoundDocs, done : SUBSET Users]
           /\ SnapshotOK(req[r].local)
BY Serves, LocalType DEF At, Knows

(* What a commit does: it puts the caller among the finishers, and if it   *)
(* is new and the round was not concluded, its name on the round, and      *)
(* concludes the round when its list of members has finished.              *)
CommitOf(r, k) ==
    LET l == req[r].local IN
    /\ k = l.round /\ k \in Decided
    /\ done' = [done EXCEPT ![k] = @ \cup {Caller(r)}]
    /\ \/ rounds' = rounds /\ (Caller(r) \in done[k] \/ k \in Concluded)
       \/ /\ rounds[k].status = "DECIDED" /\ Caller(r) \notin done[k] /\ l.done = done[k]
          /\ rounds' = [rounds EXCEPT ![k] =
                [rounds[k] EXCEPT !.lastBy = Caller(r),
                                  !.status = IF l.members \subseteq done[k] \cup {Caller(r)}
                                             THEN "CONCLUDED" ELSE @]]

(* A commit starts again, or writes the completion of its snapshot.        *)
LEMMA CommitShape ==
    ASSUME IInv, NEW r \in Reqs, FinishCommit(r)
    PROVE  \/ /\ UNCHANGED data
              /\ GoTo(r, "begin", [round |-> req[r].local.round, members |-> req[r].local.members])
           \/ /\ CommitOf(r, req[r].local.round) /\ UNCHANGED <<role, catalog, read>>
              /\ GoTo(r, "finished", req[r].local.round)
<1> DEFINE l == req[r].local  k == l.round  u == Caller(r)
           isNew == u \notin l.done
           locks == isNew /\ l.doc.status = "DECIDED"
           finishers == l.done \cup {u}
           conflict == \/ isNew /\ u \in done[k]
                       \/ locks /\ rounds[k] # l.doc
<1>1. /\ SnapshotOK(l) /\ k \in RoundIds /\ rounds \in [RoundIds -> RoundDocs]
  BY Commits DEF FinishCommit, IInv, TypeOK
<1>2. CASE conflict
  BY <1>2 DEF FinishCommit, Continue
<1>3. CASE ~conflict
  <2>1. /\ done' = [done EXCEPT ![k] = @ \cup {u}]
        /\ rounds' = IF ~locks THEN rounds ELSE
              [rounds EXCEPT ![k].lastBy = u,
                             ![k].status = IF l.members \subseteq finishers THEN "CONCLUDED" ELSE @]
        /\ GoTo(r, "finished", k) /\ UNCHANGED <<role, catalog, read>>
    BY <1>3 DEF FinishCommit
  <2>2. CASE ~locks
    <3>1. u \in done[k] \/ k \in Concluded
      BY <1>1, <2>2 DEF SnapshotOK
    <3> QED BY <1>1, <2>1, <2>2, <3>1 DEF CommitOf, SnapshotOK
  <2>3. CASE locks
    <3>1. /\ rounds[k] = l.doc /\ rounds[k].status = "DECIDED" /\ u \notin done[k]
      BY <1>3, <2>3
    <3>2. l.done = done[k]
      BY <1>1, <3>1 DEF SnapshotOK, Concluded
    <3>3. rounds' = [rounds EXCEPT ![k] =
              [rounds[k] EXCEPT !.lastBy = u,
                                !.status = IF l.members \subseteq finishers THEN "CONCLUDED" ELSE @]]
      BY <1>1, <2>1, <2>3
    <3> QED BY <1>1, <2>1, <3>1, <3>2, <3>3 DEF CommitOf, SnapshotOK
  <2> QED BY <2>2, <2>3
<1> QED BY <1>2, <1>3

(* The round after a commit.                                               *)
LEMMA CommitRound ==
    ASSUME IInv, NEW r \in Reqs, NEW k, CommitOf(r, k), Caller(r) \in Users
    PROVE  \E d \in RoundDocs :
              /\ \A j \in RoundIds : rounds'[j] = IF j = k THEN d ELSE rounds[j]
              /\ rounds' \in [RoundIds -> RoundDocs] /\ done' \in [RoundIds -> SUBSET Users]
              /\ \A j \in RoundIds : done'[j] = IF j = k THEN done[j] \cup {Caller(r)} ELSE done[j]
              /\ d.book = rounds[k].book /\ d.pool = rounds[k].pool
              /\ d.status \in {"DECIDED", "CONCLUDED"}
              /\ k \in Concluded => d.status = "CONCLUDED"
              /\ \/ d = rounds[k] /\ (Caller(r) \in done[k] \/ k \in Concluded)
                 \/ d.lastBy = Caller(r) /\ Caller(r) \notin done[k]
              /\ k \in Decided \ Concluded /\ Caller(r) \notin done[k] =>
                    (d.status = "CONCLUDED" <=> req[r].local.members \subseteq done[k] \cup {Caller(r)})
<1> DEFINE u == Caller(r)  all == req[r].local.members \subseteq done[k] \cup {u}
<1>1. /\ k \in RoundIds /\ rounds[k] \in RoundDocs /\ rounds[k].status \in {"DECIDED", "CONCLUDED"}
      /\ rounds \in [RoundIds -> RoundDocs] /\ done \in [RoundIds -> SUBSET Users]
  BY DEF CommitOf, Decided, IInv, TypeOK
<1>2. /\ done' \in [RoundIds -> SUBSET Users]
      /\ \A j \in RoundIds : done'[j] = IF j = k THEN done[j] \cup {u} ELSE done[j]
  BY <1>1 DEF CommitOf
<1>3. CASE rounds' = rounds /\ (u \in done[k] \/ k \in Concluded)
  BY <1>1, <1>2, <1>3 DEF Concluded
<1>4. CASE /\ rounds[k].status = "DECIDED" /\ u \notin done[k]
           /\ rounds' = [rounds EXCEPT ![k] =
                 [rounds[k] EXCEPT !.lastBy = u, !.status = IF all THEN "CONCLUDED" ELSE @]]
  <2>1. PICK s \in {"DECIDED", "CONCLUDED"} : s = IF all THEN "CONCLUDED" ELSE "DECIDED"
    OBVIOUS
  <2>2. PICK d : d = [rounds[k] EXCEPT !.lastBy = u, !.status = s]
    OBVIOUS
  <2>3. /\ d \in RoundDocs /\ d.lastBy = u /\ d.status = s
        /\ d.book = rounds[k].book /\ d.pool = rounds[k].pool
    BY <1>1, <2>2 DEF RoundDocs, RoundStatus
  <2>4. rounds' = [rounds EXCEPT ![k] = d]
    BY <1>1, <1>4, <2>1, <2>2
  <2>5. rounds' \in [RoundIds -> RoundDocs] /\ \A j \in RoundIds : rounds'[j] = IF j = k THEN d ELSE rounds[j]
    BY <1>1, <2>3, <2>4
  <2> QED BY <1>2, <1>4, <2>1, <2>3, <2>5 DEF Concluded
<1> QED BY <1>3, <1>4 DEF CommitOf

(* A commit only moves its round forward.                                  *)
LEMMA CommitForward ==
    ASSUME IInv, NEW r \in Reqs, NEW k, CommitOf(r, k), Caller(r) \in Users,
           UNCHANGED <<role, catalog, read>>
    PROVE  /\ Forward /\ RoundsOK' /\ HistoryBacked'
           /\ rounds' \in [RoundIds -> RoundDocs] /\ done' \in [RoundIds -> SUBSET Users]
           /\ k \in Decided' /\ Caller(r) \in done'[k]
<1> DEFINE u == Caller(r)
<1>1. PICK d \in RoundDocs :
         /\ \A j \in RoundIds : rounds'[j] = IF j = k THEN d ELSE rounds[j]
         /\ rounds' \in [RoundIds -> RoundDocs] /\ done' \in [RoundIds -> SUBSET Users]
         /\ \A j \in RoundIds : done'[j] = IF j = k THEN done[j] \cup {u} ELSE done[j]
         /\ d.book = rounds[k].book /\ d.pool = rounds[k].pool
         /\ d.status \in {"DECIDED", "CONCLUDED"}
         /\ k \in Concluded => d.status = "CONCLUDED"
         /\ \/ d = rounds[k] /\ (u \in done[k] \/ k \in Concluded)
            \/ d.lastBy = u /\ u \notin done[k]
  BY CommitRound
<1>2. k \in RoundIds /\ k \in Decided /\ u \in Users /\ u # NULL
  BY RoundAssumption DEF CommitOf, Decided
<1>3. \A j \in RoundIds : j \in Decided' <=> j \in Decided
  BY <1>1, <1>2 DEF Decided
<1>4. \A j \in RoundIds : j \in Concluded => j \in Concluded'
  BY <1>1, <1>2 DEF Concluded
<1>5. ASSUME NEW j \in RoundIds
      PROVE  /\ rounds[j].status # "unused" =>
                    rounds'[j].status # "unused" /\ rounds'[j].pool = rounds[j].pool
             /\ done[j] \subseteq done'[j]
             /\ j \in Decided \ Concluded =>
                    \/ rounds'[j] = rounds[j] /\ done'[j] = done[j]
                    \/ rounds'[j].lastBy # NULL /\ rounds'[j].lastBy \notin done[j]
  BY <1>1, <1>2
<1>6. Forward
  BY <1>3, <1>4, <1>5 DEF Forward
<1>7. RoundsOK'
  <2>1. ASSUME NEW j \in RoundIds
        PROVE  /\ rounds'[j].book # NULL <=> j \in Decided'
               /\ done'[j] # {} => j \in Decided'
               /\ rounds'[j].lastBy # NULL => rounds'[j].lastBy \in done'[j]
    BY <1>1, <1>2, <1>3 DEF IInv, RoundsOK
  <2> QED BY <2>1 DEF RoundsOK
<1>8. HistoryBacked'
  <2>1. ASSUME NEW p \in read
        PROVE  \E j \in RoundIds : rounds'[j].book = p[2] /\ p[1] \in done'[j]
    <3>1. PICK j \in RoundIds : rounds[j].book = p[2] /\ p[1] \in done[j]
      BY DEF IInv, HistoryBacked
    <3> QED BY <1>1, <3>1
  <2> QED BY <2>1 DEF HistoryBacked
<1> QED BY <1>1, <1>2, <1>3, <1>6, <1>7, <1>8

(* The transaction commits, or conflicts and begins again.                 *)
LEMMA FinishCommitEffect ==
    ASSUME IInv, NEW r \in Reqs, FinishCommit(r)
    PROVE  IInv'
<1>1. /\ req[r] # NULL /\ req[r].call \in Calls /\ Caller(r) \in Users
      /\ req[r].local \in [round : RoundIds, members : SUBSET Users,
                           doc : RoundDocs, done : SUBSET Users]
      /\ SnapshotOK(req[r].local)
  BY Commits DEF FinishCommit
<1>2. CASE /\ UNCHANGED data
           /\ GoTo(r, "begin", [round |-> req[r].local.round, members |-> req[r].local.members])
  <2>1. PICK l : l = [round |-> req[r].local.round, members |-> req[r].local.members]
    OBVIOUS
  <2>2. l \in [round : RoundIds, members : SUBSET Users] /\ l.round \in Decided
    BY <1>1, <2>1 DEF SnapshotOK
  <2>3. Typed([call |-> req[r].call, pc |-> "begin", local |-> l])
    BY <1>1, <2>2, GoToType
  <2>4. Knows([call |-> req[r].call, pc |-> "begin", local |-> l])
    BY <2>2 DEF Knows
  <2> QED BY <1>1, <1>2, <2>1, <2>3, <2>4, ContinueEffect DEF Continue
<1>3. CASE /\ CommitOf(r, req[r].local.round) /\ UNCHANGED <<role, catalog, read>>
           /\ GoTo(r, "finished", req[r].local.round)
  <2>1. PICK k \in RoundIds : k = req[r].local.round
    BY <1>1
  <2>2. PICK q : q = [call |-> req[r].call, pc |-> "finished", local |-> k]
    OBVIOUS
  <2>3. /\ Forward /\ RoundsOK' /\ HistoryBacked'
        /\ rounds' \in [RoundIds -> RoundDocs] /\ done' \in [RoundIds -> SUBSET Users]
        /\ k \in Decided' /\ Caller(r) \in done'[k]
    BY <1>1, <1>3, <2>1, CommitForward
  <2>4. Typed(q)
    BY <1>1, <2>2, GoToType
  <2>5. Knows(q)'
    BY <2>2, <2>3 DEF Knows, Caller
  <2>6. req' = [req EXCEPT ![r] = q]
    BY <1>3, <2>1, <2>2 DEF GoTo
  <2>7. role' = role /\ catalog' \in [Books -> Users \cup {NULL}] /\ read' \in SUBSET (Users \X Books)
    BY <1>3 DEF IInv, TypeOK
  <2> QED BY <2>3, <2>4, <2>5, <2>6, <2>7, WriteEffect
<1> QED BY <1>2, <1>3, CommitShape

(* The book of the round goes into the history of its finisher.            *)
LEMMA FinishUpsertEffect ==
    ASSUME IInv, NEW r \in Reqs, FinishUpsertRead(r)
    PROVE  IInv'
<1>1. PICK k \in Decided : k = req[r].local /\ Caller(r) \in done[k] /\ Caller(r) \in Users
  BY Serves DEF FinishUpsertRead, At, Knows, Caller
<1>2. k \in RoundIds /\ rounds[k].book \in Books
  BY <1>1 DEF Decided, IInv, TypeOK, RoundsOK, RoundDocs
<1>3. read' = read \cup {<<Caller(r), rounds[k].book>>} /\ UNCHANGED <<role, catalog, rounds, done>>
  BY <1>1 DEF FinishUpsertRead
<1>4. read' \in SUBSET (Users \X Books)
  BY <1>1, <1>2, <1>3 DEF IInv, TypeOK
<1>5. HistoryBacked'
  BY <1>1, <1>2, <1>3 DEF HistoryBacked, IInv
<1>6. Forward /\ RoundsOK'
  BY <1>3 DEF Forward, RoundsOK, Decided, Concluded, IInv
<1>7. req' = [req EXCEPT ![r] = NULL]
  BY DEF FinishUpsertRead, Answer
<1> QED BY <1>3, <1>4, <1>5, <1>6, <1>7, WriteEffect DEF IInv, TypeOK
-----------------------------------------------------------------------------
(* The catalog: suggestions and removals.                                  *)
LEMMA CatalogReads ==
    ASSUME IInv, NEW r \in Reqs,
           SuggestReadOpen(r) \/ RemoveReadEntry(r) \/ RemoveReadRole(r) \/ RemoveReadLock(r)
    PROVE  IInv'
<1>0. req[r] # NULL /\ Knows(req[r])
  BY Serves DEF SuggestReadOpen, RemoveReadEntry, RemoveReadRole, RemoveReadLock, At
<1>1. CASE SuggestReadOpen(r)
  BY <1>0, <1>1, PlainEffect, RefuseEffect DEF SuggestReadOpen
<1>2. CASE RemoveReadEntry(r)
  <2>1. req[r].call.arg \in Books
    BY <1>0, <1>2 DEF RemoveReadEntry, At, Knows
  <2>2. catalog[req[r].call.arg] # NULL => catalog[req[r].call.arg] \in Users
    BY <2>1 DEF IInv, TypeOK
  <2> QED BY <1>0, <1>2, <2>1, <2>2, PlainEffect, RefuseEffect DEF RemoveReadEntry, ContinueIf
<1>3. CASE RemoveReadRole(r)
  <2>1. req[r].call.arg \in Books
    BY <1>0, <1>3 DEF RemoveReadRole, At, Knows
  <2> QED BY <1>0, <1>3, <2>1, PlainEffect, RefuseEffect DEF RemoveReadRole, ContinueIf
<1>4. CASE RemoveReadLock(r)
  <2>1. req[r].call.arg \in Books
    BY <1>0, <1>4 DEF RemoveReadLock, At, Knows
  <2> QED BY <1>0, <1>4, <2>1, PlainEffect, RefuseEffect DEF RemoveReadLock, ContinueIf
<1> QED BY <1>1, <1>2, <1>3, <1>4

(* Writes of the catalog touch neither rounds nor completions.             *)
LEMMA CatalogWrites ==
    ASSUME IInv, NEW r \in Reqs, SuggestAdd(r) \/ RemoveDelete(r)
    PROVE  IInv'
<1>1. UNCHANGED <<role, rounds, done, read>> /\ req' = [req EXCEPT ![r] = NULL]
  BY DEF SuggestAdd, RemoveDelete, Answer
<1>2. Forward /\ RoundsOK' /\ HistoryBacked'
  BY <1>1 DEF Forward, RoundsOK, HistoryBacked, Decided, Concluded, IInv
<1>3. Caller(r) \in Users
  BY Serves DEF SuggestAdd, RemoveDelete, At
<1>4. catalog' \in [Books -> Users \cup {NULL}]
  BY <1>3 DEF SuggestAdd, RemoveDelete, IInv, TypeOK
<1> QED BY <1>1, <1>2, <1>4, WriteEffect DEF IInv, TypeOK
-----------------------------------------------------------------------------
(* A request starts without knowing anything of the rounds.                *)
LEMMA ArriveEffect ==
    ASSUME IInv, NEW r \in Reqs, NEW call \in Calls, Arrive(r, call)
    PROVE  IInv'
<1>1. PICK pc : pc = FirstPc[call.op]
  OBVIOUS
<1>2. pc \in {"staff", "seat", "open", "entry"} /\ (pc = "entry" => call.arg \in Books)
  BY <1>1 DEF FirstPc, Calls
<1>3. PICK q : q = [call |-> call, pc |-> pc, local |-> NULL]
  OBVIOUS
<1>4. Typed(q)
  BY <1>2, <1>3, GoToType
<1>5. Knows(q)
  BY <1>2, <1>3 DEF Knows
<1> QED BY <1>1, <1>3, <1>4, <1>5, ReadEffect DEF Arrive

(* The roster changes without the rounds.                                  *)
LEMMA RosterEffect ==
    ASSUME IInv, NEW u \in Users, Join(u) \/ Depart(u) \/ ChangeRole(u)
    PROVE  IInv'
<1>1. UNCHANGED <<catalog, rounds, done, read, req>>
  BY DEF Join, Depart, ChangeRole
<1>2. role' \in [Users -> Staff \cup {"MEMBER", NULL}]
  BY DEF Join, Depart, ChangeRole, Staff, IInv, TypeOK
<1>3. RoundsOK' /\ HistoryBacked'
  BY <1>1 DEF RoundsOK, HistoryBacked, Decided, IInv
<1>4. RequestsOK'
  BY <1>1 DEF RequestsOK, Knows, SnapshotOK, Decided, Concluded, IInv
<1> QED BY <1>1, <1>2, <1>3, <1>4 DEF IInv, TypeOK

(* Nothing has happened to the rounds of a new club.                       *)
LEMMA Initially == Init => IInv
<1> SUFFICES ASSUME Init PROVE IInv
  OBVIOUS
<1>1. /\ rounds = [k \in RoundIds |-> Unused] /\ done = [k \in RoundIds |-> {}]
      /\ read = {} /\ req = [r \in Reqs |-> NULL]
  BY DEF Init
<1>2. Unused \in RoundDocs
  BY DEF Unused, RoundDocs, RoundStatus
<1>3. role \in [Users -> Staff \cup {"MEMBER", NULL}] /\ catalog \in [Books -> Users \cup {NULL}]
  BY DEF Init, Staff
<1>4. TypeOK
  BY <1>1, <1>2, <1>3 DEF TypeOK
<1>5. RoundsOK /\ RequestsOK /\ HistoryBacked
  BY <1>1 DEF RoundsOK, RequestsOK, HistoryBacked, Decided, Unused
<1> QED BY <1>4, <1>5 DEF IInv

(* Every action keeps the invariant.                                       *)
LEMMA Inductive == IInv /\ [Next]_vars => IInv'
<1> SUFFICES ASSUME IInv, [Next]_vars PROVE IInv'
  OBVIOUS
<1>1. ASSUME NEW r \in Reqs, Step(r) PROVE IInv'
  BY <1>1, StartReads, StartSaveEffect, FinalizeReads, FinalizeEffect, FinishReads,
     FinishCommitEffect, FinishUpsertEffect, CatalogReads, CatalogWrites DEF Step
<1>2. ASSUME NEW r \in Reqs, Abort(r) PROVE IInv'
  BY <1>2, RefuseEffect DEF Abort
<1>3. CASE UNCHANGED vars
  BY <1>3 DEF vars, IInv, TypeOK, RoundsOK, RequestsOK, HistoryBacked, Knows, SnapshotOK,
              Decided, Concluded
<1> QED BY <1>1, <1>2, <1>3, ArriveEffect, RosterEffect DEF Next

(* The invariant holds in every reachable state.                           *)
THEOREM Invariance == Spec => []IInv
<1>1. Init => IInv
  BY Initially
<1>2. IInv /\ [Next]_vars => IInv'
  BY Inductive
<1> QED BY <1>1, <1>2, PTL DEF Spec

(* Every value stays in its domain: rounds hold only statuses and books    *)
(* the schema knows, and every local variable of a request its kind.       *)
THEOREM RoundsTypeCorrect == Spec => []TypeOK
<1>1. IInv => TypeOK
  BY DEF IInv
<1> QED BY <1>1, Invariance, PTL

(* A book that a round put into a reading history is backed by a           *)
(* completion of its reader, although the two are written one after the    *)
(* other and a request may die in between: mark_finished.                  *)
THEOREM HistoryIsBacked == Spec => []HistoryBacked
<1>1. IInv => HistoryBacked
  BY DEF IInv
<1> QED BY <1>1, Invariance, PTL
-----------------------------------------------------------------------------
(* Only four database calls write a round or a completion.                 *)
Writes(r) == StartSave(r) \/ FinalizeDraw(r) \/ FinalizeVote(r) \/ FinishCommit(r)

(* Rounds and completions are written by four steps only.                  *)
LEMMA WhoWrites ==
    ASSUME [Next]_vars
    PROVE  UNCHANGED <<rounds, done>> \/ \E r \in Reqs : Writes(r)
<1>1. ASSUME NEW r \in Reqs, Step(r), ~Writes(r)
      PROVE  UNCHANGED <<rounds, done>>
  <2>1. CASE \/ StaffReadRole(r) \/ StartReadActive(r) \/ StartReadMembers(r)
             \/ StartReadExcluded(r) \/ StartReadEligible(r) \/ FinalizeReadRound(r)
             \/ FinalizeReadEntries(r)
    BY <2>1 DEF StaffReadRole, StartReadActive, StartReadMembers, StartReadExcluded,
       StartReadEligible, FinalizeReadRound, FinalizeReadEntries, ContinueIf, Continue,
       Refuse, data
  <2>2. CASE \/ FinishReadSeat(r) \/ FinishReadRound(r) \/ FinishReadMembers(r)
             \/ FinishBegin(r) \/ FinishUpsertRead(r)
    BY <2>2 DEF FinishReadSeat, FinishReadRound, FinishReadMembers, FinishBegin,
       FinishUpsertRead, ContinueIf, Continue, Refuse, data
  <2>3. CASE \/ SuggestReadOpen(r) \/ SuggestAdd(r) \/ RemoveReadEntry(r)
             \/ RemoveReadRole(r) \/ RemoveReadLock(r) \/ RemoveDelete(r)
    BY <2>3 DEF SuggestReadOpen, SuggestAdd, RemoveReadEntry, RemoveReadRole,
       RemoveReadLock, RemoveDelete, ContinueIf, Continue, Refuse, data
  <2> QED BY <1>1, <2>1, <2>2, <2>3 DEF Step, Writes
<1>2. ASSUME NEW r \in Reqs, NEW call \in Calls, Arrive(r, call) PROVE UNCHANGED <<rounds, done>>
  BY <1>2 DEF Arrive, data
<1>3. ASSUME NEW r \in Reqs, Abort(r) PROVE UNCHANGED <<rounds, done>>
  BY <1>3 DEF Abort, Refuse, data
<1>4. ASSUME NEW u \in Users, Join(u) \/ Depart(u) \/ ChangeRole(u)
      PROVE  UNCHANGED <<rounds, done>>
  BY <1>4 DEF Join, Depart, ChangeRole
<1>5. CASE UNCHANGED vars
  BY <1>5 DEF vars
<1> QED BY <1>1, <1>2, <1>3, <1>4, <1>5 DEF Next

(* A round that has its book is written by finishers only.                 *)
LEMMA DecidedStays ==
    ASSUME IInv, [Next]_vars, NEW k \in RoundIds, rounds[k].book # NULL
    PROVE  \/ rounds'[k] = rounds[k] /\ done'[k] = done[k]
           \/ \E r \in Reqs : /\ FinishCommit(r) /\ At(r, "commit") /\ req'[r] # req[r]
                              /\ CommitOf(r, k) /\ Caller(r) \in Users
<1>1. CASE UNCHANGED <<rounds, done>>
  BY <1>1
<1>2. ASSUME NEW r \in Reqs, StartSave(r)
      PROVE  rounds'[k] = rounds[k] /\ done'[k] = done[k]
  BY <1>2, SaveForward DEF StartSave
<1>3. ASSUME NEW r \in Reqs, FinalizeDraw(r) \/ FinalizeVote(r)
      PROVE  rounds'[k] = rounds[k] /\ done'[k] = done[k]
  <2>1. UNCHANGED done
    BY <1>3 DEF FinalizeDraw, FinalizeVote, Refuse, data
  <2>2. CASE FinalizeDraw(r)
    <3>1. req[r].local \in [round : RoundIds, book : Books]
      BY <2>2, Serves, LocalType DEF FinalizeDraw, At
    <3>2. CASE Refuse(r)
      BY <3>2 DEF Refuse, data
    <3>3. CASE ~Refuse(r)
      <4>1. /\ rounds[req[r].local.round].status = "SETUP"
            /\ \E b \in Books : rounds' = [rounds EXCEPT ![req[r].local.round].status = "DECIDED",
                                                        ![req[r].local.round].book = b]
        BY <2>2, <3>1, <3>3 DEF FinalizeDraw
      <4> QED BY <2>1, <3>1, <4>1, FinalizeForward
    <3> QED BY <3>2, <3>3
  <2>3. CASE FinalizeVote(r)
    <3>1. req[r].local \in RoundIds
      BY <2>3, Serves, LocalType DEF FinalizeVote, At
    <3>2. CASE Refuse(r)
      BY <3>2 DEF Refuse, data
    <3>3. CASE ~Refuse(r)
      BY <2>1, <2>3, <3>1, <3>3, FinalizeForward DEF FinalizeVote
    <3> QED BY <3>2, <3>3
  <2> QED BY <1>3, <2>2, <2>3
<1>4. ASSUME NEW r \in Reqs, FinishCommit(r)
      PROVE  \/ rounds'[k] = rounds[k] /\ done'[k] = done[k]
             \/ /\ At(r, "commit") /\ req'[r] # req[r]
                /\ CommitOf(r, k) /\ Caller(r) \in Users
  <2>1. Caller(r) \in Users /\ At(r, "commit") /\ req[r].local.round \in RoundIds
    BY <1>4, Commits DEF FinishCommit
  <2>2. CASE UNCHANGED data
    BY <2>2 DEF data
  <2>3. CASE /\ CommitOf(r, req[r].local.round) /\ GoTo(r, "finished", req[r].local.round)
    <3>1. req'[r].pc = "finished" /\ req[r].pc = "commit"
      BY <2>1, <2>3 DEF GoTo, At, IInv, TypeOK
    <3>2. CASE k = req[r].local.round
      BY <2>1, <2>3, <3>1, <3>2
    <3>3. CASE k # req[r].local.round
      <4>1. PICK j : j = req[r].local.round /\ CommitOf(r, j)
        BY <2>3
      <4>2. PICK d \in RoundDocs :
               /\ \A i \in RoundIds : rounds'[i] = IF i = j THEN d ELSE rounds[i]
               /\ \A i \in RoundIds : done'[i] = IF i = j THEN done[i] \cup {Caller(r)} ELSE done[i]
        BY <2>1, <4>1, CommitRound
      <4> QED BY <3>3, <4>1, <4>2
    <3> QED BY <3>2, <3>3
  <2> QED BY <1>4, <2>2, <2>3, CommitShape
<1> QED BY <1>1, <1>2, <1>3, <1>4, WhoWrites DEF Writes

(* Of two finishers that commit together one sees the other: a decided     *)
(* round is concluded by the step that makes the last listed member a      *)
(* finisher, and by no other.                                              *)
LEMMA ConcludesExactly ==
    ASSUME IInv, [Next]_vars, NEW k \in RoundIds, rounds[k].status = "DECIDED",
           ~StaleList(k)
    PROVE  /\ rounds'[k].status = "CONCLUDED" => Members \subseteq done'[k]
           /\ Members \subseteq done'[k] /\ ~(Members \subseteq done[k]) =>
                 rounds'[k].status = "CONCLUDED"
<1>1. rounds[k].book # NULL /\ k \in Decided \ Concluded
  BY DEF IInv, RoundsOK, Decided, Concluded
<1>2. CASE rounds'[k] = rounds[k] /\ done'[k] = done[k]
  BY <1>2
<1>3. ASSUME NEW r \in Reqs, At(r, "commit"), req'[r] # req[r], CommitOf(r, k), Caller(r) \in Users
      PROVE  /\ rounds'[k].status = "CONCLUDED" => Members \subseteq done'[k]
             /\ Members \subseteq done'[k] /\ ~(Members \subseteq done[k]) =>
                   rounds'[k].status = "CONCLUDED"
  <2>1. req[r].local.members = Members
    BY <1>3 DEF StaleList, CommitOf
  <2>2. PICK d \in RoundDocs :
           /\ rounds'[k] = d /\ done'[k] = done[k] \cup {Caller(r)}
           /\ \/ d = rounds[k] /\ (Caller(r) \in done[k] \/ k \in Concluded)
              \/ d.lastBy = Caller(r) /\ Caller(r) \notin done[k]
           /\ k \in Decided \ Concluded /\ Caller(r) \notin done[k] =>
                 (d.status = "CONCLUDED" <=> req[r].local.members \subseteq done[k] \cup {Caller(r)})
    BY <1>3, CommitRound
  <2>3. CASE Caller(r) \in done[k]
    <3>1. d = rounds[k] /\ done'[k] = done[k]
      BY <1>1, <2>2, <2>3
    <3> QED BY <2>2, <3>1
  <2>4. CASE Caller(r) \notin done[k]
    BY <1>1, <2>1, <2>2, <2>4
  <2> QED BY <2>3, <2>4
<1> QED BY <1>1, <1>2, <1>3, DecidedStays

(* A decided round is concluded exactly when the last member of the club   *)
(* finishes it, whatever finishers race: mark_finished and                 *)
(* record_completion, whose touch of the round document serializes them.   *)
THEOREM RoundsConcludeExactly == Spec => ConclusionExact
<1>1. IInv /\ [Next]_vars =>
        [\A k \in RoundIds :
            rounds[k].status = "DECIDED" /\ role' = role /\ ~StaleList(k) =>
                LET finished == Members \subseteq done[k]
                    finishedNow == Members \subseteq done'[k]
                    concludes == rounds'[k].status = "CONCLUDED"
                IN  /\ concludes => finishedNow
                    /\ finishedNow /\ ~finished => concludes]_vars
  BY ConcludesExactly
<1> QED BY <1>1, Invariance, PTL DEF Spec, ConclusionExact
-----------------------------------------------------------------------------
(* How one round document may follow another.                              *)
Flows(old, new) ==
    /\ <<old.status, new.status>> \in
          {<<"unused", "SETUP">>, <<"unused", "DECIDED">>, <<"SETUP", "VOTING">>,
           <<"SETUP", "DECIDED">>, <<"DECIDED", "CONCLUDED">>}
          \cup {<<s, s>> : s \in RoundStatus \cup {"unused"}}
    /\ old.book # NULL => new.book = old.book
    /\ old.status = "SETUP" => new.book \in old.pool \cup {NULL}

(* A document left alone flows into itself.                                *)
LEMMA FlowsStill ==
    ASSUME IInv, NEW k \in RoundIds
    PROVE  Flows(rounds[k], rounds[k])
<1>1. /\ rounds[k].status \in RoundStatus \cup {"unused"}
      /\ rounds[k].status = "SETUP" => rounds[k].book = NULL
  BY DEF IInv, TypeOK, RoundDocs, RoundsOK, Decided
<1> QED BY <1>1 DEF Flows

(* The save of a start, and the two writes of a finalization.              *)
LEMMA SaveFlows ==
    ASSUME IInv, NEW r \in Reqs, StartSave(r), NEW k \in RoundIds
    PROVE  Flows(rounds[k], rounds'[k])
<1>1. PICK j \in RoundIds : rounds[j] = Unused /\ rounds' = [rounds EXCEPT ![j] = req[r].local]
  BY DEF StartSave
<1>2. PICK d : d = req[r].local /\ d.status \in {"SETUP", "DECIDED"}
  BY Serves DEF StartSave, At, Knows
<1>3. rounds'[k] = IF k = j THEN d ELSE rounds[k]
  BY <1>1, <1>2 DEF IInv, TypeOK
<1>4. CASE k = j
  BY <1>1, <1>2, <1>3, <1>4 DEF Flows, Unused
<1>5. CASE k # j
  BY <1>3, <1>5, FlowsStill
<1> QED BY <1>4, <1>5

(* A draw moves a round along the order of statuses, to a book of its      *)
(* pool.                                                                   *)
LEMMA DrawFlows ==
    ASSUME IInv, NEW r \in Reqs, FinalizeDraw(r), NEW k \in RoundIds
    PROVE  Flows(rounds[k], rounds'[k])
<1>1. PICK j \in RoundIds, b \in Books :
         /\ j = req[r].local.round /\ b = req[r].local.book /\ b \in rounds[j].pool
  BY Serves, LocalType DEF FinalizeDraw, At, Knows
<1>2. CASE Refuse(r)
  BY <1>2, FlowsStill DEF Refuse, data
<1>3. CASE ~Refuse(r)
  <2>1. rounds[j].status = "SETUP" /\ rounds' = [rounds EXCEPT ![j].status = "DECIDED", ![j].book = b]
    BY <1>1, <1>3 DEF FinalizeDraw
  <2>2. PICK d : d = [rounds[j] EXCEPT !.status = "DECIDED", !.book = b]
    OBVIOUS
  <2>3. d.status = "DECIDED" /\ d.book = b /\ rounds[j].book = NULL
    BY <2>1, <2>2 DEF IInv, TypeOK, RoundDocs, RoundsOK, Decided
  <2>4. rounds'[k] = IF k = j THEN d ELSE rounds[k]
    BY <2>1, <2>2 DEF IInv, TypeOK
  <2>5. CASE k = j
    BY <1>1, <2>1, <2>3, <2>4, <2>5 DEF Flows
  <2>6. CASE k # j
    BY <2>4, <2>6, FlowsStill
  <2> QED BY <2>5, <2>6
<1> QED BY <1>2, <1>3

(* The end of a vote does too.                                             *)
LEMMA VoteFlows ==
    ASSUME IInv, NEW r \in Reqs, FinalizeVote(r), NEW k \in RoundIds
    PROVE  Flows(rounds[k], rounds'[k])
<1>1. PICK j \in RoundIds : j = req[r].local
  BY Serves, LocalType DEF FinalizeVote, At
<1>2. CASE Refuse(r)
  BY <1>2, FlowsStill DEF Refuse, data
<1>3. CASE ~Refuse(r)
  <2>1. rounds[j].status = "SETUP" /\ rounds' = [rounds EXCEPT ![j].status = "VOTING"]
    BY <1>1, <1>3 DEF FinalizeVote
  <2>2. PICK d : d = [rounds[j] EXCEPT !.status = "VOTING"]
    OBVIOUS
  <2>3. d.status = "VOTING" /\ d.book = NULL /\ rounds[j].book = NULL
    BY <2>1, <2>2 DEF IInv, TypeOK, RoundDocs, RoundsOK, Decided
  <2>4. rounds'[k] = IF k = j THEN d ELSE rounds[k]
    BY <2>1, <2>2 DEF IInv, TypeOK
  <2>5. CASE k = j
    BY <2>1, <2>3, <2>4, <2>5 DEF Flows
  <2>6. CASE k # j
    BY <2>4, <2>6, FlowsStill
  <2> QED BY <2>5, <2>6
<1> QED BY <1>2, <1>3

(* A completion concludes a decided round, and changes nothing else of it. *)
LEMMA CommitFlows ==
    ASSUME IInv, NEW r \in Reqs, FinishCommit(r), NEW k \in RoundIds
    PROVE  Flows(rounds[k], rounds'[k])
<1>1. Caller(r) \in Users
  BY Commits DEF FinishCommit
<1>2. CASE UNCHANGED data
  BY <1>2, FlowsStill DEF data
<1>3. CASE CommitOf(r, req[r].local.round)
  <2>1. PICK j : j = req[r].local.round /\ CommitOf(r, j)
    BY <1>3
  <2>2. PICK d \in RoundDocs :
           /\ \A i \in RoundIds : rounds'[i] = IF i = j THEN d ELSE rounds[i]
           /\ d.book = rounds[j].book /\ d.status \in {"DECIDED", "CONCLUDED"}
           /\ j \in Concluded => d.status = "CONCLUDED"
    BY <1>1, <2>1, CommitRound
  <2>3. rounds[j].status \in {"DECIDED", "CONCLUDED"} /\ j \in RoundIds
    BY <2>1 DEF CommitOf, Decided
  <2>4. CASE k = j
    BY <2>2, <2>3, <2>4 DEF Flows, Concluded, RoundStatus
  <2>5. CASE k # j
    BY <2>2, <2>5, FlowsStill
  <2> QED BY <2>4, <2>5
<1> QED BY <1>2, <1>3, CommitShape

(* Every step moves every round forward or not at all.                     *)
LEMMA AllFlow ==
    ASSUME IInv, [Next]_vars, NEW k \in RoundIds
    PROVE  Flows(rounds[k], rounds'[k])
<1>1. CASE UNCHANGED <<rounds, done>>
  BY <1>1, FlowsStill
<1> QED BY <1>1, SaveFlows, DrawFlows, VoteFlows, CommitFlows, WhoWrites DEF Writes

(* A round only moves forward and its book is chosen once, from its pool,  *)
(* whatever finalizations and finishers race: the guards of                *)
(* finalize_round's updates and the transaction of mark_finished.          *)
THEOREM RoundsFlow == Spec => RoundFlow
<1>1. IInv /\ [Next]_vars /\ IInv' =>
        [\A k \in RoundIds :
            LET old == rounds[k]  new == rounds'[k] IN
            /\ <<old.status, new.status>> \in
                  {<<"unused", "SETUP">>, <<"unused", "DECIDED">>, <<"SETUP", "VOTING">>,
                   <<"SETUP", "DECIDED">>, <<"DECIDED", "CONCLUDED">>}
                  \cup {<<s, s>> : s \in RoundStatus \cup {"unused"}}
            /\ old.book # NULL => new.book = old.book
            /\ new.status \in {"DECIDED", "CONCLUDED"} => new.book # NULL
            /\ old.status = "SETUP" => new.book \in old.pool \cup {NULL}]_vars
  <2> SUFFICES ASSUME IInv, [Next]_vars, IInv', NEW k \in RoundIds
               PROVE  /\ Flows(rounds[k], rounds'[k])
                      /\ rounds'[k].status \in {"DECIDED", "CONCLUDED"} => rounds'[k].book # NULL
    BY DEF Flows
  <2>1. Flows(rounds[k], rounds'[k])
    BY AllFlow
  <2>2. rounds'[k].status \in {"DECIDED", "CONCLUDED"} => rounds'[k].book # NULL
    BY DEF IInv, RoundsOK, Decided
  <2> QED BY <2>1, <2>2
<1> QED BY <1>1, Invariance, PTL DEF Spec, RoundFlow
-----------------------------------------------------------------------------
(***************************************************************************)
(* Which operations of ReadingRound must not overlap for the rules of      *)
(* start_round and remove_book_from_club to hold: the starts for one       *)
(* active round and for no second reading, starts and removals for the     *)
(* locked books.  Any number of the other requests may interleave.         *)
(***************************************************************************)

(* At most one request of these operations is under way.                   *)
Alone(ops) ==
    \A r1, r2 \in Reqs :
        /\ req[r1] # NULL /\ req[r1].call.op \in ops
        /\ req[r2] # NULL /\ req[r2].call.op \in ops
        => r1 = r2

StartPcs == {"active", "members", "excluded", "eligible", "save"}
RemovePcs == {"entry", "privilege", "lock", "delete"}

(* How a request p goes on as q: the call it makes next and what it has    *)
(* just read.                                                              *)
Follows(p, q) ==
    /\ q.call = p.call
    /\ q.pc = "active" => p.call.op = "start"
    /\ q.pc = "members" => p.pc = "active" /\ Active = {}
    /\ q.pc = "excluded" => p.pc = "members" /\ q.local = Members
    /\ q.pc = "eligible" => p.pc = "excluded" /\ q.local = Excluded(p.local)
    /\ q.pc = "save" => p.pc = "eligible" /\ Locked(q.local) \subseteq Catalog \ p.local
    /\ q.pc # "entry"
    /\ q.pc = "privilege" => p.pc = "entry"
    /\ q.pc = "lock" => p.pc = "privilege"
    /\ q.pc = "delete" => /\ p.pc = "lock"
                          /\ Active = {} \/ \E k \in Active : p.call.arg \notin Locked(rounds[k])
    /\ q.pc = "decided" => role[p.call.caller] # NULL
    /\ q.pc = "roster" => p.pc = "decided"
    /\ q.pc = "begin" => \/ p.pc = "roster" /\ q.local.members = Members
                         \/ p.pc = "commit" /\ q.local.members = p.local.members
    /\ q.pc = "commit" => p.pc = "begin" /\ q.local.members = p.local.members
    /\ q.pc = "finished" => p.pc = "commit"

(* A request that goes on.                                                 *)
LEMMA Becomes ==
    ASSUME IInv, NEW r \in Reqs, NEW pc, NEW l, Continue(r, pc, l)
    PROVE  req'[r] = [call |-> req[r].call, pc |-> pc, local |-> l]
BY DEF Continue, GoTo, IInv, TypeOK

(* A request that is answered.                                             *)
LEMMA Gone ==
    ASSUME IInv, NEW r \in Reqs, Answer(r)
    PROVE  req'[r] = NULL
BY DEF Answer, IInv, TypeOK

(* A refusal answers.                                                      *)
LEMMA Refused ==
    ASSUME IInv, NEW r \in Reqs, Refuse(r)
    PROVE  req'[r] = NULL
BY Gone DEF Refuse

(* The calls of a start.                                                   *)
LEMMA StartOrder ==
    ASSUME IInv, NEW r \in Reqs, req'[r] # NULL, NEW p, p = req[r], NEW q, q = req'[r],
           \/ StaffReadRole(r) \/ StartReadActive(r) \/ StartReadMembers(r)
           \/ StartReadExcluded(r) \/ StartReadEligible(r) \/ StartSave(r)
    PROVE  Follows(p, q)
<1>1. CASE StaffReadRole(r)
  <2>1. PICK pc \in {"active", "setup"} :
           Continue(r, pc, NULL) /\ (pc = "active" => req[r].call.op = "start")
    BY <1>1, Refused DEF StaffReadRole, ContinueIf
  <2>2. q = [call |-> p.call, pc |-> pc, local |-> NULL]
    BY <2>1, Becomes
  <2> QED BY <2>1, <2>2 DEF Follows
<1>2. CASE StartReadActive(r)
  <2>1. q = [call |-> p.call, pc |-> "members", local |-> NULL] /\ Active = {} /\ p.pc = "active"
    BY <1>2, Becomes, Refused DEF StartReadActive, ContinueIf, At
  <2> QED BY <2>1 DEF Follows
<1>3. CASE StartReadMembers(r)
  <2>1. q = [call |-> p.call, pc |-> "excluded", local |-> Members] /\ p.pc = "members"
    BY <1>3, Becomes DEF StartReadMembers, At
  <2> QED BY <2>1 DEF Follows
<1>4. CASE StartReadExcluded(r)
  <2>1. q = [call |-> p.call, pc |-> "eligible", local |-> Excluded(p.local)] /\ p.pc = "excluded"
    BY <1>4, Becomes DEF StartReadExcluded, At
  <2> QED BY <2>1 DEF Follows
<1>5. CASE StartReadEligible(r)
  <2>1. ASSUME NEW d, Continue(r, "save", d), Locked(d) \subseteq Catalog \ p.local
        PROVE  Follows(p, q)
    <3>1. q = [call |-> p.call, pc |-> "save", local |-> d] /\ p.pc = "eligible"
      BY <1>5, <2>1, Becomes DEF StartReadEligible, At
    <3> QED BY <2>1, <3>1 DEF Follows
  <2>2. ASSUME NEW b \in Catalog \ p.local,
               Continue(r, "save", [Unused EXCEPT !.status = "DECIDED", !.book = b])
        PROVE  Follows(p, q)
    <3>1. PICK d : d = [Unused EXCEPT !.status = "DECIDED", !.book = b]
      OBVIOUS
    <3>2. d.pool = {} /\ d.book = b
      BY <3>1 DEF Unused
    <3> QED BY <2>1, <2>2, <3>1, <3>2 DEF Locked
  <2>3. ASSUME NEW pool \in SUBSET (Catalog \ p.local),
               Continue(r, "save", [Unused EXCEPT !.status = "SETUP", !.pool = pool])
        PROVE  Follows(p, q)
    <3>1. PICK d : d = [Unused EXCEPT !.status = "SETUP", !.pool = pool]
      OBVIOUS
    <3>2. d.pool = pool /\ d.book = NULL
      BY <3>1 DEF Unused
    <3> QED BY <2>1, <2>3, <3>1, <3>2 DEF Locked
  <2> QED BY <1>5, <2>2, <2>3, Refused DEF StartReadEligible
<1>6. CASE StartSave(r)
  BY <1>6, Gone DEF StartSave
<1> QED BY <1>1, <1>2, <1>3, <1>4, <1>5, <1>6

(* The calls of a finalization.                                            *)
LEMMA FinalizeOrder ==
    ASSUME IInv, NEW r \in Reqs, req'[r] # NULL, NEW p, p = req[r], NEW q, q = req'[r],
           \/ FinalizeReadRound(r) \/ FinalizeReadEntries(r) \/ FinalizeDraw(r) \/ FinalizeVote(r)
    PROVE  Follows(p, q)
<1>1. ASSUME NEW pc \in {"entries", "vote", "draw"}, NEW l, Continue(r, pc, l)
      PROVE  Follows(p, q)
  <2>1. q = [call |-> p.call, pc |-> pc, local |-> l]
    BY <1>1, Becomes
  <2> QED BY <2>1 DEF Follows
<1>2. CASE FinalizeReadRound(r)
  BY <1>1, <1>2, Refused DEF FinalizeReadRound, ContinueIf
<1>3. CASE FinalizeReadEntries(r)
  BY <1>1, <1>3, Refused DEF FinalizeReadEntries
<1>4. CASE FinalizeDraw(r) \/ FinalizeVote(r)
  BY <1>4, Gone, Refused DEF FinalizeDraw, FinalizeVote
<1> QED BY <1>2, <1>3, <1>4

(* The calls of a finish.                                                  *)
LEMMA FinishOrder ==
    ASSUME IInv, NEW r \in Reqs, req'[r] # NULL, NEW p, p = req[r], NEW q, q = req'[r],
           \/ FinishReadSeat(r) \/ FinishReadRound(r) \/ FinishReadMembers(r)
           \/ FinishBegin(r) \/ FinishCommit(r) \/ FinishUpsertRead(r)
    PROVE  Follows(p, q)
<1>1. CASE FinishReadSeat(r)
  <2>1. q = [call |-> p.call, pc |-> "decided", local |-> NULL] /\ role[p.call.caller] # NULL
    BY <1>1, Becomes, Refused DEF FinishReadSeat, ContinueIf, Caller
  <2> QED BY <2>1 DEF Follows
<1>2. CASE FinishReadRound(r)
  <2>1. PICK k : q = [call |-> p.call, pc |-> "roster", local |-> k]
    BY <1>2, Becomes, Refused DEF FinishReadRound, ContinueIf
  <2>2. p.pc = "decided"
    BY <1>2 DEF FinishReadRound, At
  <2> QED BY <2>1, <2>2 DEF Follows
<1>3. CASE FinishReadMembers(r)
  <2>1. PICK l : l = [round |-> p.local, members |-> Members]
    OBVIOUS
  <2>2. q = [call |-> p.call, pc |-> "begin", local |-> l] /\ l.members = Members /\ p.pc = "roster"
    BY <1>3, <2>1, Becomes DEF FinishReadMembers, At
  <2> QED BY <2>2 DEF Follows
<1>4. CASE FinishBegin(r)
  <2>1. PICK l : l = [round |-> p.local.round, members |-> p.local.members,
                      doc |-> rounds[p.local.round], done |-> done[p.local.round]]
    OBVIOUS
  <2>2. /\ q = [call |-> p.call, pc |-> "commit", local |-> l]
        /\ l.members = p.local.members /\ p.pc = "begin"
    BY <1>4, <2>1, Becomes DEF FinishBegin, At
  <2> QED BY <2>2 DEF Follows
<1>5. CASE FinishCommit(r)
  <2>0. p.pc = "commit"
    BY <1>5 DEF FinishCommit, At
  <2>1. CASE GoTo(r, "begin", [round |-> p.local.round, members |-> p.local.members])
    <3>1. PICK l : l = [round |-> p.local.round, members |-> p.local.members]
      OBVIOUS
    <3>2. q = [call |-> p.call, pc |-> "begin", local |-> l] /\ l.members = p.local.members
      BY <2>1, <3>1 DEF GoTo, IInv, TypeOK
    <3> QED BY <2>0, <3>2 DEF Follows
  <2>2. CASE GoTo(r, "finished", p.local.round)
    <3>1. q = [call |-> p.call, pc |-> "finished", local |-> p.local.round]
      BY <2>2 DEF GoTo, IInv, TypeOK
    <3> QED BY <2>0, <3>1 DEF Follows
  <2> QED BY <1>5, <2>1, <2>2, CommitShape
<1>6. CASE FinishUpsertRead(r)
  BY <1>6, Gone DEF FinishUpsertRead
<1> QED BY <1>1, <1>2, <1>3, <1>4, <1>5, <1>6

(* The calls of a suggestion and of a removal.                             *)
LEMMA CatalogOrder ==
    ASSUME IInv, NEW r \in Reqs, req'[r] # NULL, NEW p, p = req[r], NEW q, q = req'[r],
           \/ SuggestReadOpen(r) \/ SuggestAdd(r) \/ RemoveReadEntry(r)
           \/ RemoveReadRole(r) \/ RemoveReadLock(r) \/ RemoveDelete(r)
    PROVE  Follows(p, q)
<1>1. CASE SuggestReadOpen(r)
  <2>1. q = [call |-> p.call, pc |-> "add", local |-> NULL]
    BY <1>1, Becomes, Refused DEF SuggestReadOpen
  <2> QED BY <2>1 DEF Follows
<1>2. CASE RemoveReadEntry(r)
  <2>1. PICK l : q = [call |-> p.call, pc |-> "privilege", local |-> l]
    BY <1>2, Becomes, Refused DEF RemoveReadEntry, ContinueIf
  <2>2. p.pc = "entry"
    BY <1>2 DEF RemoveReadEntry, At
  <2> QED BY <2>1, <2>2 DEF Follows
<1>3. CASE RemoveReadRole(r)
  <2>1. q = [call |-> p.call, pc |-> "lock", local |-> NULL] /\ p.pc = "privilege"
    BY <1>3, Becomes, Refused DEF RemoveReadRole, ContinueIf, At
  <2> QED BY <2>1 DEF Follows
<1>4. CASE RemoveReadLock(r)
  <2>1. /\ q = [call |-> p.call, pc |-> "delete", local |-> NULL] /\ p.pc = "lock"
        /\ Active = {} \/ \E k \in Active : p.call.arg \notin Locked(rounds[k])
    BY <1>4, Becomes, Refused DEF RemoveReadLock, ContinueIf, At
  <2> QED BY <2>1 DEF Follows
<1>5. CASE SuggestAdd(r) \/ RemoveDelete(r)
  BY <1>5, Gone DEF SuggestAdd, RemoveDelete
<1> QED BY <1>1, <1>2, <1>3, <1>4, <1>5

(* A step of one request leaves the others where they are.                 *)
LEMMA OthersStay ==
    ASSUME IInv, NEW s \in Reqs, Step(s) \/ Abort(s), NEW r \in Reqs, r # s
    PROVE  req'[r] = req[r]
<1>1. \A q : req' = [req EXCEPT ![s] = q] => req'[r] = req[r]
  BY DEF IInv, TypeOK
<1>2. CASE \/ StaffReadRole(s) \/ StartReadActive(s) \/ StartReadMembers(s)
           \/ StartReadExcluded(s) \/ StartReadEligible(s) \/ StartSave(s)
  BY <1>1, <1>2 DEF StaffReadRole, StartReadActive, StartReadMembers, StartReadExcluded,
     StartReadEligible, StartSave, ContinueIf, Continue, Refuse, GoTo, Answer
<1>3. CASE \/ FinalizeReadRound(s) \/ FinalizeReadEntries(s) \/ FinalizeDraw(s) \/ FinalizeVote(s)
  BY <1>1, <1>3 DEF FinalizeReadRound, FinalizeReadEntries, FinalizeDraw, FinalizeVote,
     ContinueIf, Continue, Refuse, GoTo, Answer
<1>4. CASE FinishReadSeat(s) \/ FinishReadRound(s) \/ FinishReadMembers(s) \/ FinishBegin(s)
  BY <1>1, <1>4 DEF FinishReadSeat, FinishReadRound, FinishReadMembers, FinishBegin,
     ContinueIf, Continue, Refuse, GoTo, Answer
<1>5. CASE FinishCommit(s) \/ FinishUpsertRead(s)
  BY <1>1, <1>5, CommitShape DEF FinishUpsertRead, GoTo, Answer
<1>6. CASE \/ SuggestReadOpen(s) \/ SuggestAdd(s) \/ RemoveReadEntry(s)
           \/ RemoveReadRole(s) \/ RemoveReadLock(s) \/ RemoveDelete(s)
  BY <1>1, <1>6 DEF SuggestReadOpen, SuggestAdd, RemoveReadEntry, RemoveReadRole,
     RemoveReadLock, RemoveDelete, ContinueIf, Continue, Refuse, GoTo, Answer
<1>7. CASE Abort(s)
  BY <1>1, <1>7 DEF Abort, Refuse, Answer
<1> QED BY <1>2, <1>3, <1>4, <1>5, <1>6, <1>7 DEF Step

(* Where a request can be after a step: where it was, at its first call,   *)
(* or at the call that follows.                                            *)
LEMMA ProgramOrder ==
    ASSUME IInv, [Next]_vars, NEW r \in Reqs, NEW q, q = req'[r], q # NULL
    PROVE  \/ req[r] # NULL /\ (q = req[r] \/ Follows(req[r], q))
           \/ /\ req[r] = NULL /\ q.pc \in {"staff", "seat", "open", "entry"}
              /\ q.pc = "entry" => q.call.op = "remove"
<1>1. CASE UNCHANGED vars
  BY <1>1 DEF vars
<1>2. ASSUME NEW s \in Reqs, NEW call \in Calls, Arrive(s, call)
      PROVE  \/ req[r] # NULL /\ q = req[r]
             \/ /\ req[r] = NULL /\ q.pc \in {"staff", "seat", "open", "entry"}
                /\ q.pc = "entry" => q.call.op = "remove"
  <2>1. PICK pc \in {"staff", "seat", "open", "entry"} :
           pc = FirstPc[call.op] /\ (pc = "entry" => call.op = "remove")
    BY DEF FirstPc, Calls
  <2>2. req[s] = NULL /\ req' = [req EXCEPT ![s] = [call |-> call, pc |-> pc, local |-> NULL]]
    BY <1>2, <2>1 DEF Arrive
  <2>3. CASE r = s
    <3>1. q = [call |-> call, pc |-> pc, local |-> NULL]
      BY <2>2, <2>3 DEF IInv, TypeOK
    <3> QED BY <2>1, <2>2, <2>3, <3>1
  <2>4. CASE r # s
    BY <2>2, <2>4 DEF IInv, TypeOK
  <2> QED BY <2>3, <2>4
<1>3. ASSUME NEW s \in Reqs, Step(s) \/ Abort(s)
      PROVE  req[r] # NULL /\ (q = req[r] \/ Follows(req[r], q))
  <2>1. CASE r # s
    BY <1>3, <2>1, OthersStay
  <2>2. CASE r = s /\ Abort(s)
    BY <2>2, Refused DEF Abort
  <2>3. CASE r = s /\ Step(s)
    <3>1. PICK p : p = req[r]
      OBVIOUS
    <3>2. Follows(p, q)
      BY <2>3, <3>1, StartOrder, FinalizeOrder, FinishOrder, CatalogOrder DEF Step
    <3>3. req[r] # NULL
      BY <2>3 DEF Step, At, StaffReadRole, StartReadActive, StartReadMembers,
         StartReadExcluded, StartReadEligible, StartSave, FinalizeReadRound,
         FinalizeReadEntries, FinalizeDraw, FinalizeVote, FinishReadSeat, FinishReadRound,
         FinishReadMembers, FinishBegin, FinishCommit, FinishUpsertRead, SuggestReadOpen,
         SuggestAdd, RemoveReadEntry, RemoveReadRole, RemoveReadLock, RemoveDelete
    <3> QED BY <3>1, <3>2, <3>3
  <2> QED BY <1>3, <2>1, <2>2, <2>3
<1>4. ASSUME NEW u \in Users, Join(u) \/ Depart(u) \/ ChangeRole(u)
      PROVE  q = req[r]
  BY <1>4 DEF Join, Depart, ChangeRole
<1> QED BY <1>1, <1>2, <1>3, <1>4 DEF Next
-----------------------------------------------------------------------------
(* Only a start adds an active round; an active one keeps its books.       *)
LEMMA ActiveKept ==
    ASSUME IInv, [Next]_vars, \A r \in Reqs : ~StartSave(r),
           NEW k \in RoundIds, rounds'[k].status \in ActiveStatuses
    PROVE  k \in Active /\ Locked(rounds'[k]) = Locked(rounds[k])
<1>1. CASE rounds'[k] = rounds[k]
  BY <1>1 DEF Active
<1>2. ASSUME NEW r \in Reqs, FinalizeDraw(r)
      PROVE  k \in Active /\ Locked(rounds'[k]) = Locked(rounds[k])
  <2>1. PICK j \in RoundIds, b \in Books :
           /\ j = req[r].local.round /\ b = req[r].local.book /\ b \in rounds[j].pool
    BY <1>2, Serves, LocalType DEF FinalizeDraw, At, Knows
  <2>2. CASE Refuse(r)
    BY <1>1, <2>2 DEF Refuse, data
  <2>3. CASE ~Refuse(r)
    <3>1. /\ rounds[j].status = "SETUP"
          /\ rounds' = [rounds EXCEPT ![j].status = "DECIDED", ![j].book = b]
      BY <1>2, <2>1, <2>3 DEF FinalizeDraw
    <3>2. PICK d : d = [rounds[j] EXCEPT !.status = "DECIDED", !.book = b]
      OBVIOUS
    <3>3. d.pool = rounds[j].pool /\ d.book = b /\ rounds[j].book = NULL
      BY <3>1, <3>2 DEF IInv, TypeOK, RoundDocs, RoundsOK, Decided
    <3>4. rounds'[k] = IF k = j THEN d ELSE rounds[k]
      BY <3>1, <3>2 DEF IInv, TypeOK
    <3>5. CASE k = j
      <4>1. k \in Active
        BY <3>1, <3>5 DEF Active, ActiveStatuses
      <4>2. rounds'[k] = d
        BY <3>4, <3>5
      <4>3. Locked(d) = Locked(rounds[j])
        BY <2>1, <3>3 DEF Locked
      <4> QED BY <3>5, <4>1, <4>2, <4>3
    <3>6. CASE k # j
      BY <1>1, <3>4, <3>6
    <3> QED BY <3>5, <3>6
  <2> QED BY <2>2, <2>3
<1>3. ASSUME NEW r \in Reqs, FinalizeVote(r)
      PROVE  k \in Active /\ Locked(rounds'[k]) = Locked(rounds[k])
  <2>1. PICK j \in RoundIds : j = req[r].local
    BY <1>3, Serves, LocalType DEF FinalizeVote, At
  <2>2. CASE Refuse(r)
    BY <1>1, <2>2 DEF Refuse, data
  <2>3. CASE ~Refuse(r)
    <3>1. rounds[j].status = "SETUP" /\ rounds' = [rounds EXCEPT ![j].status = "VOTING"]
      BY <1>3, <2>1, <2>3 DEF FinalizeVote
    <3>2. PICK d : d = [rounds[j] EXCEPT !.status = "VOTING"]
      OBVIOUS
    <3>3. d.pool = rounds[j].pool /\ d.book = rounds[j].book
      BY <3>1, <3>2 DEF IInv, TypeOK, RoundDocs
    <3>4. rounds'[k] = IF k = j THEN d ELSE rounds[k]
      BY <3>1, <3>2 DEF IInv, TypeOK
    <3>5. CASE k = j
      BY <3>1, <3>3, <3>4, <3>5 DEF Locked, Active, ActiveStatuses
    <3> QED BY <1>1, <3>4, <3>5
  <2> QED BY <2>2, <2>3
<1>4. ASSUME NEW r \in Reqs, FinishCommit(r)
      PROVE  k \in Active /\ Locked(rounds'[k]) = Locked(rounds[k])
  <2>1. Caller(r) \in Users
    BY <1>4, Commits DEF FinishCommit
  <2>2. CASE UNCHANGED data
    BY <1>1, <2>2 DEF data
  <2>3. CASE CommitOf(r, req[r].local.round)
    <3>1. PICK j : j = req[r].local.round /\ CommitOf(r, j)
      BY <2>3
    <3>2. PICK d \in RoundDocs :
             /\ \A i \in RoundIds : rounds'[i] = IF i = j THEN d ELSE rounds[i]
             /\ d.book = rounds[j].book /\ d.pool = rounds[j].pool
             /\ j \in Concluded => d.status = "CONCLUDED"
      BY <2>1, <3>1, CommitRound
    <3>3. j \in Decided
      BY <3>1 DEF CommitOf
    <3>4. CASE k = j
      BY <3>2, <3>3, <3>4 DEF Locked, Active, ActiveStatuses, Decided, Concluded
    <3> QED BY <1>1, <3>2, <3>4
  <2> QED BY <1>4, <2>2, <2>3, CommitShape
<1> QED BY <1>1, <1>2, <1>3, <1>4, WhoWrites DEF Writes
-----------------------------------------------------------------------------
(* One active round.  A start that found no active round has found so for  *)
(* good, because only another start could add one.                         *)
StartFacts(q) ==
    /\ q.pc \in StartPcs => q.call.op = "start"
    /\ q.pc \in StartPcs \ {"active"} => Active = {}

OneRoundInv ==
    /\ OneActiveRound
    /\ \A r \in Reqs : req[r] # NULL => StartFacts(req[r])

(* A start that saves its round leaves that round alone active.            *)
LEMMA SaveAlone ==
    ASSUME IInv, OneRoundInv, NEW r \in Reqs, StartSave(r)
    PROVE  \E j \in RoundIds : /\ Active' = {j}
                               /\ rounds'[j] = req[r].local
                               /\ \A k \in RoundIds : k # j => rounds'[k] = rounds[k]
<1>1. PICK j \in RoundIds : rounds[j] = Unused /\ rounds' = [rounds EXCEPT ![j] = req[r].local]
  BY DEF StartSave
<1>2. PICK d : d = req[r].local /\ d.status \in {"SETUP", "DECIDED"}
  BY Serves DEF StartSave, At, Knows
<1>3. \A k \in RoundIds : rounds'[k] = IF k = j THEN d ELSE rounds[k]
  BY <1>1, <1>2 DEF IInv, TypeOK
<1>4. Active = {}
  BY DEF StartSave, At, OneRoundInv, StartFacts, StartPcs
<1>5. Active' = {j}
  BY <1>2, <1>3, <1>4 DEF Active, ActiveStatuses
<1> QED BY <1>2, <1>3, <1>5

(* The invariant is kept as long as starts do not overlap.                 *)
LEMMA OneRoundKept ==
    ASSUME IInv, OneRoundInv, Alone({"start"}), Alone({"start"})', [Next]_vars
    PROVE  OneRoundInv'
<1>1. ASSUME NEW r \in Reqs, NEW q, q = req'[r], q # NULL
      PROVE  StartFacts(q)
  <2>1. CASE req[r] # NULL /\ q = req[r]
    BY <2>1 DEF OneRoundInv
  <2>2. CASE req[r] # NULL /\ Follows(req[r], q)
    <3>1. PICK p : p = req[r] /\ StartFacts(p) /\ Follows(p, q)
      BY <2>2 DEF OneRoundInv
    <3> QED BY <3>1 DEF StartFacts, Follows, StartPcs
  <2>3. CASE q.pc \in {"staff", "seat", "open", "entry"}
    BY <2>3 DEF StartFacts, StartPcs
  <2> QED BY <1>1, <2>1, <2>2, <2>3, ProgramOrder
<1>2. CASE \A r \in Reqs : ~StartSave(r)
  <2>1. Active' \subseteq Active
    BY <1>2, ActiveKept DEF Active
  <2>2. ASSUME NEW r \in Reqs, NEW q, q = req'[r], q # NULL
        PROVE  StartFacts(q)'
    BY <1>1, <2>1, <2>2 DEF StartFacts
  <2>3. \A r \in Reqs : req'[r] # NULL => StartFacts(req[r])'
    BY <2>2 DEF StartFacts
  <2> QED BY <2>1, <2>3 DEF OneRoundInv, OneActiveRound
<1>3. ASSUME NEW s \in Reqs, StartSave(s)
      PROVE  OneRoundInv'
  <2>1. req'[s] = NULL /\ req[s] # NULL /\ req[s].call.op = "start"
    BY <1>3, Gone DEF StartSave, At, OneRoundInv, StartFacts, StartPcs
  <2>2. ASSUME NEW r \in Reqs, NEW q, q = req'[r], q # NULL
        PROVE  StartFacts(q)'
    <3>1. r # s /\ q = req[r]
      BY <1>3, <2>1, <2>2, OthersStay DEF Step
    <3>2. q.call.op # "start"
      BY <2>1, <2>2, <3>1 DEF Alone
    <3>3. StartFacts(q)
      BY <1>1, <2>2
    <3> QED BY <3>2, <3>3 DEF StartFacts
  <2>3. \A r \in Reqs : req'[r] # NULL => StartFacts(req[r])'
    BY <2>2 DEF StartFacts
  <2>4. OneActiveRound'
    BY <1>3, SaveAlone DEF OneActiveRound
  <2> QED BY <2>3, <2>4 DEF OneRoundInv
<1> QED BY <1>2, <1>3

(* No round is active and no request under way at first.                   *)
LEMMA OneRoundInitially == Init => OneRoundInv
BY DEF Init, OneRoundInv, OneActiveRound, Active, ActiveStatuses, Unused

(* While starts do not overlap, the invariant holds in every state.        *)
THEOREM OneRoundInvariance == Spec /\ []Alone({"start"}) => []OneRoundInv
<1>1. IInv /\ OneRoundInv /\ Alone({"start"}) /\ Alone({"start"})' /\ [Next]_vars => OneRoundInv'
  BY OneRoundKept
<1> QED BY <1>1, OneRoundInitially, Invariance, PTL DEF Spec

(* A club has at most one active round as long as at most one start_round  *)
(* is under way, whatever else interleaves with it.                        *)
THEOREM OneRoundAtATime == Spec /\ []Alone({"start"}) => []OneActiveRound
<1>1. OneRoundInv => OneActiveRound
  BY DEF OneRoundInv
<1> QED BY <1>1, OneRoundInvariance, PTL
-----------------------------------------------------------------------------
(* The locked books.  A start has seen its books in the catalog, where     *)
(* only a removal could miss them; a removal has seen its book in no       *)
(* active round, where only a start could put it.                          *)
LockFacts(q) ==
    /\ q.pc \in RemovePcs => q.call.op = "remove"
    /\ q.pc = "save" => Locked(q.local) \subseteq Catalog
    /\ q.pc = "delete" => \A k \in Active : q.call.arg \notin Locked(rounds[k])

LockInv ==
    /\ LockHonoured
    /\ \A r \in Reqs : req[r] # NULL => LockFacts(req[r])

(* Only a suggestion and a removal change the catalog.                     *)
LEMMA WhoEdits ==
    ASSUME [Next]_vars
    PROVE  UNCHANGED catalog \/ \E r \in Reqs : SuggestAdd(r) \/ RemoveDelete(r)
<1>1. ASSUME NEW r \in Reqs, Step(r), ~SuggestAdd(r), ~RemoveDelete(r)
      PROVE  UNCHANGED catalog
  <2>1. CASE \/ StaffReadRole(r) \/ StartReadActive(r) \/ StartReadMembers(r)
             \/ StartReadExcluded(r) \/ StartReadEligible(r) \/ StartSave(r)
    BY <2>1 DEF StaffReadRole, StartReadActive, StartReadMembers, StartReadExcluded,
       StartReadEligible, StartSave, ContinueIf, Continue, Refuse, data
  <2>2. CASE \/ FinalizeReadRound(r) \/ FinalizeReadEntries(r) \/ FinalizeDraw(r)
             \/ FinalizeVote(r)
    BY <2>2 DEF FinalizeReadRound, FinalizeReadEntries, FinalizeDraw, FinalizeVote,
       ContinueIf, Continue, Refuse, data
  <2>3. CASE \/ FinishReadSeat(r) \/ FinishReadRound(r) \/ FinishReadMembers(r)
             \/ FinishBegin(r) \/ FinishCommit(r) \/ FinishUpsertRead(r)
    BY <2>3 DEF FinishReadSeat, FinishReadRound, FinishReadMembers, FinishBegin,
       FinishCommit, FinishUpsertRead, ContinueIf, Continue, Refuse, data
  <2>4. CASE SuggestReadOpen(r) \/ RemoveReadEntry(r) \/ RemoveReadRole(r) \/ RemoveReadLock(r)
    BY <2>4 DEF SuggestReadOpen, RemoveReadEntry, RemoveReadRole, RemoveReadLock,
       ContinueIf, Continue, Refuse, data
  <2> QED BY <1>1, <2>1, <2>2, <2>3, <2>4 DEF Step
<1>2. ASSUME NEW r \in Reqs, NEW call \in Calls, Arrive(r, call) PROVE UNCHANGED catalog
  BY <1>2 DEF Arrive, data
<1>3. ASSUME NEW r \in Reqs, Abort(r) PROVE UNCHANGED catalog
  BY <1>3 DEF Abort, Refuse, data
<1>4. ASSUME NEW u \in Users, Join(u) \/ Depart(u) \/ ChangeRole(u)
      PROVE  UNCHANGED catalog
  BY <1>4 DEF Join, Depart, ChangeRole
<1>5. CASE UNCHANGED vars
  BY <1>5 DEF vars
<1> QED BY <1>1, <1>2, <1>3, <1>4, <1>5 DEF Next

(* Only a removal takes a book out, and only its own.                      *)
LEMMA CatalogKept ==
    ASSUME IInv, [Next]_vars, NEW b \in Catalog, b \notin Catalog'
    PROVE  \E r \in Reqs : RemoveDelete(r) /\ b = req[r].call.arg
<1>1. b \in Books /\ catalog[b] # NULL /\ catalog'[b] = NULL
  BY DEF Catalog
<1>2. ASSUME NEW r \in Reqs, SuggestAdd(r)
      PROVE  catalog'[b] # NULL
  <2>1. PICK c : c = req[r].call.arg
    OBVIOUS
  <2>2. Caller(r) # NULL
    BY <1>2, Serves, RoundAssumption DEF SuggestAdd, At
  <2>3. catalog' = [catalog EXCEPT ![c] = IF catalog[c] = NULL THEN Caller(r) ELSE catalog[c]]
    BY <1>2, <2>1 DEF SuggestAdd
  <2> QED BY <1>1, <2>2, <2>3 DEF IInv, TypeOK
<1>3. ASSUME NEW r \in Reqs, RemoveDelete(r), b # req[r].call.arg
      PROVE  catalog'[b] # NULL
  BY <1>1, <1>3 DEF RemoveDelete, IInv, TypeOK
<1> QED BY <1>1, <1>2, <1>3, WhoEdits

(* The invariant is kept as long as starts and removals do not overlap.    *)
LEMMA LockKept ==
    ASSUME IInv, OneRoundInv, LockInv, [Next]_vars,
           Alone({"start", "remove"}), Alone({"start", "remove"})'
    PROVE  LockInv'
<1>1. ASSUME NEW r \in Reqs, NEW q, q = req'[r], q # NULL
      PROVE  LockFacts(q)
  <2>1. CASE req[r] # NULL /\ q = req[r]
    BY <2>1 DEF LockInv
  <2>2. CASE req[r] # NULL /\ Follows(req[r], q)
    <3>1. PICK p : p = req[r] /\ LockFacts(p) /\ Follows(p, q)
      BY <2>2 DEF LockInv
    <3>2. q.pc = "delete" => \A k \in Active : q.call.arg \notin Locked(rounds[k])
      BY <3>1 DEF Follows, OneRoundInv, OneActiveRound
    <3>3. q.pc \in RemovePcs => q.call.op = "remove"
      BY <3>1 DEF LockFacts, Follows, RemovePcs
    <3>4. q.pc = "save" => Locked(q.local) \subseteq Catalog
      BY <3>1 DEF Follows
    <3> QED BY <3>2, <3>3, <3>4 DEF LockFacts
  <2>3. CASE q.pc \in {"staff", "seat", "open", "entry"} /\ (q.pc = "entry" => q.call.op = "remove")
    BY <2>3 DEF LockFacts, RemovePcs
  <2> QED BY <1>1, <2>1, <2>2, <2>3, ProgramOrder
<1>2. ASSUME NEW s \in Reqs, Step(s), req[s] # NULL, req[s].call.op \in {"start", "remove"},
             NEW r \in Reqs, r # s, NEW q, q = req'[r], q # NULL
      PROVE  q.pc # "save" /\ q.pc # "delete" /\ LockFacts(q)
  <2>1. q = req[r]
    BY <1>2, OthersStay
  <2>2. q.call.op \notin {"start", "remove"}
    BY <1>2, <2>1 DEF Alone
  <2> QED BY <1>1, <1>2, <2>1, <2>2
      DEF LockInv, LockFacts, RemovePcs, OneRoundInv, StartFacts, StartPcs
<1>3. CASE \A r \in Reqs : ~StartSave(r) /\ ~RemoveDelete(r)
  <2>1. Catalog \subseteq Catalog'
    BY <1>3, CatalogKept
  <2>2. \A k \in Active' : k \in Active /\ Locked(rounds'[k]) = Locked(rounds[k])
    BY <1>3, ActiveKept DEF Active
  <2>3. LockHonoured'
    BY <2>1, <2>2 DEF LockInv, LockHonoured, Locked
  <2>4. ASSUME NEW r \in Reqs, NEW q, q = req'[r], q # NULL
        PROVE  LockFacts(q)'
    BY <1>1, <2>1, <2>2, <2>4 DEF LockFacts, Locked
  <2>5. \A r \in Reqs : req'[r] # NULL => LockFacts(req[r])'
    BY <2>4 DEF LockFacts
  <2> QED BY <2>3, <2>5 DEF LockInv
<1>4. ASSUME NEW s \in Reqs, StartSave(s)
      PROVE  LockInv'
  <2>1. req'[s] = NULL /\ req[s] # NULL /\ req[s].call.op = "start" /\ req[s].pc = "save"
    BY <1>4, Gone DEF StartSave, At, OneRoundInv, StartFacts, StartPcs
  <2>2. PICK j \in RoundIds : Active' = {j} /\ rounds'[j] = req[s].local
    BY <1>4, SaveAlone
  <2>3. Locked(rounds'[j]) \subseteq Catalog /\ Catalog' = Catalog
    BY <1>4, <2>1, <2>2 DEF LockInv, LockFacts, StartSave, Catalog
  <2>4. LockHonoured'
    BY <2>2, <2>3 DEF LockHonoured, Locked
  <2>5. ASSUME NEW r \in Reqs, NEW q, q = req'[r], q # NULL
        PROVE  LockFacts(q)'
    BY <1>2, <1>4, <2>1, <2>5 DEF LockFacts, Step
  <2>6. \A r \in Reqs : req'[r] # NULL => LockFacts(req[r])'
    BY <2>5 DEF LockFacts
  <2> QED BY <2>4, <2>6 DEF LockInv
<1>5. ASSUME NEW s \in Reqs, RemoveDelete(s)
      PROVE  LockInv'
  <2>1. req'[s] = NULL /\ req[s] # NULL /\ req[s].call.op = "remove" /\ req[s].pc = "delete"
    BY <1>5, Gone DEF RemoveDelete, At, LockInv, LockFacts, RemovePcs
  <2>2. UNCHANGED rounds /\ Active' = Active
    BY <1>5 DEF RemoveDelete, Active
  <2>3. \A b \in Catalog : b # req[s].call.arg => b \in Catalog'
    BY <1>5 DEF RemoveDelete, Catalog, IInv, TypeOK
  <2>4. \A k \in Active : req[s].call.arg \notin Locked(rounds[k])
    BY <2>1 DEF LockInv, LockFacts
  <2>5. LockHonoured'
    BY <2>2, <2>3, <2>4 DEF LockInv, LockHonoured, Locked
  <2>6. ASSUME NEW r \in Reqs, NEW q, q = req'[r], q # NULL
        PROVE  LockFacts(q)'
    BY <1>2, <1>5, <2>1, <2>6 DEF LockFacts, Step
  <2>7. \A r \in Reqs : req'[r] # NULL => LockFacts(req[r])'
    BY <2>6 DEF LockFacts
  <2> QED BY <2>5, <2>7 DEF LockInv
<1> QED BY <1>3, <1>4, <1>5

(* No round is active and no request under way at first.                   *)
LEMMA LockInitially == Init => LockInv
BY DEF Init, LockInv, LockHonoured, Active, ActiveStatuses, Unused

(* The candidates and the book of an active round stay in the catalog as   *)
(* long as start_round and remove_book_from_club do not overlap: draws,    *)
(* votes, finishers and suggestions may interleave with either.            *)
THEOREM LocksAreHonoured == Spec /\ []Alone({"start", "remove"}) => []LockHonoured
<1>1. IInv /\ OneRoundInv /\ LockInv /\ [Next]_vars
        /\ Alone({"start", "remove"}) /\ Alone({"start", "remove"})' => LockInv'
  BY LockKept
<1>2. Alone({"start", "remove"}) => Alone({"start"})
  BY DEF Alone
<1>3. LockInv => LockHonoured
  BY DEF LockInv
<1> QED BY <1>1, <1>2, <1>3, LockInitially, Invariance, OneRoundInvariance, PTL DEF Spec
-----------------------------------------------------------------------------
(* No second reading, in a club whose roster stays as it is.               *)
FixedRoster == Operations \cap RosterOps = {} /\ IsFiniteSet(Users)

FinishedBooks == {rounds[k].book : k \in Concluded}

(* Finishers are members; a start excludes every book the club finished.   *)
ReaderFacts(q) ==
    /\ q.pc \in {"decided", "roster", "begin", "commit"} => q.call.caller \in Members
    /\ q.pc \in {"begin", "commit"} => q.local.members = Members
    /\ q.pc = "excluded" => q.local = Members
    /\ q.pc = "eligible" => FinishedBooks \subseteq q.local
    /\ q.pc = "save" => Locked(q.local) \cap FinishedBooks = {}

FinishersOK ==
    /\ \A k \in RoundIds : done[k] \subseteq Members
    /\ \A k \in Concluded : done[k] = Members /\ Members # {}

ReadersInv ==
    /\ NoSecondReading
    /\ FinishersOK
    /\ \A r \in Reqs : req[r] # NULL => ReaderFacts(req[r])

(* Nobody joins, leaves or changes role.                                   *)
LEMMA RosterKept ==
    ASSUME FixedRoster, [Next]_vars
    PROVE  role' = role
<1>1. ASSUME NEW r \in Reqs, Step(r) PROVE role' = role
  <2>1. CASE \/ StaffReadRole(r) \/ StartReadActive(r) \/ StartReadMembers(r)
             \/ StartReadExcluded(r) \/ StartReadEligible(r) \/ StartSave(r)
    BY <2>1 DEF StaffReadRole, StartReadActive, StartReadMembers, StartReadExcluded,
       StartReadEligible, StartSave, ContinueIf, Continue, Refuse, data
  <2>2. CASE \/ FinalizeReadRound(r) \/ FinalizeReadEntries(r) \/ FinalizeDraw(r)
             \/ FinalizeVote(r)
    BY <2>2 DEF FinalizeReadRound, FinalizeReadEntries, FinalizeDraw, FinalizeVote,
       ContinueIf, Continue, Refuse, data
  <2>3. CASE \/ FinishReadSeat(r) \/ FinishReadRound(r) \/ FinishReadMembers(r)
             \/ FinishBegin(r) \/ FinishCommit(r) \/ FinishUpsertRead(r)
    BY <2>3 DEF FinishReadSeat, FinishReadRound, FinishReadMembers, FinishBegin,
       FinishCommit, FinishUpsertRead, ContinueIf, Continue, Refuse, data
  <2>4. CASE \/ SuggestReadOpen(r) \/ SuggestAdd(r) \/ RemoveReadEntry(r)
             \/ RemoveReadRole(r) \/ RemoveReadLock(r) \/ RemoveDelete(r)
    BY <2>4 DEF SuggestReadOpen, SuggestAdd, RemoveReadEntry, RemoveReadRole,
       RemoveReadLock, RemoveDelete, ContinueIf, Continue, Refuse, data
  <2> QED BY <1>1, <2>1, <2>2, <2>3, <2>4 DEF Step
<1>2. ASSUME NEW r \in Reqs, NEW call \in Calls, Arrive(r, call) PROVE role' = role
  BY <1>2 DEF Arrive, data
<1>3. ASSUME NEW r \in Reqs, Abort(r) PROVE role' = role
  BY <1>3 DEF Abort, Refuse, data
<1>4. ASSUME NEW u \in Users PROVE ~Join(u) /\ ~Depart(u) /\ ~ChangeRole(u)
  BY DEF Join, Depart, ChangeRole, FixedRoster, RosterOps
<1>5. CASE UNCHANGED vars
  BY <1>5 DEF vars
<1> QED BY <1>1, <1>2, <1>3, <1>4, <1>5 DEF Next

(* Where a completion comes from.                                          *)
LEMMA DoneFrom ==
    ASSUME IInv, [Next]_vars, NEW k \in RoundIds
    PROVE  \/ done'[k] = done[k]
           \/ \E r \in Reqs : /\ req[r] # NULL /\ req[r].pc = "commit"
                              /\ done'[k] = done[k] \cup {Caller(r)}
<1>1. CASE UNCHANGED <<rounds, done>>
  BY <1>1
<1>2. ASSUME NEW r \in Reqs, StartSave(r) \/ FinalizeDraw(r) \/ FinalizeVote(r)
      PROVE  done'[k] = done[k]
  BY <1>2 DEF StartSave, FinalizeDraw, FinalizeVote, Refuse, data
<1>3. ASSUME NEW r \in Reqs, FinishCommit(r)
      PROVE  \/ done'[k] = done[k]
             \/ /\ req[r] # NULL /\ req[r].pc = "commit"
                /\ done'[k] = done[k] \cup {Caller(r)}
  <2>1. CASE UNCHANGED data
    BY <2>1 DEF data
  <2>2. CASE CommitOf(r, req[r].local.round)
    <3>1. PICK j : j = req[r].local.round /\ CommitOf(r, j)
      BY <2>2
    <3>2. done'[k] = IF k = j THEN done[k] \cup {Caller(r)} ELSE done[k]
      BY <3>1 DEF CommitOf, IInv, TypeOK
    <3> QED BY <1>3, <3>2 DEF FinishCommit, At
  <2> QED BY <1>3, <2>1, <2>2, CommitShape
<1> QED BY <1>1, <1>2, <1>3, WhoWrites DEF Writes

(* A finished book was the book of a round that was finished, or decided.  *)
LEMMA ConcludedFrom ==
    ASSUME IInv, [Next]_vars, NEW k \in RoundIds, rounds'[k].status = "CONCLUDED"
    PROVE  /\ rounds[k].status \in {"DECIDED", "CONCLUDED"}
           /\ rounds'[k].book = rounds[k].book
<1>1. Flows(rounds[k], rounds'[k])
  BY AllFlow
<1>2. rounds[k].status \in {"DECIDED", "CONCLUDED"}
  BY <1>1 DEF Flows
<1>3. rounds[k].book # NULL
  BY <1>2 DEF IInv, RoundsOK, Decided
<1> QED BY <1>1, <1>2, <1>3 DEF Flows

(* With every finisher a member, the majority rule excludes all of them.   *)
LEMMA ExcludedAll ==
    ASSUME IInv, FixedRoster, FinishersOK
    PROVE  FinishedBooks \subseteq Excluded(Members)
<1> SUFFICES ASSUME NEW k \in Concluded PROVE rounds[k].book \in Excluded(Members)
  BY DEF FinishedBooks
<1>1. k \in RoundIds /\ done[k] = Members /\ Members # {} /\ Members \subseteq Users
  BY DEF FinishersOK, Concluded, Members
<1>2. IsFiniteSet(Members)
  BY <1>1, FS_Subset DEF FixedRoster
<1>3. Cardinality(Members) \in Nat /\ Cardinality(Members) # 0
  BY <1>1, <1>2, FS_CardinalityType, FS_EmptySet
<1>4. done[k] \cap Members = done[k]
  BY <1>1
<1>5. PICK n \in Nat : n = Cardinality(Members) /\ 2 * n > n
  BY <1>3
<1>6. 2 * Cardinality(done[k] \cap Members) > Cardinality(done[k])
  BY <1>1, <1>4, <1>5
<1> QED BY <1>1, <1>6 DEF Excluded

(* How a request knows it, once it has read it.                            *)
LEMMA ReaderStep ==
    ASSUME IInv, FixedRoster, ReadersInv, [Next]_vars,
           NEW r \in Reqs, NEW q, q = req'[r], q # NULL, Typed(q)
    PROVE  ReaderFacts(q)
<1>1. CASE req[r] # NULL /\ q = req[r]
  BY <1>1 DEF ReadersInv
<1>2. CASE req[r] # NULL /\ Follows(req[r], q)
  <2>1. PICK p : p = req[r] /\ ReaderFacts(p) /\ Follows(p, q)
    BY <1>2 DEF ReadersInv
  <2>2. q.pc \in {"decided", "roster", "begin", "commit"} => q.call.caller \in Members
    BY <2>1, LocalType DEF ReaderFacts, Follows, Members
  <2>3. q.pc \in {"begin", "commit"} => q.local.members = Members
    BY <2>1 DEF ReaderFacts, Follows
  <2>4. q.pc = "excluded" => q.local = Members
    BY <2>1 DEF Follows
  <2>5. q.pc = "eligible" => FinishedBooks \subseteq q.local
    BY <2>1, ExcludedAll DEF ReaderFacts, Follows, ReadersInv
  <2>6. q.pc = "save" => Locked(q.local) \cap FinishedBooks = {}
    BY <2>1 DEF ReaderFacts, Follows
  <2> QED BY <2>2, <2>3, <2>4, <2>5, <2>6 DEF ReaderFacts
<1>3. CASE q.pc \in {"staff", "seat", "open", "entry"}
  BY <1>3 DEF ReaderFacts
<1> QED BY <1>1, <1>2, <1>3, ProgramOrder

(* Finishers are members, and a finished round was finished by all.        *)
LEMMA FinishersKept ==
    ASSUME IInv, IInv', FixedRoster, ReadersInv, [Next]_vars
    PROVE  FinishersOK'
<1>1. Members' = Members
  BY RosterKept DEF Members
<1>2. ASSUME NEW k \in RoundIds
      PROVE  done[k] \subseteq done'[k] /\ done'[k] \subseteq Members
  <2>1. ASSUME NEW r \in Reqs, req[r] # NULL, req[r].pc = "commit"
        PROVE  Caller(r) \in Members
    BY <2>1 DEF ReadersInv, ReaderFacts, Caller
  <2> QED BY <2>1, DoneFrom DEF ReadersInv, FinishersOK
<1>3. ASSUME NEW k \in RoundIds, rounds'[k].status = "CONCLUDED"
      PROVE  Members \subseteq done'[k] /\ Members # {}
  <2>1. CASE rounds[k].status = "CONCLUDED"
    BY <1>2, <2>1 DEF ReadersInv, FinishersOK, Concluded
  <2>2. CASE rounds[k].status = "DECIDED"
    <3>1. ~StaleList(k)
      BY DEF StaleList, At, ReadersInv, ReaderFacts
    <3>2. Members \subseteq done'[k]
      BY <1>3, <2>2, <3>1, ConcludesExactly
    <3>3. rounds[k].book # NULL /\ rounds'[k] # rounds[k]
      BY <1>3, <2>2 DEF IInv, RoundsOK, Decided
    <3>4. PICK r \in Reqs : At(r, "commit")
      BY <3>3, DecidedStays
    <3>5. Caller(r) \in Members
      BY <3>4 DEF At, ReadersInv, ReaderFacts, Caller
    <3> QED BY <3>2, <3>5
  <2> QED BY <1>3, <2>1, <2>2, ConcludedFrom
<1> QED BY <1>1, <1>2, <1>3 DEF FinishersOK, Concluded

(* The invariant is kept as long as starts do not overlap.                 *)
LEMMA ReadersKept ==
    ASSUME IInv, IInv', FixedRoster, OneRoundInv, ReadersInv, [Next]_vars,
           Alone({"start"}), Alone({"start"})'
    PROVE  ReadersInv'
<1>1. FinishersOK' /\ Members' = Members
  BY FinishersKept, RosterKept DEF Members
<1>2. ASSUME NEW r \in Reqs, NEW q, q = req'[r], q # NULL
      PROVE  ReaderFacts(q) /\ (q.pc \in StartPcs => q.call.op = "start")
  <2>1. Typed(q)
    BY <1>2 DEF IInv, TypeOK, Typed
  <2>2. OneRoundInv'
    BY OneRoundKept
  <2> QED BY <1>2, <2>1, <2>2, ReaderStep DEF OneRoundInv, StartFacts
<1>3. ASSUME FinishedBooks' \subseteq FinishedBooks, NEW r \in Reqs, NEW q, q = req'[r], q # NULL
      PROVE  ReaderFacts(q)'
  BY <1>1, <1>2, <1>3 DEF ReaderFacts, Locked
<1>4. CASE \A r \in Reqs : ~StartSave(r)
  <2>1. \A k \in Active' : k \in Active /\ Locked(rounds'[k]) = Locked(rounds[k])
    BY <1>4, ActiveKept DEF Active
  <2>2. CASE \E k \in Active : rounds'[k].status = "CONCLUDED"
    <3>1. Active' = {} /\ Active # {}
      BY <2>1, <2>2 DEF OneRoundInv, OneActiveRound, Active, ActiveStatuses
    <3>2. ASSUME NEW r \in Reqs, NEW q, q = req'[r], q # NULL
          PROVE  ReaderFacts(q)'
      <4>1. OneRoundInv' /\ ReaderFacts(q)
        BY <1>2, <3>2, OneRoundKept
      <4>2. CASE q.pc \in {"eligible", "save"}
        <5>1. PICK p : p = req[r] /\ p # NULL /\ p.pc \in {"excluded", "eligible", "save"}
          BY <3>2, <4>2, ProgramOrder DEF Follows
        <5>2. Active = {}
          BY <5>1 DEF OneRoundInv, StartFacts, StartPcs
        <5> QED BY <3>1, <5>2
      <4> QED BY <1>1, <4>1, <4>2 DEF ReaderFacts
    <3>3. \A r \in Reqs : req'[r] # NULL => ReaderFacts(req[r])'
      BY <3>2 DEF ReaderFacts
    <3> QED BY <1>1, <3>1, <3>3 DEF ReadersInv, NoSecondReading
  <2>3. CASE \A k \in Active : rounds'[k].status # "CONCLUDED"
    <3>1. \A k \in RoundIds : rounds'[k].status = "CONCLUDED" =>
             rounds[k].status = "CONCLUDED" /\ rounds'[k].book = rounds[k].book
      BY <2>3, ConcludedFrom DEF Active, ActiveStatuses
    <3>2. FinishedBooks' \subseteq FinishedBooks
      BY <3>1 DEF FinishedBooks, Concluded
    <3>3. NoSecondReading'
      BY <2>1, <3>1 DEF ReadersInv, NoSecondReading, Locked
    <3>4. \A r \in Reqs : req'[r] # NULL => ReaderFacts(req[r])'
      BY <1>3, <3>2 DEF ReaderFacts
    <3> QED BY <1>1, <3>3, <3>4 DEF ReadersInv
  <2> QED BY <2>2, <2>3
<1>5. ASSUME NEW s \in Reqs, StartSave(s)
      PROVE  ReadersInv'
  <2>1. req[s] # NULL /\ req[s].pc = "save" /\ Active = {}
    BY <1>5 DEF StartSave, At, OneRoundInv, StartFacts, StartPcs
  <2>2. PICK j \in RoundIds : Active' = {j} /\ rounds'[j] = req[s].local
    BY <1>5, SaveAlone
  <2>3. \A k \in RoundIds : rounds'[k].status = "CONCLUDED" =>
           rounds[k].status = "CONCLUDED" /\ rounds'[k].book = rounds[k].book
    BY <2>1, ConcludedFrom DEF Active, ActiveStatuses
  <2>4. FinishedBooks' \subseteq FinishedBooks
    BY <2>3 DEF FinishedBooks, Concluded
  <2>5. Locked(rounds'[j]) \cap FinishedBooks = {}
    BY <2>1, <2>2 DEF ReadersInv, ReaderFacts
  <2>6. NoSecondReading'
    BY <2>2, <2>3, <2>5 DEF NoSecondReading, FinishedBooks, Concluded, Locked
  <2>7. \A r \in Reqs : req'[r] # NULL => ReaderFacts(req[r])'
    BY <1>3, <2>4 DEF ReaderFacts
  <2> QED BY <1>1, <2>6, <2>7 DEF ReadersInv
<1> QED BY <1>4, <1>5

(* No round, no completion and no request at first.                        *)
LEMMA ReadersInitially == Init => ReadersInv
BY DEF Init, ReadersInv, FinishersOK, NoSecondReading, Active, Concluded, ActiveStatuses, Unused

(* In a club whose roster stays as it is, a book the club has finished     *)
(* never comes up again, neither drawn nor as a candidate, as long as      *)
(* starts do not overlap: find_majority_excluded_book_ids.                 *)
THEOREM NothingReadTwice ==
    ASSUME FixedRoster
    PROVE  Spec /\ []Alone({"start"}) => []NoSecondReading
<1>1. IInv /\ IInv' /\ OneRoundInv /\ ReadersInv /\ [Next]_vars
        /\ Alone({"start"}) /\ Alone({"start"})' => ReadersInv'
  BY ReadersKept
<1>2. ReadersInv => NoSecondReading
  BY DEF ReadersInv
<1> QED BY <1>1, <1>2, ReadersInitially, Invariance, OneRoundInvariance, PTL DEF Spec

(* When requests are served one at a time, none of the rules is broken.    *)
COROLLARY SerialRounds ==
    ASSUME \A r1, r2 \in Reqs : r1 = r2
    PROVE  /\ Spec => []OneActiveRound
           /\ Spec => []LockHonoured
           /\ FixedRoster => (Spec => []NoSecondReading)
<1>1. Alone({"start"}) /\ Alone({"start", "remove"})
  BY DEF Alone
<1>2. Spec => []OneActiveRound
  BY <1>1, OneRoundAtATime, PTL
<1>3. Spec => []LockHonoured
  BY <1>1, LocksAreHonoured, PTL
<1>4. ASSUME FixedRoster PROVE Spec => []NoSecondReading
  <2>1. Spec /\ []Alone({"start"}) => []NoSecondReading
    BY <1>4, NothingReadTwice
  <2> QED BY <1>1, <2>1, PTL
<1> QED BY <1>2, <1>3, <1>4
=============================================================================
