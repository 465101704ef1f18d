-------------------------- MODULE SearchSyncProofs --------------------------
(***************************************************************************)
(* Theorems about SearchSync, for any documents, writers and attempts.     *)
(***************************************************************************)
EXTENDS SearchSync, TLAPS

(* Write numbers never run ahead of the database, and a write that is not  *)
(* registered yet is neither pending nor part of the query under way: this *)
(* is what makes the number of a write stand for the identity of an entry. *)
Fresh ==
    /\ \A d \in Docs : pending[d] =< stored[d] /\ task.snapshot[d] =< stored[d]
    /\ \A w \in Writers : writer[w].at = "wrote" =>
          /\ 0 < writer[w].version /\ writer[w].version =< stored[writer[w].doc]
          /\ writer[w].version # pending[writer[w].doc]
          /\ writer[w].version # task.snapshot[writer[w].doc]
    /\ \A w, x \in Writers :
          writer[w].at = "wrote" /\ writer[x].at = "wrote"
            /\ writer[w].doc = writer[x].doc /\ w # x
                => writer[w].version # writer[x].version

(* Waiters are on file, and pending documents are polled for.              *)
Filed ==
    /\ \A w \in Writers : Waits(w) =>
          w \in waiters[writer[w].doc] /\ pending[writer[w].doc] # 0
    /\ \A d \in Docs : pending[d] # 0 => task.at # "none"

(* Between the dispatch of a query and the use of its answer: an entry     *)
(* that has not been replaced has no waiter newer than the query, and a    *)
(* match was in the index.                                                 *)
Asked ==
    /\ task.at \in {"query", "answer"} =>
          \A w \in Writers :
              Waits(w) /\ pending[writer[w].doc] = task.snapshot[writer[w].doc]
                  => w \in task.asked
    /\ task.at = "answer" =>
          \A d \in task.matched : task.snapshot[d] =< indexed[d]

SInv == TypeOK /\ Fresh /\ Filed /\ Asked

(* Nothing waits before the first write.                                   *)
LEMMA InitSInv == Init => SInv
<1> SUFFICES ASSUME Init PROVE SInv
  OBVIOUS
<1>1. TypeOK
  BY DEF Init, TypeOK, NoTask, Task, NoEntries, WriterStates, TaskStates
<1>2. /\ \A d \in Docs : pending[d] = 0 /\ stored[d] = 0 /\ task.snapshot[d] = 0
      /\ \A w \in Writers : writer[w].at = "idle"
      /\ task.at = "none"
  BY DEF Init, NoTask, Task, NoEntries
<1> QED BY <1>1, <1>2 DEF SInv, Fresh, Filed, Asked, Waits

(* A writer that moves on keeps its write.                                 *)
LEMMA MovedType ==
    ASSUME TypeOK, NEW w \in Writers, NEW at \in WriterStates
    PROVE  /\ Moved(w, at) \in [at : WriterStates, doc : Docs, version : Nat]
           /\ Moved(w, at).at = at
           /\ Moved(w, at).doc = writer[w].doc
           /\ Moved(w, at).version = writer[w].version
<1>1. writer[w] \in [at : WriterStates, doc : Docs, version : Nat]
  BY DEF TypeOK
<1> QED BY <1>1 DEF Moved

(* Resolving futures only changes where their writers are.                 *)
LEMMA ResolvedType ==
    ASSUME TypeOK, NEW found, NEW lost, writer' = Resolved(found, lost)
    PROVE  /\ writer' \in [Writers -> [at : WriterStates, doc : Docs, version : Nat]]
           /\ \A w \in Writers :
                /\ writer'[w].doc = writer[w].doc
                /\ writer'[w].version = writer[w].version
                /\ writer'[w].at = IF OnFile(w, found) THEN "ok"
                                   ELSE IF OnFile(w, lost) THEN "failed" ELSE writer[w].at
<1>1. "ok" \in WriterStates /\ "failed" \in WriterStates
  BY DEF WriterStates
<1>2. \A w \in Writers : writer[w] \in [at : WriterStates, doc : Docs, version : Nat]
  BY DEF TypeOK
<1> QED BY <1>1, <1>2, MovedType DEF Resolved

(* Everything but the steps of the group: writes, indexing, registration,  *)
(* cancellation.                                                           *)
LEMMA WriteKeeps ==
    ASSUME SInv, NEW w \in Writers, NEW d \in Docs, Write(w, d)
    PROVE  SInv'
<1>1. /\ writer[w].at \in {"idle", "ok", "failed"}
      /\ stored' = [stored EXCEPT ![d] = @ + 1]
      /\ writer' = [writer EXCEPT ![w] = [at |-> "wrote", doc |-> d, version |-> stored[d] + 1]]
      /\ UNCHANGED <<indexed, pending, waiters, task>>
      /\ stored[d] \in Nat
  BY DEF Write, SInv, TypeOK
<1>2. TypeOK'
  <2>1. stored' \in [Docs -> Nat]
    BY <1>1 DEF SInv, TypeOK
  <2>2. [at |-> "wrote", doc |-> d, version |-> stored[d] + 1]
            \in [at : WriterStates, doc : Docs, version : Nat]
    BY <1>1 DEF WriterStates
  <2>3. writer' \in [Writers -> [at : WriterStates, doc : Docs, version : Nat]]
    BY <1>1, <2>2 DEF SInv, TypeOK
  <2> QED BY <1>1, <2>1, <2>3 DEF SInv, TypeOK
<1>3. /\ writer'[w].at = "wrote" /\ writer'[w].doc = d /\ writer'[w].version = stored[d] + 1
      /\ \A x \in Writers \ {w} : writer'[x] = writer[x]
      /\ \A e \in Docs : stored'[e] = IF e = d THEN stored[d] + 1 ELSE stored[e]
  BY <1>1 DEF SInv, TypeOK
<1>4. Fresh'
  <2> USE <1>1, <1>3 DEF SInv, TypeOK, Fresh
  <2>1. \A e \in Docs : pending'[e] =< stored'[e] /\ task'.snapshot[e] =< stored'[e]
    OBVIOUS
  <2>2. ASSUME NEW x \in Writers, writer'[x].at = "wrote"
        PROVE  /\ 0 < writer'[x].version /\ writer'[x].version =< stored'[writer'[x].doc]
               /\ writer'[x].version # pending'[writer'[x].doc]
               /\ writer'[x].version # task'.snapshot[writer'[x].doc]
    <3>1. CASE x = w
      BY <3>1
    <3>2. CASE x # w
      BY <2>2, <3>2
    <3> QED BY <3>1, <3>2
  <2>3. ASSUME NEW x \in Writers, NEW y \in Writers, writer'[x].at = "wrote", writer'[y].at = "wrote",
               writer'[x].doc = writer'[y].doc, x # y
        PROVE  writer'[x].version # writer'[y].version
    <3>1. CASE x = w
      BY <2>3, <3>1
    <3>2. CASE y = w
      BY <2>3, <3>2
    <3>3. CASE x # w /\ y # w
      BY <2>3, <3>3
    <3> QED BY <3>1, <3>2, <3>3
  <2> QED BY <2>1, <2>2, <2>3
<1>5. Filed'
  BY <1>1, <1>3 DEF SInv, Filed, Waits
<1>6. Asked'
  BY <1>1, <1>3 DEF SInv, Asked, Waits
<1> QED BY <1>2, <1>4, <1>5, <1>6 DEF SInv

(* Indexing only makes matches more recent.                                *)
LEMMA IndexKeeps ==
    ASSUME SInv, NEW d \in Docs, Index(d)
    PROVE  SInv'
<1>1. /\ \A e \in Docs : indexed[e] =< indexed'[e]
      /\ indexed' \in [Docs -> Nat]
      /\ UNCHANGED <<stored, writer, pending, waiters, task>>
  BY DEF Index, SInv, TypeOK
<1>2. TypeOK'
  BY <1>1 DEF SInv, TypeOK
<1>3. Fresh' /\ Filed'
  BY <1>1 DEF SInv, Fresh, Filed, Waits
<1>4. Asked'
  BY <1>1 DEF SInv, Asked, Waits, TypeOK
<1> QED BY <1>2, <1>3, <1>4 DEF SInv

(* A registration replaces the entry of its document by one that no query  *)
(* under way has seen.                                                     *)
LEMMA RegisterKeeps ==
    ASSUME SInv, NEW w \in Writers, Register(w)
    PROVE  SInv'
<1> DEFINE d == writer[w].doc
<1>1. d \in Docs /\ writer[w].version \in Nat /\ "waiting" \in WriterStates
  BY DEF SInv, TypeOK, WriterStates
<1>2. /\ writer[w].at = "wrote"
      /\ writer' = [writer EXCEPT ![w] = Moved(w, "waiting")]
      /\ pending' = [pending EXCEPT ![d] = writer[w].version]
      /\ waiters' = [waiters EXCEPT ![d] = @ \cup {w}]
      /\ task' = IF task.at = "none" THEN NewTask ELSE task
      /\ UNCHANGED <<stored, indexed>>
  BY DEF Register, GoTo
<1>3. /\ writer'[w].at = "waiting" /\ writer'[w].doc = d
      /\ \A x \in Writers \ {w} : writer'[x] = writer[x]
      /\ writer' \in [Writers -> [at : WriterStates, doc : Docs, version : Nat]]
  BY <1>1, <1>2, MovedType DEF SInv, TypeOK
<1>4. /\ pending'[d] = writer[w].version
      /\ \A e \in Docs \ {d} : pending'[e] = pending[e]
      /\ pending' \in [Docs -> Nat]
      /\ waiters' \in [Docs -> SUBSET Writers]
      /\ waiters'[d] = waiters[d] \cup {w}
      /\ \A e \in Docs \ {d} : waiters'[e] = waiters[e]
  BY <1>1, <1>2 DEF SInv, TypeOK
<1>5. /\ task' \in [at : TaskStates, attempt : Nat, snapshot : [Docs -> Nat],
                    asked : SUBSET Writers, matched : SUBSET Docs]
      /\ task'.at # "none"
      /\ \/ task' = task
         \/ task'.at = "tick" /\ \A e \in Docs : task'.snapshot[e] = 0
  BY <1>2 DEF SInv, TypeOK, NewTask, Task, NoEntries, TaskStates
<1>6. TypeOK'
  BY <1>2, <1>3, <1>4, <1>5 DEF SInv, TypeOK
<1>7. Fresh'
  <2>1. \A e \in Docs : pending'[e] =< stored'[e] /\ task'.snapshot[e] =< stored'[e]
    BY <1>1, <1>2, <1>4, <1>5 DEF SInv, TypeOK, Fresh
  <2>2. ASSUME NEW x \in Writers, writer'[x].at = "wrote"
        PROVE  /\ 0 < writer'[x].version /\ writer'[x].version =< stored'[writer'[x].doc]
               /\ writer'[x].version # pending'[writer'[x].doc]
               /\ writer'[x].version # task'.snapshot[writer'[x].doc]
    <3>1. x # w /\ writer'[x] = writer[x] /\ writer[x].doc \in Docs /\ writer[x].version \in Nat
      BY <1>3, <2>2 DEF SInv, TypeOK
    <3>2. writer[x].doc = d => writer[x].version # writer[w].version
      BY <1>2, <2>2, <3>1 DEF SInv, Fresh
    <3> QED BY <1>2, <1>4, <1>5, <2>2, <3>1, <3>2 DEF SInv, Fresh
  <2>3. ASSUME NEW x \in Writers, NEW y \in Writers, writer'[x].at = "wrote", writer'[y].at = "wrote",
               writer'[x].doc = writer'[y].doc, x # y
        PROVE  writer'[x].version # writer'[y].version
    BY <1>3, <2>3 DEF SInv, Fresh
  <2> QED BY <2>1, <2>2, <2>3 DEF Fresh
<1>8. Filed'
  <2>1. ASSUME NEW x \in Writers, Waits(x)'
        PROVE  x \in waiters'[writer'[x].doc] /\ pending'[writer'[x].doc] # 0
    <3>1. CASE x = w
      BY <1>1, <1>2, <1>3, <1>4, <3>1 DEF SInv, Fresh
    <3>2. CASE x # w
      <4>1. writer'[x] = writer[x] /\ Waits(x) /\ writer[x].doc \in Docs
        BY <1>3, <2>1, <3>2 DEF Waits, SInv, TypeOK
      <4> QED BY <1>1, <1>2, <1>4, <4>1 DEF SInv, Filed, Fresh
    <3> QED BY <3>1, <3>2
  <2> QED BY <1>5, <2>1 DEF Filed
<1>9. Asked'
  <2>1. ASSUME task'.at \in {"query", "answer"}, NEW x \in Writers, Waits(x)',
               pending'[writer'[x].doc] = task'.snapshot[writer'[x].doc]
        PROVE  x \in task'.asked
    <3>1. task' = task /\ writer'[x].doc # d
      BY <1>1, <1>2, <1>4, <1>5, <2>1 DEF SInv, Fresh
    <3>2. x # w /\ writer'[x] = writer[x] /\ writer[x].doc \in Docs
      BY <1>3, <3>1 DEF SInv, TypeOK
    <3> QED BY <1>4, <2>1, <3>1, <3>2 DEF SInv, Asked, Waits
  <2>2. ASSUME task'.at = "answer", NEW e \in task'.matched
        PROVE  task'.snapshot[e] =< indexed'[e]
    BY <1>2, <1>5, <2>2 DEF SInv, Asked
  <2> QED BY <2>1, <2>2 DEF Asked
<1> QED BY <1>6, <1>7, <1>8, <1>9 DEF SInv

(* A cancelled writer stops waiting; nobody else notices.                  *)
LEMMA CancelKeeps ==
    ASSUME SInv, NEW w \in Writers, Cancel(w)
    PROVE  SInv'
<1>1. /\ writer' = [writer EXCEPT ![w] = Moved(w, "idle")]
      /\ waiters' = [d \in Docs |-> waiters[d] \ {w}]
      /\ UNCHANGED <<stored, indexed, pending, task>>
      /\ "idle" \in WriterStates
  BY DEF Cancel, GoTo, WriterStates
<1>2. /\ writer'[w].at = "idle"
      /\ \A x \in Writers \ {w} : writer'[x] = writer[x]
      /\ writer' \in [Writers -> [at : WriterStates, doc : Docs, version : Nat]]
  BY <1>1, MovedType DEF SInv, TypeOK
<1>3. /\ waiters' \in [Docs -> SUBSET Writers]
      /\ \A d \in Docs : waiters'[d] = waiters[d] \ {w}
  BY <1>1 DEF SInv, TypeOK
<1>4. TypeOK'
  BY <1>1, <1>2, <1>3 DEF SInv, TypeOK
<1>5. Fresh'
  BY <1>1, <1>2 DEF SInv, Fresh
<1>6. Filed'
  BY <1>1, <1>2, <1>3 DEF SInv, Filed, Waits, TypeOK
<1>7. Asked'
  BY <1>1, <1>2 DEF SInv, Asked, Waits
<1> QED BY <1>4, <1>5, <1>6, <1>7 DEF SInv
-----------------------------------------------------------------------------
(* The steps of the group that resolve nobody.                             *)
LEMMA PollKeeps ==
    ASSUME SInv, Dispatch \/ Evaluate \/ Wake
    PROVE  SInv'
<1>1. /\ UNCHANGED <<stored, indexed, writer, pending, waiters>>
      /\ task.at # "none" /\ task'.at # "none"
      /\ \/ Dispatch
         \/ task'.snapshot = task.snapshot /\ task'.asked = task.asked
  BY DEF Dispatch, Evaluate, Wake, Task, TaskTo
<1>2. TypeOK'
  <2>1. task' \in [at : TaskStates, attempt : Nat, snapshot : [Docs -> Nat],
                   asked : SUBSET Writers, matched : SUBSET Docs]
    BY DEF Dispatch, Evaluate, Wake, Task, TaskTo, SInv, TypeOK, TaskStates
  <2> QED BY <1>1, <2>1 DEF SInv, TypeOK
<1>3. Dispatch => task'.at = "query" /\ task'.snapshot = pending
                    /\ task'.asked = UNION {waiters[d] : d \in Docs}
  BY DEF Dispatch, Task
<1>4. Fresh'
  BY <1>1, <1>3 DEF SInv, Fresh
<1>5. Filed'
  BY <1>1 DEF SInv, Filed, Waits
<1>6. Asked'
  <2>1. CASE Dispatch
    <3>1. ASSUME NEW w \in Writers, Waits(w) PROVE w \in task'.asked
      BY <1>3, <2>1, <3>1 DEF SInv, Filed, TypeOK
    <3> QED BY <1>1, <1>3, <2>1, <3>1 DEF Asked, Waits
  <2>2. CASE Evaluate
    <3>1. /\ task.at = "query" /\ task'.at = "answer" /\ task'.snapshot = task.snapshot
          /\ task'.asked = task.asked
          /\ \A d \in task'.matched : indexed[d] = task.snapshot[d] /\ d \in Docs
      BY <2>2 DEF Evaluate, Task
    <3>2. \A d \in Docs : indexed[d] \in Nat
      BY DEF SInv, TypeOK
    <3> QED BY <1>1, <3>1, <3>2 DEF SInv, Asked, Waits
  <2>3. CASE Wake
    BY <2>3 DEF Wake, Task, TaskTo, Asked
  <2> QED BY <2>1, <2>2, <2>3
<1> QED BY <1>2, <1>4, <1>5, <1>6 DEF SInv

(* What the steps that resolve futures have in common: an entry that goes  *)
(* is one whose waiters are told, and a group that ends leaves no entry.   *)
Resolution(found, lost) ==
    /\ writer' = Resolved(found, lost)
    /\ UNCHANGED <<stored, indexed>>
    /\ pending' \in [Docs -> Nat] /\ waiters' \in [Docs -> SUBSET Writers]
    /\ task' \in [at : TaskStates, attempt : Nat, snapshot : [Docs -> Nat],
                  asked : SUBSET Writers, matched : SUBSET Docs]
    /\ task'.at \in {"none", "sleep"}
    /\ \A d \in Docs : task'.snapshot[d] \in {0, task.snapshot[d]}
    /\ \A d \in Docs : \/ pending'[d] = pending[d] /\ waiters'[d] = waiters[d]
                       \/ pending'[d] = 0 /\ (pending[d] = 0 \/ d \in found \cup lost)
    /\ \A d \in Docs : pending'[d] # 0 => task'.at # "none"

(* Such a step leaves nobody waiting without an entry.                     *)
LEMMA ResolveKeeps ==
    ASSUME SInv, NEW found, NEW lost, Resolution(found, lost)
    PROVE  SInv'
<1> USE DEF Resolution
<1>1. /\ \A w \in Writers :
           /\ writer'[w].doc = writer[w].doc
           /\ writer'[w].version = writer[w].version
           /\ writer'[w].at = "wrote" => writer[w].at = "wrote"
           /\ Waits(w)' => Waits(w) /\ ~OnFile(w, found \cup lost)
           /\ writer[w].doc \in Docs /\ writer[w].version \in Nat
      /\ writer' \in [Writers -> [at : WriterStates, doc : Docs, version : Nat]]
  BY ResolvedType DEF SInv, Waits, OnFile, TypeOK
<1>2. TypeOK'
  BY <1>1 DEF SInv, TypeOK
<1>3. Fresh'
  <2>1. \A d \in Docs : /\ stored'[d] = stored[d]
                        /\ pending'[d] \in {0, pending[d]}
                        /\ task'.snapshot[d] \in {0, task.snapshot[d]}
                        /\ stored[d] \in Nat /\ pending[d] \in Nat /\ task.snapshot[d] \in Nat
    BY DEF SInv, TypeOK
  <2> HIDE DEF Resolution
  <2> QED BY <1>1, <2>1 DEF SInv, Fresh
<1>4. Filed'
  <2>1. ASSUME NEW w \in Writers, Waits(w)'
        PROVE  w \in waiters'[writer'[w].doc] /\ pending'[writer'[w].doc] # 0
    <3>1. /\ Waits(w) /\ writer[w].doc \in Docs /\ writer'[w].doc = writer[w].doc
          /\ w \in waiters[writer[w].doc] /\ pending[writer[w].doc] # 0
          /\ writer[w].doc \notin found \cup lost
      BY <1>1, <2>1 DEF SInv, Filed, OnFile, Waits
    <3> QED BY <3>1
  <2> QED BY <2>1 DEF Filed
<1>5. Asked'
  BY DEF Asked
<1> QED BY <1>2, <1>3, <1>4, <1>5 DEF SInv

(* Failing, finishing, retrying and giving up all resolve that way.        *)
LEMMA AnswerKeeps ==
    ASSUME SInv, QueryFails \/ Finish \/ Retry \/ GiveUp
    PROVE  SInv'
<1>1. /\ NoTask \in [at : TaskStates, attempt : Nat, snapshot : [Docs -> Nat],
                     asked : SUBSET Writers, matched : SUBSET Docs]
      /\ NoTask.at = "none" /\ \A d \in Docs : NoTask.snapshot[d] = 0
      /\ NoEntries \in [Docs -> Nat] /\ \A d \in Docs : NoEntries[d] = 0
  BY DEF NoTask, Task, NoEntries, TaskStates
<1>2. Settled \subseteq Docs /\ Unsettled \subseteq Docs
  BY DEF Settled, Unsettled, SInv, TypeOK
<1>3. CASE QueryFails
  <2>1. /\ writer' = Resolved({}, Docs) /\ pending' = NoEntries /\ task' = NoTask
        /\ waiters' = [d \in Docs |-> {}] /\ UNCHANGED <<stored, indexed>>
    BY <1>3 DEF QueryFails
  <2>2. Resolution({}, Docs)
    BY <1>1, <2>1 DEF Resolution
  <2> QED BY <2>2, ResolveKeeps
<1>4. CASE Finish
  <2>1. /\ writer' = Resolved(Settled, {}) /\ task' = NoTask /\ UNCHANGED <<stored, indexed>>
        /\ pending' = [d \in Docs |-> IF d \in Settled THEN 0 ELSE pending[d]]
        /\ waiters' = [d \in Docs |-> IF d \in Settled THEN {} ELSE waiters[d]]
        /\ Unsettled = {}
    BY <1>4 DEF Finish, SettleOnly
  <2>2. /\ pending' \in [Docs -> Nat] /\ waiters' \in [Docs -> SUBSET Writers]
        /\ \A d \in Docs : pending'[d] = 0
    BY <2>1 DEF Unsettled, SInv, TypeOK
  <2>3. Resolution(Settled, {})
    BY <1>1, <2>1, <2>2 DEF Resolution
  <2> QED BY <2>3, ResolveKeeps
<1>5. CASE Retry
  <2>1. /\ writer' = Resolved(Settled, {}) /\ UNCHANGED <<stored, indexed>>
        /\ pending' = [d \in Docs |-> IF d \in Settled THEN 0 ELSE pending[d]]
        /\ waiters' = [d \in Docs |-> IF d \in Settled THEN {} ELSE waiters[d]]
        /\ task' = Task("sleep", task.attempt + 1, task.snapshot, task.asked, task.matched)
    BY <1>5 DEF Retry, SettleOnly
  <2>2. /\ pending' \in [Docs -> Nat] /\ waiters' \in [Docs -> SUBSET Writers]
    BY <2>1 DEF SInv, TypeOK
  <2>3. /\ task' \in [at : TaskStates, attempt : Nat, snapshot : [Docs -> Nat],
                      asked : SUBSET Writers, matched : SUBSET Docs]
        /\ task'.at = "sleep" /\ task'.snapshot = task.snapshot
    BY <2>1 DEF Task, SInv, TypeOK, TaskStates
  <2>4. \A d \in Docs : \/ pending'[d] = pending[d] /\ waiters'[d] = waiters[d]
                        \/ pending'[d] = 0 /\ d \in Settled
    BY <2>1
  <2>5. Resolution(Settled, {})
    BY <2>1, <2>2, <2>3, <2>4 DEF Resolution
  <2> QED BY <2>5, ResolveKeeps
<1>6. CASE GiveUp
  <2>1. /\ writer' = Resolved(Settled, Unsettled) /\ pending' = NoEntries /\ task' = NoTask
        /\ waiters' = [d \in Docs |-> IF pending[d] = 0 THEN waiters[d] ELSE {}]
        /\ UNCHANGED <<stored, indexed>>
    BY <1>6 DEF GiveUp
  <2>2. waiters' \in [Docs -> SUBSET Writers]
    BY <2>1 DEF SInv, TypeOK
  <2>3. \A d \in Docs : pending[d] = 0 \/ d \in Settled \cup Unsettled
    BY DEF Unsettled
  <2>4. Resolution(Settled, Unsettled)
    BY <1>1, <2>1, <2>2, <2>3 DEF Resolution
  <2> QED BY <2>4, ResolveKeeps
<1> QED BY <1>3, <1>4, <1>5, <1>6

(* Every step keeps the invariant.                                         *)
LEMMA NextSInv == SInv /\ [Next]_vars => SInv'
<1> SUFFICES ASSUME SInv, [Next]_vars PROVE SInv'
  OBVIOUS
<1>1. CASE UNCHANGED vars
  BY <1>1 DEF vars, SInv, TypeOK, Fresh, Filed, Asked, Waits
<1> QED
  BY <1>1, WriteKeeps, IndexKeeps, RegisterKeeps, CancelKeeps, PollKeeps, AnswerKeeps
     DEF Next, TaskStep

(* The invariant holds in every reachable state.                           *)
LEMMA SyncInvariance == Spec => []SInv
BY InitSInv, NextSInv, PTL DEF Spec

(* Every reachable state is well typed.                                    *)
THEOREM SyncTypeCorrect == Spec => []TypeOK
<1>1. SInv => TypeOK
  BY DEF SInv
<1> QED BY <1>1, SyncInvariance, PTL

(* No writer is ever left waiting without a future, a pending entry and a  *)
(* polling task, however registrations, cancellations, failures and the    *)
(* ends of wait groups interleave.                                         *)
THEOREM WaitersKept == Spec => []NoLostWaiter
<1>1. SInv => NoLostWaiter
  BY DEF SInv, TypeOK, Filed, NoLostWaiter
<1> QED BY <1>1, SyncInvariance, PTL

(* Only the answer to a query resolves a wait with success.                *)
LEMMA StepCredits == SInv /\ [Next]_vars => [CreditStep]_vars
<1> SUFFICES ASSUME SInv, [Next]_vars, NEW w \in Writers, Waits(w), writer'[w].at = "ok"
             PROVE  LET d == writer[w].doc IN
                    w \in task.asked /\ pending[d] = task.snapshot[d] /\ pending[d] =< indexed[d]
  BY DEF CreditStep
<1>1. ASSUME task.at = "answer", OnFile(w, Settled)
      PROVE  LET d == writer[w].doc IN
             w \in task.asked /\ pending[d] = task.snapshot[d] /\ pending[d] =< indexed[d]
  BY <1>1 DEF OnFile, Settled, SInv, Asked, Waits
<1>2. CASE Finish \/ Retry \/ GiveUp
  <2>1. PICK lost : task.at = "answer" /\ writer' = Resolved(Settled, lost)
    BY <1>2 DEF Finish, Retry, GiveUp, SettleOnly
  <2>2. OnFile(w, Settled)
    BY <2>1, ResolvedType DEF SInv, Waits
  <2> QED BY <1>1, <2>1, <2>2
<1>3. CASE QueryFails
  <2>1. writer' = Resolved({}, Docs)
    BY <1>3 DEF QueryFails
  <2>2. FALSE
    BY <2>1, ResolvedType DEF SInv, Waits, OnFile
  <2> QED BY <2>2
<1>4. ASSUME NEW x \in Writers, Register(x) \/ Cancel(x) PROVE FALSE
  <2>1. PICK at \in {"waiting", "idle"} : writer' = [writer EXCEPT ![x] = Moved(x, at)]
    BY <1>4 DEF Register, Cancel, GoTo
  <2>2. Moved(x, at).at = at
    BY DEF Moved
  <2> QED BY <2>1, <2>2 DEF SInv, TypeOK, Waits
<1>5. ASSUME NEW x \in Writers, NEW d \in Docs, Write(x, d) PROVE FALSE
  BY <1>5 DEF Write, SInv, TypeOK, Waits
<1>6. CASE UNCHANGED writer
  BY <1>6 DEF Waits
<1>7. (\E d \in Docs : Index(d)) \/ Dispatch \/ Evaluate \/ Wake \/ UNCHANGED vars => UNCHANGED writer
  BY DEF Index, Dispatch, Evaluate, Wake, vars
<1> QED BY <1>2, <1>3, <1>4, <1>5, <1>6, <1>7 DEF Next, TaskStep

(* A wait succeeds only on a query sent after it registered, which found   *)
(* the entry that is pending now in the index.                             *)
THEOREM NoCreditBeforeRegistration == Spec => NoEarlyCredit
BY SyncInvariance, StepCredits, PTL DEF Spec, NoEarlyCredit
=============================================================================
