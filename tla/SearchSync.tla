----------------------------- MODULE SearchSync -----------------------------
(***************************************************************************)
(* Write-through verification of the search index: hoodie/sync.py.  A      *)
(* write method decorated with @synced returns only once the document it   *)
(* wrote is found in the index.  All waits on one index share a wait group *)
(* (_WaitGroup): one task that polls the index for every pending document  *)
(* and resolves the futures of the writers.                                *)
(*                                                                         *)
(* The event loop runs one piece of code between two awaits at a time; an  *)
(* action is such a piece.  The contents of a document are abstracted to   *)
(* the number of the write that produced them, so an index entry matches   *)
(* the fields a writer expects when it reflects exactly that write.        *)
(* Deletions wait in a group of their own in the same way.                 *)
(***************************************************************************)
EXTENDS Naturals

CONSTANTS
    Docs,         \* document ids
    Writers,      \* the coroutines that write
    MaxAttempts,  \* PollingPolicy.max_attempts
    MaxVersion    \* bound on the writes to one document

VARIABLES
    stored,   \* stored[d]: number of the last write of d in the database, 0 before the first
    indexed,  \* indexed[d]: the write of d that the index reflects
    writer,   \* writer[w]: where coroutine w is, and the write it made
    pending,  \* _pending[d]: the write expected of d, 0 if d is not pending
    waiters,  \* _waiters[d]: the writers whose futures wait for d
    task      \* the polling task of the wait group

vars == <<stored, indexed, writer, pending, waiters, task>>

WriterStates == {"idle", "wrote", "waiting", "ok", "failed"}
TaskStates == {"none", "tick", "query", "answer", "sleep"}
Task(at, attempt, snapshot, asked, matched) ==
    [at |-> at, attempt |-> attempt, snapshot |-> snapshot, asked |-> asked, matched |-> matched]
NoEntries == [d \in Docs |-> 0]
NoTask == Task("none", 0, NoEntries, {}, {})
NewTask == Task("tick", 1, NoEntries, {}, {})

ASSUME SyncAssumption ==
    /\ MaxAttempts \in Nat \ {0} /\ MaxVersion \in Nat

TypeOK ==
    /\ stored \in [Docs -> Nat]
    /\ indexed \in [Docs -> Nat]
    /\ writer \in [Writers -> [at : WriterStates, doc : Docs, version : Nat]]
    /\ pending \in [Docs -> Nat]
    /\ waiters \in [Docs -> SUBSET Writers]
    /\ task \in [at : TaskStates, attempt : Nat, snapshot : [Docs -> Nat],
                 asked : SUBSET Writers, matched : SUBSET Docs]
-----------------------------------------------------------------------------
Moved(w, at) == [at |-> at, doc |-> writer[w].doc, version |-> writer[w].version]
GoTo(w, at) == writer' = [writer EXCEPT ![w] = Moved(w, at)]
TaskTo(at) == Task(at, task.attempt, task.snapshot, task.asked, task.matched)

(* The write itself, through beanie to the database.                       *)
Write(w, d) ==
    /\ writer[w].at \in {"idle", "ok", "failed"}
    /\ stored[d] < MaxVersion
    /\ stored' = [stored EXCEPT ![d] = @ + 1]
    /\ writer' = [writer EXCEPT ![w] = [at |-> "wrote", doc |-> d, version |-> stored[d] + 1]]
    /\ UNCHANGED <<indexed, pending, waiters, task>>

(* The search engine indexes the writes of a document in their order.      *)
Index(d) ==
    /\ indexed[d] < stored[d]
    /\ indexed' = [indexed EXCEPT ![d] = @ + 1]
    /\ UNCHANGED <<stored, writer, pending, waiters, task>>

(* Mutant: a new waiter replaces the list of those before it.              *)
RegisterAlone(w) ==
    LET d == writer[w].doc IN
    /\ writer[w].at = "wrote"
    /\ GoTo(w, "waiting")
    /\ pending' = [pending EXCEPT ![d] = writer[w].version]
    /\ waiters' = [waiters EXCEPT ![d] = {w}]
    /\ task' = IF task.at = "none" THEN NewTask ELSE task
    /\ UNCHANGED <<stored, indexed>>

(* Back from the write, the coroutine registers with the wait group; the   *)
(* first to register creates the group and its task.                       *)
Register(w) ==
    LET d == writer[w].doc IN
    /\ writer[w].at = "wrote"
    /\ GoTo(w, "waiting")
    /\ pending' = [pending EXCEPT ![d] = writer[w].version]
    /\ waiters' = [waiters EXCEPT ![d] = @ \cup {w}]
    /\ task' = IF task.at = "none" THEN NewTask ELSE task
    /\ UNCHANGED <<stored, indexed>>

(* Mutant: a cancelled coroutine ends in a state nothing expects.          *)
CancelForGood(w) ==
    /\ writer[w].at \in {"wrote", "waiting"}
    /\ GoTo(w, "cancelled")
    /\ UNCHANGED <<stored, indexed, pending, waiters, task>>

(* The request of the coroutine is cancelled; its future is done, so the   *)
(* group will pass over it.                                                *)
Cancel(w) ==
    /\ writer[w].at \in {"wrote", "waiting"}
    /\ GoTo(w, "idle")
    /\ waiters' = [d \in Docs |-> waiters[d] \ {w}]
    /\ UNCHANGED <<stored, indexed, pending, task>>
-----------------------------------------------------------------------------
(* _tick: the snapshot of the pending entries goes out as one query.       *)
Dispatch ==
    /\ task.at = "tick"
    /\ task' = Task("query", task.attempt, pending, UNION {waiters[d] : d \in Docs}, {})
    /\ UNCHANGED <<stored, indexed, writer, pending, waiters>>

(* The search engine evaluates the query.                                  *)
Evaluate ==
    /\ task.at = "query"
    /\ task' = Task("answer", task.attempt, task.snapshot, task.asked,
                    {d \in Docs : task.snapshot[d] # 0 /\ indexed[d] = task.snapshot[d]})
    /\ UNCHANGED <<stored, indexed, writer, pending, waiters>>

(* Futures on file are resolved, with success for the documents in found   *)
(* and with an error for those in lost.                                    *)
OnFile(w, ds) == /\ writer[w].at = "waiting" /\ writer[w].doc \in ds
                 /\ w \in waiters[writer[w].doc]
Resolved(found, lost) ==
    [w \in Writers |-> IF OnFile(w, found) THEN Moved(w, "ok")
                       ELSE IF OnFile(w, lost) THEN Moved(w, "failed")
                       ELSE writer[w]]

(* The query fails: every waiter shares the cause, and the group ends.     *)
QueryFails ==
    /\ task.at = "query"
    /\ writer' = Resolved({}, Docs)
    /\ waiters' = [d \in Docs |-> {}]
    /\ pending' = NoEntries
    /\ task' = NoTask
    /\ UNCHANGED <<stored, indexed>>

(* Mutant: whatever is pending for a matched document counts as settled.   *)
SettledAnyEntry == task.matched

(* The answer settles the matched documents whose entry is still the one   *)
(* of the snapshot.                                                        *)
Settled == {d \in task.matched : pending[d] = task.snapshot[d]}
Unsettled == {d \in Docs \ Settled : pending[d] # 0}

SettleOnly ==
    /\ writer' = Resolved(Settled, {})
    /\ pending' = [d \in Docs |-> IF d \in Settled THEN 0 ELSE pending[d]]
    /\ waiters' = [d \in Docs |-> IF d \in Settled THEN {} ELSE waiters[d]]

(* Everything is settled: the task ends and the group is dropped.          *)
Finish ==
    /\ task.at = "answer"
    /\ Unsettled = {}
    /\ SettleOnly
    /\ task' = NoTask
    /\ UNCHANGED <<stored, indexed>>

(* Something is not: sleep, if attempts are left.                          *)
Retry ==
    /\ task.at = "answer"
    /\ Unsettled # {}
    /\ task.attempt < MaxAttempts
    /\ SettleOnly
    /\ task' = Task("sleep", task.attempt + 1, task.snapshot, task.asked, task.matched)
    /\ UNCHANGED <<stored, indexed>>

Wake ==
    /\ task.at = "sleep"
    /\ task' = TaskTo("tick")
    /\ UNCHANGED <<stored, indexed, writer, pending, waiters>>

(* Mutant: the group ends without telling those who still wait.            *)
GiveUpSilently ==
    /\ task.at = "answer"
    /\ Unsettled # {}
    /\ task.attempt = MaxAttempts
    /\ SettleOnly
    /\ task' = NoTask
    /\ UNCHANGED <<stored, indexed>>

(* No attempt is left: whoever still waits is told that the document never *)
(* became searchable.                                                      *)
GiveUp ==
    /\ task.at = "answer"
    /\ Unsettled # {}
    /\ task.attempt = MaxAttempts
    /\ writer' = Resolved(Settled, Unsettled)
    /\ pending' = NoEntries
    /\ waiters' = [d \in Docs |-> IF pending[d] = 0 THEN waiters[d] ELSE {}]
    /\ task' = NoTask
    /\ UNCHANGED <<stored, indexed>>
-----------------------------------------------------------------------------
Init ==
    /\ stored = [d \in Docs |-> 0]
    /\ indexed = [d \in Docs |-> 0]
    /\ writer \in [Writers -> [at : {"idle"}, doc : Docs, version : {0}]]
    /\ pending = NoEntries
    /\ waiters = [d \in Docs |-> {}]
    /\ task = NoTask

TaskStep == Dispatch \/ Finish \/ Retry \/ Wake \/ GiveUp

Next ==
    \/ \E w \in Writers, d \in Docs : Write(w, d)
    \/ \E d \in Docs : Index(d)
    \/ \E w \in Writers : Register(w) \/ Cancel(w)
    \/ Evaluate \/ QueryFails
    \/ TaskStep

(* The event loop runs every task that is ready and every timer that is    *)
(* due; the driver returns from a query with an answer or with an error.   *)
Fairness ==
    /\ \A w \in Writers : WF_vars(Register(w))
    /\ WF_vars(TaskStep)
    /\ WF_vars(Evaluate \/ QueryFails)

Spec == Init /\ [][Next]_vars
FairSpec == Spec /\ Fairness
-----------------------------------------------------------------------------
Waits(w) == writer[w].at = "waiting"

(* No waiter is lost: whoever waits has a future on file, its document is  *)
(* pending and a task is polling for it, across the end of one group and   *)
(* the start of the next (register, _run).                                 *)
NoLostWaiter ==
    \A w \in Writers : Waits(w) =>
        /\ w \in waiters[writer[w].doc]
        /\ pending[writer[w].doc] # 0
        /\ task.at # "none"

(* Success is never credited against a query sent before the waiter        *)
(* registered, and the query found the entry that is pending now: the      *)
(* snapshot boundary and the identity test of _tick.                       *)
CreditStep ==
    \A w \in Writers : Waits(w) /\ writer'[w].at = "ok" =>
        LET d == writer[w].doc IN
        /\ w \in task.asked
        /\ pending[d] = task.snapshot[d]
        /\ pending[d] =< indexed[d]
NoEarlyCredit == [][CreditStep]_vars

(* Every wait ends: with success, with an error, or cancelled.             *)
WaitEnds == \A w \in Writers : Waits(w) ~> ~Waits(w)
=============================================================================
