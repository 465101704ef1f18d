---------------------------- MODULE MirrorPool -----------------------------
(***************************************************************************)
(* The pool of mirrors a link provider asks: utils/mirror.py.  One request *)
(* of the pool, a run, asks the preferred mirror, and if that fails all of *)
(* them at once; the first that answers becomes the preferred one and the  *)
(* others are called off.  The tasks of a race end in any order, several   *)
(* may have ended before the run hears of it, and the run itself may be    *)
(* cancelled.  The mirrors are external: each answers or fails.            *)
(***************************************************************************)
EXTENDS FiniteSets

CONSTANT Mirrors  \* the list of mirrors

VARIABLES
    preferred,  \* the preferred mirror
    run         \* run[e]: the run e of the pool

pool == <<preferred, run>>

TaskState == {"none", "running", "ok", "failed", "cancelling", "gone"}
Outcomes == {"ok", "failed", "cancelled"}

(* phase: before the first call, while it is waited for, during the race,  *)
(* while the tasks called off end, after the end.  pending: the tasks that *)
(* the run has not heard of.                                               *)
Runs == [phase : {"new", "preferred", "race", "cleanup", "done"},
         first : Mirrors, task : [Mirrors -> TaskState], pending : SUBSET Mirrors,
         outcome : Outcomes]

MirrorTypeOK ==
    /\ preferred \in Mirrors
    /\ \A e \in DOMAIN run : run[e] \in Runs

ASSUME MirrorAssumption == Mirrors # {}

NewRun == [phase |-> "new", first |-> CHOOSE m \in Mirrors : TRUE,
           task |-> [m \in Mirrors |-> "none"], pending |-> {}, outcome |-> "failed"]
-----------------------------------------------------------------------------
In(e, phase) == run[e].phase = phase
Ended(e) == {m \in run[e].pending : run[e].task[m] \in {"ok", "failed"}}
Live(e) == {m \in Mirrors : run[e].task[m] \in {"running", "cancelling"}}

(* The state of the tasks once those still running are called off.         *)
CalledOff(e) == [m \in Mirrors |-> IF run[e].task[m] = "running" THEN "cancelling"
                                   ELSE run[e].task[m]]

(* execute: the preferred mirror first.                                    *)
AskPreferred(e) ==
    /\ In(e, "new")
    /\ run' = [run EXCEPT ![e].phase = "preferred", ![e].first = preferred]
    /\ UNCHANGED preferred

PreferredAnswers(e) ==
    /\ In(e, "preferred")
    /\ run' = [run EXCEPT ![e].phase = "done", ![e].outcome = "ok"]
    /\ UNCHANGED preferred

(* It fails: __race_mirrors makes a task for every mirror.                 *)
RaceMirrors(e) ==
    /\ In(e, "preferred")
    /\ run' = [run EXCEPT ![e].phase = "race", ![e].pending = Mirrors,
                          ![e].task = [m \in Mirrors |-> "running"]]
    /\ UNCHANGED preferred

(* A task ends: with an answer, with an error, or called off.              *)
TaskEnds(e, m) ==
    /\ \/ run[e].task[m] = "running" /\ \E s \in {"ok", "failed"} :
             run' = [run EXCEPT ![e].task[m] = s]
       \/ run[e].task[m] = "cancelling" /\ run' = [run EXCEPT ![e].task[m] = "gone"]
    /\ UNCHANGED preferred

(* The run hears of the tasks that have ended, and one of them, which may  *)
(* be any as they form a set, has answered.                                *)
Win(e) ==
    /\ In(e, "race")
    /\ \E m \in Ended(e) :
          /\ run[e].task[m] = "ok"
          /\ preferred' = m
          /\ run' = [run EXCEPT ![e].phase = "cleanup", ![e].task = CalledOff(e),
                                ![e].outcome = "ok"]

\* Mutant: the first error ends the race.
LoseLastEnded(e) ==
    /\ In(e, "race") /\ Ended(e) # {}
    /\ \A m \in Ended(e) : run[e].task[m] = "failed"
    /\ run' = [run EXCEPT ![e].phase = "cleanup", ![e].task = CalledOff(e)]
    /\ UNCHANGED preferred
(* None of them has: the run waits for the others, if there are any, and   *)
(* else raises the errors of all.                                          *)
Lose(e) ==
    LET pending == run[e].pending \ Ended(e)
    IN  /\ In(e, "race") /\ Ended(e) # {}
        /\ \A m \in Ended(e) : run[e].task[m] = "failed"
        /\ run' = [run EXCEPT ![e].pending = pending,
                              ![e].phase = IF pending = {} THEN "cleanup" ELSE "race"]
        /\ UNCHANGED preferred

(* gather: the run waits until the tasks it called off have ended.         *)
Gather(e) ==
    /\ In(e, "cleanup") /\ Live(e) = {}
    /\ run' = [run EXCEPT ![e].phase = "done"]
    /\ UNCHANGED preferred

(* Whoever waits for the runs es is cancelled, and they with it: each      *)
(* calls its tasks off first.                                              *)
Cancelled(e) ==
    LET phase == IF In(e, "race") \/ In(e, "cleanup") THEN "cleanup" ELSE "done"
    IN  IF In(e, "done") THEN run[e]
        ELSE [run[e] EXCEPT !.phase = phase, !.outcome = "cancelled", !.task = CalledOff(e)]
CancelRuns(es) ==
    /\ run' = [e \in DOMAIN run |-> IF e \in es THEN Cancelled(e) ELSE run[e]]
    /\ UNCHANGED preferred

MirrorNext ==
    \E e \in DOMAIN run :
        \/ AskPreferred(e) \/ PreferredAnswers(e) \/ RaceMirrors(e)
        \/ \E m \in Mirrors : TaskEnds(e, m)
        \/ Win(e) \/ Lose(e) \/ Gather(e)
-----------------------------------------------------------------------------
(* However the mirrors answer and whenever a run is cancelled: a run that  *)
(* has ended leaves no task behind, fails only if every mirror has failed  *)
(* it, and succeeds with an answer; and the preferred mirror only changes  *)
(* to one that has just answered.                                          *)
SettledClean ==
    [][/\ \A e \in DOMAIN run \cap DOMAIN run' :
            LET r == run'[e]
            IN  r.phase = "done" /\ run[e].phase # "done" =>
                    /\ \A m \in Mirrors : r.task[m] \notin {"running", "cancelling"}
                    /\ r.outcome = "failed" => \A m \in Mirrors : r.task[m] = "failed"
                    /\ r.outcome = "ok" => \/ r.task[r.first] = "none"
                                           \/ \E m \in Mirrors : r.task[m] = "ok"
       /\ preferred' # preferred =>
            \E e \in DOMAIN run : run[e].phase = "race" /\ run[e].task[preferred'] = "ok"]_pool
=============================================================================
