---------------------------- MODULE RunContract ----------------------------
(* What the automation engine promises about each run, whatever the         *)
(* workers, crashes and redeliveries behind it: the steps are performed in  *)
(* order, each creates its object at most once, and a run that is done has  *)
(* finished all of them and stays done.                                     *)
EXTENDS Naturals

CONSTANTS Runs, NumSteps

VARIABLES outcome,   \* new | open | done | failed
          progress,  \* the number of leading steps finished
          created    \* created[r][s]: objects that step s of r created

vars == <<outcome, progress, created>>
Steps == 1..NumSteps

Init ==
    /\ outcome = [r \in Runs |-> "new"]
    /\ progress = [r \in Runs |-> 0]
    /\ created = [r \in Runs |-> [s \in Steps |-> 0]]

(* A new run is started, a failed one is started again on request.          *)
Start(r) ==
    /\ outcome[r] \in {"new", "failed"}
    /\ outcome' = [outcome EXCEPT ![r] = "open"]
    /\ UNCHANGED <<progress, created>>

(* The next step creates its object, for the first and only time.           *)
Create(r) ==
    /\ outcome[r] = "open"
    /\ progress[r] < NumSteps
    /\ created[r][progress[r] + 1] = 0
    /\ created' = [created EXCEPT ![r][progress[r] + 1] = 1]
    /\ UNCHANGED <<outcome, progress>>

(* The next step is finished: it has its object or needs none.              *)
Advance(r) ==
    /\ outcome[r] = "open"
    /\ progress[r] < NumSteps
    /\ progress' = [progress EXCEPT ![r] = @ + 1]
    /\ UNCHANGED <<outcome, created>>

Complete(r) ==
    /\ outcome[r] = "open"
    /\ progress[r] = NumSteps
    /\ outcome' = [outcome EXCEPT ![r] = "done"]
    /\ UNCHANGED <<progress, created>>

(* A step threw, or the worker was found dead.                              *)
Fail(r) ==
    /\ outcome[r] = "open"
    /\ outcome' = [outcome EXCEPT ![r] = "failed"]
    /\ UNCHANGED <<progress, created>>

Next == \E r \in Runs : Start(r) \/ Create(r) \/ Advance(r) \/ Complete(r) \/ Fail(r)

Spec == Init /\ [][Next]_vars
=============================================================================
