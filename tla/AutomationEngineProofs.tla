----------------------- MODULE AutomationEngineProofs -----------------------
(* Theorems about AutomationEngine for every number of workers, events,     *)
(* runs and steps.                                                          *)
EXTENDS AutomationEngine, TLAPS

(* Where the variables of a worker are meaningful: the run it works on and  *)
(* the event it holds.                                                      *)
HasRun == Executing \cup {"claim", "check", "alert", "sweepAlert"}
HasEvent == {"rules", "claim", "check", "release", "giveup"}

Holding ==
    \A w \in Workers : /\ pc[w] \in HasRun => wRun[w] \in Runs
                       /\ pc[w] \in HasEvent => wEvent[w] \in Events

(* A step of worker w leaves the local state of the others alone.           *)
Frame(w) ==
    \A v \in Workers \ {w} :
        /\ pc'[v] = pc[v] /\ wRun'[v] = wRun[v] /\ wEvent'[v] = wEvent[v]
        /\ snap'[v] = snap[v] /\ cur'[v] = cur[v]

StepOf(w) == WorkerStep(w) \/ DbError(w) \/ Crash(w) \/ \E r \in Runs : RerunRun(w, r)

(* The step loop of executeRunSteps goes to the first unfinished declared   *)
(* step, or to the end of the run when there is none.                       *)
LEMMA NextStepGoes ==
    ASSUME TypeOK, NEW w \in Workers, NEW f \in [Steps -> StepStatus], NextStep(w, f)
    PROVE  /\ cur' \in [Workers -> Steps]
           /\ \A v \in Workers \ {w} : pc'[v] = pc[v] /\ cur'[v] = cur[v]
           /\ \/ /\ pc' = [pc EXCEPT ![w] = "lookup"]
                 /\ ~Finished(f[cur'[w]])
                 /\ \A s \in Steps : s < cur'[w] => Finished(f[s])
              \/ /\ pc' = [pc EXCEPT ![w] = "finish"]
                 /\ \A s \in Steps : Finished(f[s])
<1> USE DEF TypeOK, ExecTypes
<1>1. CASE Unfinished(f) = {}
  BY <1>1 DEF NextStep, Unfinished
<1>2. CASE Unfinished(f) # {}
  <2>1. PICK s \in Unfinished(f) : /\ \A t \in Unfinished(f) : s <= t
                                   /\ cur' = [cur EXCEPT ![w] = s]
    BY <1>2 DEF NextStep
  <2>2. pc' = [pc EXCEPT ![w] = "lookup"]
    BY <1>2 DEF NextStep
  <2>3. s \in Steps /\ ~Finished(f[s]) /\ cur'[w] = s
    BY <2>1 DEF Unfinished
  <2>4. \A t \in Steps : t < s => Finished(f[t])
    BY <2>1, <2>3 DEF Unfinished, Steps
  <2> QED
    BY <2>1, <2>2, <2>3, <2>4
<1> QED
  BY <1>1, <1>2

LEMMA WorkerFrame ==
    ASSUME TypeOK, NEW w \in Workers, StepOf(w)
    PROVE  Frame(w)
<1> USE DEF Frame, TypeOK, PassTypes, ExecTypes, passVars, execVars
<1>1. CASE StartPass(w) \/ EndPass(w) \/ ClaimRunMisses(w) \/ EndSweep(w)
  BY <1>1 DEF StartPass, EndPass, ClaimRunMisses, EndSweep
<1>2. CASE ClaimNextEvent(w)
  BY <1>2 DEF ClaimNextEvent
<1>3. CASE GetOrCreateRun(w)
  BY <1>3 DEF GetOrCreateRun
<1>4. CASE ClaimRun(w)
  BY <1>4 DEF ClaimRun, TakeRun, NextStep
<1>5. CASE IsRunLeased(w) \/ LeaseAtItsLimit(w)
  BY <1>5 DEF IsRunLeased, LeaseAtItsLimit
<1>6. CASE LookupStep(w) \/ CreateStep(w)
  BY <1>6 DEF LookupStep, CreateStep, StepOutcome
<1>7. CASE RecordStep(w)
  BY <1>7 DEF RecordStep, NextStep
<1>8. CASE FinishRun(w) \/ RaiseRunFailureAlert(w)
  BY <1>8 DEF FinishRun, RaiseRunFailureAlert, LeaveRun
<1>9. CASE SettleEvent(w) \/ ReleaseEventAfterError(w) \/ RaiseEventAlert(w)
  BY <1>9 DEF SettleEvent, ReleaseEventAfterError, RaiseEventAlert, DropEvent
<1>10. CASE SweepStaleRun(w) \/ RaiseSweepAlert(w)
  BY <1>10 DEF SweepStaleRun, RaiseSweepAlert
<1>11. CASE DbError(w) \/ Crash(w)
  BY <1>11 DEF DbError, Crash
<1>12. ASSUME NEW r \in Runs, RerunRun(w, r) PROVE Frame(w)
  BY <1>12 DEF RerunRun, TakeRun, NextStep
<1> QED
  BY <1>1, <1>2, <1>3, <1>4, <1>5, <1>6, <1>7, <1>8, <1>9, <1>10, <1>11, <1>12
  DEF StepOf, WorkerStep

LEMMA InitTyped == Init => TypeOK /\ Holding
  BY ConstantsAssumption
  DEF Init, TypeOK, EventTypes, RunTypes, OutcomeTypes, PassTypes, ExecTypes, EnvTypes, Holding,
      Events, Steps, NoEvent, NoSteps, StepStatus, PC, InEvent, Executing, HasRun, HasEvent

-----------------------------------------------------------------------------
(* Type correctness, one group of variables at a time: the actions that     *)
(* assign the group, then all the others.                                   *)
LEMMA EventTypesNext ==
    ASSUME TypeOK, Holding, [Next]_vars
    PROVE  EventTypes'
<1> USE DEF TypeOK, EventTypes
<1>1. ASSUME NEW e \in Events, Emit(e) \/ EventLeaseExpires(e) PROVE EventTypes'
  BY <1>1 DEF Emit, EventLeaseExpires
<1>2. ASSUME NEW w \in Workers, ClaimNextEvent(w) PROVE EventTypes'
  BY <1>2 DEF ClaimNextEvent, Claimable
<1>3. ASSUME NEW w \in Workers, SettleEvent(w) PROVE EventTypes'
  BY <1>3 DEF SettleEvent, Holding, HasEvent
<1>4. ASSUME NEW w \in Workers, ReleaseEventAfterError(w) PROVE EventTypes'
  BY <1>4 DEF ReleaseEventAfterError, Holding, HasEvent
<1>5. ASSUME UNCHANGED evVars PROVE EventTypes'
  BY <1>5 DEF evVars
<1> QED
  BY <1>1, <1>2, <1>3, <1>4, <1>5
  DEF Next, WorkerStep, vars, StartPass, EndPass, GetOrCreateRun, ClaimRun, ClaimRunMisses,
      IsRunLeased, LeaseAtItsLimit, LookupStep, CreateStep, RecordStep, FinishRun,
      RaiseRunFailureAlert, DbError, RaiseEventAlert, SweepStaleRun, RaiseSweepAlert, EndSweep,
      RerunRun, Crash, RunLeaseExpires

LEMMA RunTypesNext ==
    ASSUME TypeOK, Holding, [Next]_vars
    PROVE  RunTypes'
<1> USE DEF TypeOK, RunTypes
<1>1. ASSUME NEW r \in Runs, RunLeaseExpires(r) PROVE RunTypes'
  BY <1>1 DEF RunLeaseExpires
<1>2. ASSUME NEW w \in Workers, GetOrCreateRun(w) PROVE RunTypes'
  BY <1>2 DEF GetOrCreateRun, PassTypes
<1>3. ASSUME NEW w \in Workers, NEW r \in Runs, TakeRun(w, r) PROVE RunTypes'
  BY <1>3 DEF TakeRun
<1>4. ASSUME NEW w \in Workers, LeaseAtItsLimit(w) PROVE RunTypes'
  BY <1>4 DEF LeaseAtItsLimit
<1>5. ASSUME NEW w \in Workers, RecordStep(w) PROVE RunTypes'
  BY <1>5 DEF RecordStep, ExecTypes
<1>6. ASSUME NEW w \in Workers, FinishRun(w) PROVE RunTypes'
  BY <1>6 DEF FinishRun, ExecTypes
<1>7. ASSUME NEW w \in Workers, SweepStaleRun(w) PROVE RunTypes'
  BY <1>7 DEF SweepStaleRun
<1>8. ASSUME UNCHANGED runVars PROVE RunTypes'
  BY <1>8 DEF runVars
<1>9. ASSUME NEW w \in Workers, ClaimRun(w) PROVE RunTypes'
  BY <1>9, <1>3 DEF ClaimRun, Holding, HasRun
<1> QED
  BY <1>1, <1>2, <1>3, <1>4, <1>5, <1>6, <1>7, <1>8, <1>9
  DEF Next, WorkerStep, vars, Emit, EventLeaseExpires, StartPass, ClaimNextEvent, EndPass,
      ClaimRunMisses, IsRunLeased, LookupStep, CreateStep, RaiseRunFailureAlert,
      SettleEvent, DbError, ReleaseEventAfterError, RaiseEventAlert, RaiseSweepAlert, EndSweep,
      RerunRun, Crash

LEMMA OutcomeTypesNext ==
    ASSUME TypeOK, Holding, [Next]_vars
    PROVE  OutcomeTypes'
<1> USE DEF TypeOK, OutcomeTypes
<1>1. ASSUME NEW w \in Workers, CreateStep(w) PROVE OutcomeTypes'
  BY <1>1 DEF CreateStep, alerts
<1>2. ASSUME NEW w \in Workers, RaiseRunAlert(wRun[w], wAttempt[w]), UNCHANGED made
      PROVE  OutcomeTypes'
  BY <1>2 DEF RaiseRunAlert, AlertIsLost, ExecTypes, alerts
<1>3. ASSUME NEW w \in Workers, RaiseEventAlert(w) PROVE OutcomeTypes'
  BY <1>3 DEF RaiseEventAlert, AlertIsLost, alerts, Holding, HasEvent
<1>4. ASSUME UNCHANGED <<made, alerts>> PROVE OutcomeTypes'
  BY <1>4 DEF alerts
<1> QED
  BY <1>1, <1>2, <1>3, <1>4
  DEF Next, WorkerStep, vars, Emit, EventLeaseExpires, RunLeaseExpires, StartPass, ClaimNextEvent,
      EndPass, GetOrCreateRun, ClaimRun, ClaimRunMisses, IsRunLeased, LeaseAtItsLimit, LookupStep,
      RecordStep, FinishRun, RaiseRunFailureAlert, SettleEvent, DbError, ReleaseEventAfterError,
      SweepStaleRun, RaiseSweepAlert, EndSweep, RerunRun, Crash

LEMMA PassTypesNext ==
    ASSUME TypeOK, Holding, [Next]_vars
    PROVE  PassTypes'
<1> USE DEF TypeOK, PassTypes
<1>1. ASSUME NEW w \in Workers, ClaimNextEvent(w) PROVE PassTypes'
  <2>1. PICK e \in Events : /\ wEvent' = [wEvent EXCEPT ![w] = e]
                            /\ wTries' = [wTries EXCEPT ![w] = evAttempts[e] + 1]
                            /\ todo' = [todo EXCEPT ![w] = RunsOf[e]]
    BY <1>1 DEF ClaimNextEvent, Claimable
  <2>2. evAttempts[e] + 1 \in Int /\ RunsOf[e] \in SUBSET Runs
    BY ConstantsAssumption DEF EventTypes
  <2> QED
    BY <1>1, <2>1, <2>2 DEF ClaimNextEvent
<1>2. ASSUME NEW w \in Workers, EndPass(w) PROVE PassTypes'
  BY <1>2 DEF EndPass
<1>3. ASSUME NEW w \in Workers, GetOrCreateRun(w) PROVE PassTypes'
  BY <1>3 DEF GetOrCreateRun
<1>4. ASSUME NEW w \in Workers, IsRunLeased(w) PROVE PassTypes'
  BY <1>4 DEF IsRunLeased
<1>5. ASSUME NEW w \in Workers, DropEvent(w), UNCHANGED sawEvent,
             \/ UNCHANGED deferred
             \/ deferred' = [deferred EXCEPT ![w] = @ \cup {wEvent[w]}] /\ wEvent[w] \in Events
      PROVE  PassTypes'
  BY <1>5 DEF DropEvent
<1>6. ASSUME NEW w \in Workers, Crash(w) PROVE PassTypes'
  BY <1>6 DEF Crash
<1>7. ASSUME UNCHANGED passVars PROVE PassTypes'
  BY <1>7 DEF passVars
<1>8. ASSUME NEW w \in Workers, SettleEvent(w) PROVE PassTypes'
  BY <1>8, <1>5 DEF SettleEvent, Holding, HasEvent
<1>9. ASSUME NEW w \in Workers, ReleaseEventAfterError(w) PROVE PassTypes'
  BY <1>9, <1>5, <1>7 DEF ReleaseEventAfterError, passVars
<1>10. ASSUME NEW w \in Workers, RaiseEventAlert(w) PROVE PassTypes'
  BY <1>10, <1>5 DEF RaiseEventAlert
<1> QED
  BY <1>1, <1>2, <1>3, <1>4, <1>6, <1>7, <1>8, <1>9, <1>10
  DEF Next, WorkerStep, vars, Emit, EventLeaseExpires, RunLeaseExpires, StartPass, ClaimRun,
      ClaimRunMisses, LeaseAtItsLimit, LookupStep, CreateStep, RecordStep, FinishRun,
      RaiseRunFailureAlert, DbError, SweepStaleRun, RaiseSweepAlert, EndSweep, RerunRun

LEMMA ExecTypesNext ==
    ASSUME TypeOK, Holding, [Next]_vars
    PROVE  ExecTypes'
<1> USE DEF TypeOK, ExecTypes
<1>a. {"idle", "loop", "sweep", "sweepAlert", "rules", "claim", "check", "alert", "release",
       "giveup", "lookup", "create", "record", "finish"} \subseteq PC
  BY DEF PC, InEvent, Executing
<1>1. ASSUME NEW w \in Workers, NEW p \in PC, pc' = [pc EXCEPT ![w] = p], UNCHANGED execVars
      PROVE  ExecTypes'
  BY <1>1 DEF execVars
<1>2. ASSUME NEW w \in Workers, GetOrCreateRun(w) PROVE ExecTypes'
  BY <1>2, <1>a DEF GetOrCreateRun, PassTypes
<1>3. ASSUME NEW w \in Workers, NEW r \in Runs, TakeRun(w, r), NextStep(w, runSteps[r]),
             wRun' \in [Workers -> Runs \cup {NoRun}]
      PROVE  ExecTypes'
  <2>1. runSteps[r] \in [Steps -> StepStatus]
    BY DEF RunTypes
  <2>2. cur' \in [Workers -> Steps] /\ pc' \in [Workers -> PC]
    BY <1>3, <2>1, <1>a, NextStepGoes
  <2> QED
    BY <1>3, <2>1, <2>2, runAttempts[r] + 1 \in Nat DEF TakeRun, RunTypes
<1>4. ASSUME NEW w \in Workers, ClaimRun(w) PROVE ExecTypes'
  BY <1>4, <1>3 DEF ClaimRun, Holding, HasRun
<1>5. ASSUME NEW w \in Workers, NEW r \in Runs, RerunRun(w, r) PROVE ExecTypes'
  BY <1>5, <1>3 DEF RerunRun
<1>6. ASSUME NEW w \in Workers, IsRunLeased(w) \/ LeaseAtItsLimit(w) PROVE ExecTypes'
  BY <1>6, <1>a DEF IsRunLeased, LeaseAtItsLimit
<1>7. ASSUME NEW w \in Workers, LookupStep(w) \/ CreateStep(w) PROVE ExecTypes'
  <2>1. ASSUME NEW status \in StepStatus, StepOutcome(w, status),
               UNCHANGED <<wRun, wAttempt, cur>>
        PROVE  ExecTypes'
    BY <2>1, <1>a DEF StepOutcome
  <2> QED
    BY <1>7, <2>1, <1>1, <1>a DEF LookupStep, CreateStep, StepStatus, execVars
<1>8. ASSUME NEW w \in Workers, RecordStep(w) PROVE ExecTypes'
  <2>1. cur' \in [Workers -> Steps] /\ pc' \in [Workers -> PC]
    BY <1>8, <1>a, NextStepGoes DEF RecordStep
  <2> QED
    BY <1>8, <2>1 DEF RecordStep
<1>9. NoSteps \in [Steps -> StepStatus] /\ 1 \in Steps
  BY ConstantsAssumption DEF NoSteps, StepStatus, Steps
<1>10. ASSUME NEW w \in Workers, FinishRun(w) PROVE ExecTypes'
  <2>1. pc' \in [Workers -> PC]
    BY <1>10, <1>a DEF FinishRun, LeaveRun
  <2>2. wRun' \in [Workers -> Runs \cup {NoRun}]
    BY <1>10 DEF FinishRun, LeaveRun
  <2>4. wAttempt' = [wAttempt EXCEPT ![w] = 0] \/ wAttempt' = wAttempt
    BY <1>10 DEF FinishRun, LeaveRun
  <2>5. wAttempt' \in [Workers -> Nat]
    BY <2>4
  <2>3. snap' \in [Workers -> [Steps -> StepStatus]] /\ cur' \in [Workers -> Steps]
    BY <1>10, <1>9 DEF FinishRun
  <2> QED
    BY <2>1, <2>2, <2>3, <2>5
<1>11. ASSUME NEW w \in Workers, RaiseRunFailureAlert(w) \/ RaiseSweepAlert(w) PROVE ExecTypes'
  <2>1. pc' \in [Workers -> PC]
    BY <1>11, <1>a DEF RaiseRunFailureAlert, RaiseSweepAlert, LeaveRun
  <2>2. wRun' \in [Workers -> Runs \cup {NoRun}]
    BY <1>11 DEF RaiseRunFailureAlert, RaiseSweepAlert, LeaveRun
  <2>4. wAttempt' = [wAttempt EXCEPT ![w] = 0] \/ wAttempt' = wAttempt
    BY <1>11 DEF RaiseRunFailureAlert, RaiseSweepAlert, LeaveRun
  <2>5. wAttempt' \in [Workers -> Nat]
    BY <2>4
  <2> QED
    BY <1>11, <2>1, <2>2, <2>5 DEF RaiseRunFailureAlert, RaiseSweepAlert
<1>12. ASSUME NEW w \in Workers, SweepStaleRun(w) PROVE ExecTypes'
  BY <1>12, <1>a DEF SweepStaleRun, Sweepable, RunTypes
<1>13. ASSUME NEW w \in Workers, DbError(w) \/ Crash(w) PROVE ExecTypes'
  <2>1. pc' \in [Workers -> PC]
    BY <1>13, <1>a DEF DbError, Crash
  <2>2. wRun' \in [Workers -> Runs \cup {NoRun}]
    BY <1>13 DEF DbError, Crash
  <2>4. wAttempt' = [wAttempt EXCEPT ![w] = 0] \/ wAttempt' = wAttempt
    BY <1>13 DEF DbError, Crash
  <2>5. wAttempt' \in [Workers -> Nat]
    BY <2>4
  <2>3. snap' \in [Workers -> [Steps -> StepStatus]] /\ cur' \in [Workers -> Steps]
    BY <1>13, <1>9 DEF DbError, Crash
  <2> QED
    BY <2>1, <2>2, <2>3, <2>5
<1>14. ASSUME NEW w \in Workers,
              StartPass(w) \/ ClaimNextEvent(w) \/ EndPass(w) \/ ClaimRunMisses(w) \/ EndSweep(w)
       PROVE  ExecTypes'
  BY <1>14, <1>1, <1>a DEF StartPass, ClaimNextEvent, EndPass, ClaimRunMisses, EndSweep
<1>15. ASSUME NEW w \in Workers,
              SettleEvent(w) \/ ReleaseEventAfterError(w) \/ RaiseEventAlert(w)
       PROVE  ExecTypes'
  BY <1>15, <1>1, <1>a DEF SettleEvent, ReleaseEventAfterError, RaiseEventAlert, DropEvent
<1>16. ASSUME UNCHANGED <<pc, execVars>> PROVE ExecTypes'
  BY <1>16 DEF execVars
<1> QED
  BY <1>2, <1>4, <1>5, <1>6, <1>7, <1>8, <1>10, <1>11, <1>12, <1>13, <1>14, <1>15, <1>16
  DEF Next, WorkerStep, vars, Emit, EventLeaseExpires, RunLeaseExpires

LEMMA EnvTypesNext ==
    ASSUME TypeOK, [Next]_vars
    PROVE  EnvTypes'
<1> USE DEF TypeOK, EnvTypes, envVars
<1>1. ASSUME AlertIsLost \/ UNCHANGED errors, UNCHANGED <<crashes, reruns, limitHits>>
      PROVE  EnvTypes'
  BY <1>1 DEF AlertIsLost
<1>2. ASSUME NEW w \in Workers,
             RaiseRunFailureAlert(w) \/ RaiseSweepAlert(w) \/ RaiseEventAlert(w)
      PROVE  EnvTypes'
  BY <1>2, <1>1 DEF RaiseRunFailureAlert, RaiseSweepAlert, RaiseEventAlert, RaiseRunAlert
<1>3. ASSUME NEW w \in Workers, LeaseAtItsLimit(w) \/ DbError(w) \/ Crash(w) PROVE EnvTypes'
  BY <1>3 DEF LeaseAtItsLimit, DbError, Crash
<1>4. ASSUME NEW w \in Workers, NEW r \in Runs, RerunRun(w, r) PROVE EnvTypes'
  BY <1>4 DEF RerunRun
<1>5. ASSUME UNCHANGED envVars PROVE EnvTypes'
  BY <1>5
<1> QED
  BY <1>2, <1>3, <1>4, <1>5
  DEF Next, WorkerStep, vars, Emit, EventLeaseExpires, RunLeaseExpires, StartPass, ClaimNextEvent,
      EndPass, GetOrCreateRun, ClaimRun, ClaimRunMisses, IsRunLeased, LookupStep, CreateStep,
      RecordStep, FinishRun, SettleEvent, ReleaseEventAfterError, SweepStaleRun, EndSweep

-----------------------------------------------------------------------------
(* Holding: what the worker that moves holds after each of its actions.     *)
LEMMA HoldingNext ==
    ASSUME TypeOK, Holding, [Next]_vars
    PROVE  Holding'
<1> USE DEF TypeOK, PassTypes, ExecTypes
<1>1. ASSUME NEW w \in Workers, Frame(w),
             /\ pc'[w] \in HasRun => wRun'[w] \in Runs
             /\ pc'[w] \in HasEvent => wEvent'[w] \in Events
      PROVE  Holding'
  BY <1>1 DEF Holding, Frame
<1>2. ASSUME UNCHANGED <<pc, wRun, wEvent>> PROVE Holding'
  BY <1>2 DEF Holding
<1>3. ASSUME NEW w \in Workers, StepOf(w)
      PROVE  /\ pc'[w] \in HasRun => wRun'[w] \in Runs
             /\ pc'[w] \in HasEvent => wEvent'[w] \in Events
  <2> USE DEF Holding, HasRun, HasEvent, Executing, passVars, execVars
  <2>1. CASE StartPass(w) \/ EndPass(w) \/ ClaimRunMisses(w) \/ EndSweep(w)
    BY <2>1 DEF StartPass, EndPass, ClaimRunMisses, EndSweep
  <2>2. CASE ClaimNextEvent(w)
    BY <2>2 DEF ClaimNextEvent, Claimable
  <2>3. CASE GetOrCreateRun(w)
    BY <2>3 DEF GetOrCreateRun
  <2>4. CASE ClaimRun(w)
    BY <2>4 DEF ClaimRun, NextStep
  <2>5. CASE IsRunLeased(w) \/ LeaseAtItsLimit(w)
    BY <2>5 DEF IsRunLeased, LeaseAtItsLimit
  <2>6. CASE LookupStep(w) \/ CreateStep(w)
    BY <2>6 DEF LookupStep, CreateStep, StepOutcome
  <2>7. CASE RecordStep(w)
    BY <2>7 DEF RecordStep, NextStep
  <2>8. CASE FinishRun(w) \/ RaiseRunFailureAlert(w)
    BY <2>8 DEF FinishRun, RaiseRunFailureAlert, LeaveRun, Rerunning
  <2>9. CASE SettleEvent(w) \/ ReleaseEventAfterError(w) \/ RaiseEventAlert(w)
    BY <2>9 DEF SettleEvent, ReleaseEventAfterError, RaiseEventAlert, DropEvent
  <2>10. CASE SweepStaleRun(w) \/ RaiseSweepAlert(w)
    BY <2>10 DEF SweepStaleRun, RaiseSweepAlert, Sweepable
  <2>11. CASE DbError(w) \/ Crash(w)
    BY <2>11 DEF DbError, Crash, Rerunning
  <2>12. ASSUME NEW r \in Runs, RerunRun(w, r)
         PROVE  wRun'[w] \in Runs /\ pc'[w] \in Executing
    BY <2>12 DEF RerunRun, NextStep
  <2> QED
    BY <1>3, <2>1, <2>2, <2>3, <2>4, <2>5, <2>6, <2>7, <2>8, <2>9, <2>10, <2>11, <2>12
    DEF StepOf, WorkerStep
<1> QED
  BY <1>1, <1>2, <1>3, WorkerFrame
  DEF Next, StepOf, vars, execVars, passVars, Emit, EventLeaseExpires, RunLeaseExpires

(* Every variable keeps its type in every reachable state.                  *)
THEOREM TypeCorrect == Spec => [](TypeOK /\ Holding)
<1>1. Init => TypeOK /\ Holding
  BY InitTyped
<1>2. TypeOK /\ Holding /\ [Next]_vars => (TypeOK /\ Holding)'
  BY EventTypesNext, RunTypesNext, OutcomeTypesNext, PassTypesNext, ExecTypesNext, EnvTypesNext,
     HoldingNext DEF TypeOK
<1> QED
  BY <1>1, <1>2, PTL DEF Spec
-----------------------------------------------------------------------------
(* The inductive invariant behind OneExecutor, for workers that never       *)
(* outlast their run lease: whoever executes a run holds its fresh lease,   *)
(* which is exactly what claimRun's filter refuses to take over.            *)
Leased ==
    \A w \in Workers : \A r \in Runs :
        Executes(w, r) => runStatus[r] = "running" /\ runLease[r] = "fresh"

Alone == \A v, w \in Workers : \A r \in Runs : Executes(v, r) /\ Executes(w, r) => v = w

(* A worker about to create has seen that its object does not exist, and    *)
(* nobody else can have created it since.                                   *)
CreatesFirst ==
    \A w \in Workers : pc[w] = "create" => made[wRun[w]][cur[w]] = 0

MadeOnce == \A r \in Runs : \A s \in Steps : made[r][s] <= 1

Exclusive == RunLeaseHolds => Leased /\ Alone /\ CreatesFirst /\ MadeOnce

(* What a step of w must respect to keep Leased and Alone: the runs of the  *)
(* others are left alone, and a run w executes afterwards is its own.       *)
OthersKept(w) ==
    \A v \in Workers \ {w} : \A r \in Runs :
        Executes(v, r) => runStatus'[r] = runStatus[r] /\ runLease'[r] = runLease[r]

OwnRun(w) ==
    \A r \in Runs : wRun'[w] = r /\ pc'[w] \in Executing =>
        /\ runStatus'[r] = "running" /\ runLease'[r] = "fresh"
        /\ \A v \in Workers \ {w} : ~Executes(v, r)

LEMMA ExclusiveKept ==
    ASSUME NEW w \in Workers, Leased, Alone, Frame(w), OthersKept(w), OwnRun(w)
    PROVE  Leased' /\ Alone'
<1>1. \A v \in Workers \ {w} : \A r \in Runs : Executes(v, r)' <=> Executes(v, r)
  BY DEF Executes, Frame
<1>2. \A r \in Runs : Executes(w, r)' <=> wRun'[w] = r /\ pc'[w] \in Executing
  BY DEF Executes
<1> HIDE DEF Executes
<1>3. Leased'
  BY <1>1, <1>2 DEF Leased, OthersKept, OwnRun
<1>4. Alone'
  BY <1>1, <1>2 DEF Alone, OwnRun
<1> QED
  BY <1>3, <1>4

(* A claim gives the run to a worker only when no other one executes it.    *)
LEMMA ClaimTakesFreeRun ==
    ASSUME NEW r \in Runs, Leased, CanClaimRun(r, {"pending"}) \/ CanClaimRun(r, {"failed"})
    PROVE  \A v \in Workers : ~Executes(v, r)
  BY DEF Leased, CanClaimRun

LEMMA LeasedAloneNext ==
    ASSUME TypeOK, Holding, RunLeaseHolds, Leased, Alone, [Next]_vars
    PROVE  Leased' /\ Alone'
<1> USE DEF TypeOK, RunTypes, ExecTypes
<1>1. ASSUME NEW w \in Workers, StepOf(w)
      PROVE  OthersKept(w) /\ OwnRun(w)
  <2>1. ASSUME UNCHANGED <<runStatus, runLease>>,
               pc'[w] \in Executing => pc[w] \in Executing /\ wRun'[w] = wRun[w]
        PROVE  OthersKept(w) /\ OwnRun(w)
    BY <2>1 DEF OthersKept, OwnRun, Executes, Leased, Alone
  <2>2. ASSUME NEW r \in Runs, TakeRun(w, r), wRun'[w] = r, \A v \in Workers : ~Executes(v, r)
        PROVE  OthersKept(w) /\ OwnRun(w)
    BY <2>2 DEF TakeRun, OthersKept, OwnRun
  <2>3. ASSUME pc'[w] \notin Executing, NEW r \in Runs,
               \A v \in Workers \ {w} : ~Executes(v, r),
               \A q \in Runs \ {r} : runStatus'[q] = runStatus[q] /\ runLease'[q] = runLease[q]
        PROVE  OthersKept(w) /\ OwnRun(w)
    BY <2>3 DEF OthersKept, OwnRun
  <2>4. CASE StartPass(w) \/ EndPass(w) \/ ClaimRunMisses(w) \/ EndSweep(w) \/ ClaimNextEvent(w)
    BY <2>4, <2>1
    DEF StartPass, EndPass, ClaimRunMisses, EndSweep, ClaimNextEvent, runVars, Executing
  <2>5. CASE GetOrCreateRun(w)
    <3>1. PICK r \in todo[w] :
             /\ runStatus' = [runStatus EXCEPT ![r] = IF @ = "none" THEN "pending" ELSE @]
      BY <2>5 DEF GetOrCreateRun
    <3>2. r \in Runs /\ pc'[w] \notin Executing /\ runLease' = runLease
      BY <2>5 DEF GetOrCreateRun, PassTypes, Executing
    <3>3. CASE runStatus[r] = "none"
      BY <3>1, <3>2, <3>3, <2>3 DEF Leased
    <3>4. CASE runStatus[r] # "none"
      BY <3>1, <3>2, <3>4, <2>1
    <3> QED
      BY <3>3, <3>4
  <2>6. CASE ClaimRun(w)
    BY <2>6, <2>2, ClaimTakesFreeRun DEF ClaimRun, Holding, HasRun
  <2>7. CASE IsRunLeased(w)
    BY <2>7, <2>1 DEF IsRunLeased, runVars, Executing
  <2>8. CASE LeaseAtItsLimit(w)
    <3>1. wRun[w] \in Runs /\ \A v \in Workers : ~Executes(v, wRun[w])
      BY <2>8 DEF LeaseAtItsLimit, RunLeaseMayExpire, Holding, HasRun
    <3>2. /\ pc'[w] \notin Executing
          /\ \A q \in Runs \ {wRun[w]} : runStatus'[q] = runStatus[q] /\ runLease'[q] = runLease[q]
      BY <2>8 DEF LeaseAtItsLimit, Executing
    <3> QED
      BY <3>1, <3>2, <2>3
  <2>9. CASE LookupStep(w) \/ CreateStep(w)
    BY <2>9, <2>1 DEF LookupStep, CreateStep, runVars, execVars, Executing
  <2>10. CASE RecordStep(w)
    BY <2>10, <2>1 DEF RecordStep, Executing
  <2>11. CASE FinishRun(w)
    <3>1. wRun[w] \in Runs /\ Executes(w, wRun[w])
      BY <2>11 DEF FinishRun, Holding, HasRun, Executes, Executing
    <3>2. \A v \in Workers \ {w} : ~Executes(v, wRun[w])
      BY <3>1 DEF Alone
    <3>3. pc'[w] \notin Executing
      BY <2>11 DEF FinishRun, LeaveRun, Executing
    <3>4. \A q \in Runs \ {wRun[w]} : runStatus'[q] = runStatus[q] /\ runLease'[q] = runLease[q]
      BY <2>11 DEF FinishRun
    <3> QED
      BY <3>1, <3>2, <3>3, <3>4, <2>3
  <2>12. CASE RaiseRunFailureAlert(w) \/ RaiseSweepAlert(w)
    BY <2>12, <2>1 DEF RaiseRunFailureAlert, RaiseSweepAlert, LeaveRun, runVars, Executing
  <2>13. CASE SettleEvent(w) \/ ReleaseEventAfterError(w) \/ RaiseEventAlert(w)
    BY <2>13, <2>1 DEF SettleEvent, ReleaseEventAfterError, RaiseEventAlert, DropEvent, runVars,
       Executing
  <2>14. CASE SweepStaleRun(w)
    <3>1. PICK r \in Sweepable : /\ runStatus' = [runStatus EXCEPT ![r] = "failed"]
                                 /\ runLease' = [runLease EXCEPT ![r] = "none"]
      BY <2>14 DEF SweepStaleRun
    <3>2. r \in Runs /\ \A v \in Workers : ~Executes(v, r)
      BY DEF Sweepable, Leased
    <3>3. pc'[w] \notin Executing
      BY <2>14 DEF SweepStaleRun, Executing
    <3> QED
      BY <3>1, <3>2, <3>3, <2>3
  <2>15. CASE DbError(w) \/ Crash(w)
    BY <2>15, <2>1 DEF DbError, Crash, runVars, Executing
  <2>16. ASSUME NEW r \in Runs, RerunRun(w, r) PROVE OthersKept(w) /\ OwnRun(w)
    BY <2>16, <2>2, ClaimTakesFreeRun DEF RerunRun
  <2> QED
    BY <1>1, <2>4, <2>5, <2>6, <2>7, <2>8, <2>9, <2>10, <2>11, <2>12, <2>13, <2>14, <2>15, <2>16
    DEF StepOf, WorkerStep
<1>2. ASSUME NEW r \in Runs, RunLeaseExpires(r) PROVE Leased' /\ Alone'
  BY <1>2 DEF RunLeaseExpires, RunLeaseMayExpire, Leased, Alone, Executes, execVars
<1>3. ASSUME UNCHANGED <<pc, wRun, runStatus, runLease>> PROVE Leased' /\ Alone'
  BY <1>3 DEF Leased, Alone, Executes
<1> QED
  BY <1>1, <1>2, <1>3, WorkerFrame, ExclusiveKept
  DEF Next, StepOf, vars, runVars, execVars, Emit, EventLeaseExpires

(* Only CreateStep makes an object, and it makes the first of its step.     *)
LEMMA MadeOnceNext ==
    ASSUME TypeOK, Holding, RunLeaseHolds, Alone, CreatesFirst, MadeOnce, [Next]_vars
    PROVE  CreatesFirst' /\ MadeOnce'
<1> USE DEF TypeOK, OutcomeTypes, ExecTypes
<1>1. ASSUME NEW w \in Workers, Frame(w), UNCHANGED made, pc'[w] # "create"
      PROVE  CreatesFirst' /\ MadeOnce'
  BY <1>1 DEF CreatesFirst, MadeOnce, Frame
<1>2. ASSUME UNCHANGED <<made, pc, wRun, cur>> PROVE CreatesFirst' /\ MadeOnce'
  BY <1>2 DEF CreatesFirst, MadeOnce
<1>3. ASSUME NEW w \in Workers, LookupStep(w), Frame(w) PROVE CreatesFirst' /\ MadeOnce'
  BY <1>3 DEF LookupStep, StepOutcome, CreatesFirst, MadeOnce, Frame
<1>4. ASSUME NEW w \in Workers, CreateStep(w), Frame(w) PROVE CreatesFirst' /\ MadeOnce'
  <2>1. wRun[w] \in Runs /\ cur[w] \in Steps /\ made[wRun[w]][cur[w]] = 0
    BY <1>4 DEF CreateStep, CreatesFirst, Holding, HasRun, Executing
  <2>2. pc'[w] # "create" /\ (made' = made \/ made' = [made EXCEPT ![wRun[w]][cur[w]] = @ + 1])
    BY <1>4 DEF CreateStep, StepOutcome
  <2>3. \A r \in Runs : \A s \in Steps :
           made'[r][s] = made[r][s] \/ (r = wRun[w] /\ s = cur[w] /\ made'[r][s] = 1)
    BY <2>1, <2>2
  <2>4. MadeOnce'
    BY <2>3 DEF MadeOnce
  <2>5. ASSUME NEW v \in Workers, pc'[v] = "create" PROVE made'[wRun'[v]][cur'[v]] = 0
    <3>1. v # w /\ pc[v] = "create" /\ wRun'[v] = wRun[v] /\ cur'[v] = cur[v]
      BY <1>4, <2>2, <2>5 DEF Frame
    <3>2. wRun[v] \in Runs /\ wRun[v] # wRun[w]
      BY <1>4, <3>1, <2>1 DEF Alone, Executes, Executing, Holding, HasRun, CreateStep
    <3>3. made'[wRun[v]] = made[wRun[v]]
      BY <2>1, <2>2, <3>2
    <3> QED
      BY <3>1, <3>3 DEF CreatesFirst
  <2> QED
    BY <2>4, <2>5 DEF CreatesFirst
<1>5. ASSUME NEW w \in Workers, StepOf(w), ~LookupStep(w), ~CreateStep(w)
      PROVE  UNCHANGED made /\ pc'[w] # "create"
  <2>1. CASE ClaimRun(w) \/ RecordStep(w) \/ \E r \in Runs : RerunRun(w, r)
    BY <2>1 DEF ClaimRun, RecordStep, RerunRun, NextStep
  <2>2. CASE FinishRun(w) \/ RaiseRunFailureAlert(w) \/ RaiseSweepAlert(w) \/ SweepStaleRun(w)
    BY <2>2 DEF FinishRun, RaiseRunFailureAlert, RaiseSweepAlert, SweepStaleRun, LeaveRun
  <2>3. CASE SettleEvent(w) \/ ReleaseEventAfterError(w) \/ RaiseEventAlert(w)
    BY <2>3 DEF SettleEvent, ReleaseEventAfterError, RaiseEventAlert, DropEvent
  <2>4. CASE DbError(w) \/ Crash(w) \/ IsRunLeased(w) \/ LeaseAtItsLimit(w)
    BY <2>4 DEF DbError, Crash, IsRunLeased, LeaseAtItsLimit
  <2>5. CASE StartPass(w) \/ ClaimNextEvent(w) \/ EndPass(w) \/ GetOrCreateRun(w)
             \/ ClaimRunMisses(w) \/ EndSweep(w)
    BY <2>5 DEF StartPass, ClaimNextEvent, EndPass, GetOrCreateRun, ClaimRunMisses, EndSweep
  <2> QED
    BY <1>5, <2>1, <2>2, <2>3, <2>4, <2>5 DEF StepOf, WorkerStep
<1> QED
  BY <1>1, <1>2, <1>3, <1>4, <1>5, WorkerFrame
  DEF Next, StepOf, vars, execVars, Emit, EventLeaseExpires, RunLeaseExpires

LEMMA ExclusiveCorrect == Spec => [](TypeOK /\ Holding /\ Exclusive)
<1>1. Init => Exclusive
  BY DEF Init, Exclusive, Leased, Alone, CreatesFirst, MadeOnce, Executes, Executing
<1>2. TypeOK /\ Holding /\ Exclusive /\ [Next]_vars => Exclusive'
  BY LeasedAloneNext, MadeOnceNext DEF Exclusive
<1> QED
  BY <1>1, <1>2, TypeCorrect, PTL DEF Spec

(* A run is executed by one worker at a time, however many workers, events  *)
(* and runs there are, through crashes, failures, takeovers and reruns.     *)
THEOREM OneExecutorHolds == Spec => []OneExecutor
<1>1. Exclusive => OneExecutor
  BY DEF Exclusive, Alone, OneExecutor
<1> QED
  BY <1>1, ExclusiveCorrect, PTL

(* No step ever creates its object twice: the event may be redelivered and  *)
(* the run taken over or rerun any number of times.                         *)
THEOREM StepMadeOnceHolds == Spec => []StepMadeOnce
<1>1. Exclusive => StepMadeOnce
  BY DEF Exclusive, MadeOnce, StepMadeOnce
<1> QED
  BY <1>1, ExclusiveCorrect, PTL
=============================================================================
