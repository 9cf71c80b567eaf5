-------------------------- MODULE AutomationEngine --------------------------
(***************************************************************************)
(* The automation engine (apps/api/src/domain/automation/engine.ts): an    *)
(* outbox of domain events, one run per idempotency key, and any number of *)
(* workers (processes, kicks, HTTP calls) that drain the outbox at once.   *)
(*                                                                         *)
(* One atomic step of this module is one database call of the code; every  *)
(* await between two calls is a point where other workers move, where the  *)
(* process may die (Crash) and where the database may fail (DbError).      *)
(* Time is abstract: a lease is "fresh" until LeaseExpires makes it        *)
(* "stale", i.e. older than EVENT_LEASE_MS / RUN_LEASE_MS.                 *)
(***************************************************************************)
EXTENDS Integers, FiniteSets

CONSTANTS
    Workers,          \* concurrent callers of processPendingEvents / rerunRun
    NumEvents,        \* outbox events, numbered in created_at order
    Runs,             \* idempotency keys runKeyFor(rule, source, type, id)
    RunsOf,           \* RunsOf[e]: the keys of the enabled rules that match e
    NumSteps,         \* steps a handler declares (unneeded ones are skipped)
    MaxAttempts,      \* MAX_EVENT_ATTEMPTS
    RunLeaseHolds,    \* TRUE: no live worker outlasts RUN_LEASE_MS in a run
    EventLeaseHolds,  \* TRUE: no live worker outlasts EVENT_LEASE_MS
    MaxCrashes, MaxErrors, MaxReruns, MaxLimitHits,  \* bounds of the environment
    NoRun             \* wRun of a worker that holds no run

Events == 1..NumEvents
NoEvent == 0
Steps == 1..NumSteps

ASSUME ConstantsAssumption ==
    /\ IsFiniteSet(Workers) /\ IsFiniteSet(Runs)
    /\ NumEvents \in Nat /\ NumSteps \in Nat \ {0}
    /\ RunsOf \in [Events -> SUBSET Runs]
    /\ MaxAttempts \in Nat \ {0}
    /\ RunLeaseHolds \in BOOLEAN /\ EventLeaseHolds \in BOOLEAN
    /\ MaxCrashes \in Nat /\ MaxErrors \in Nat /\ MaxReruns \in Nat
    /\ MaxLimitHits \in Nat
    /\ NoRun \notin Runs

VARIABLES
    evState,     \* absent | open | processed | abandoned (gave up, processed_at set)
    evLease,     \* claimed_at: none | fresh | stale
    evAttempts,  \* attempts
    runStatus,   \* none (no document) | pending | running | done | failed
    runLease,    \* claimed_at
    runSteps,    \* steps: the status recorded for each step
    runAttempts, \* attempts
    runEvent,    \* event_id: the event that created the run
    made,        \* how many objects the body of a step has created
    runAlerts,   \* dedupe keys of run alerts: the attempts alerted for each run
    eventAlerts, \* dedupe keys of event alerts: the events alerted
    pc, wEvent, wTries, todo, waiting, deferred, sawEvent,  \* processPendingEvents
    wRun, wAttempt, snap, cur,                              \* executeRunSteps
    crashes, errors, reruns, limitHits

evVars  == <<evState, evLease, evAttempts>>
runVars == <<runStatus, runLease, runSteps, runAttempts, runEvent>>
passVars == <<wEvent, wTries, todo, waiting, deferred, sawEvent>>
execVars == <<wRun, wAttempt, snap, cur>>
envVars == <<crashes, errors, reruns, limitHits>>
alerts == <<runAlerts, eventAlerts>>
vars == <<evVars, runVars, made, alerts, pc, passVars, execVars, envVars>>

StepStatus == {"pending", "done", "skipped", "failed"}
Finished(status) == status \in {"done", "skipped"}
NoSteps == [s \in Steps |-> "pending"]

(***************************************************************************)
(* pc of a worker.                                                         *)
(***************************************************************************)
Executing == {"lookup", "create", "record", "finish"}  \* inside executeRunSteps
InEvent == Executing \cup {"rules", "claim", "check", "alert", "release", "giveup"}
PC == InEvent \cup {"idle", "loop", "sweep", "sweepAlert"}

Holds(w, e) == wEvent[w] = e          \* w is processing event e
Executes(w, r) == wRun[w] = r /\ pc[w] \in Executing
Rerunning(w) == wEvent[w] = NoEvent   \* meaningful while w executes a run

Init ==
    /\ evState = [e \in Events |-> "absent"]
    /\ evLease = [e \in Events |-> "none"]
    /\ evAttempts = [e \in Events |-> 0]
    /\ runStatus = [r \in Runs |-> "none"]
    /\ runLease = [r \in Runs |-> "none"]
    /\ runSteps = [r \in Runs |-> NoSteps]
    /\ runAttempts = [r \in Runs |-> 0]
    /\ runEvent = [r \in Runs |-> NoEvent]
    /\ made = [r \in Runs |-> [s \in Steps |-> 0]]
    /\ runAlerts = [r \in Runs |-> {}]
    /\ eventAlerts = {}
    /\ pc = [w \in Workers |-> "idle"]
    /\ wEvent = [w \in Workers |-> NoEvent]
    /\ wTries = [w \in Workers |-> 0]
    /\ todo = [w \in Workers |-> {}]
    /\ waiting = [w \in Workers |-> FALSE]
    /\ deferred = [w \in Workers |-> {}]
    /\ sawEvent = [w \in Workers |-> FALSE]
    /\ wRun = [w \in Workers |-> NoRun]
    /\ wAttempt = [w \in Workers |-> 0]
    /\ snap = [w \in Workers |-> NoSteps]
    /\ cur = [w \in Workers |-> 1]
    /\ crashes = 0 /\ errors = 0 /\ reruns = 0 /\ limitHits = 0

-----------------------------------------------------------------------------
(* The outbox: emitDomainEvent inserts events in created_at order.          *)
Emit(e) ==
    /\ evState[e] = "absent"
    /\ \A f \in Events : f < e => evState[f] # "absent"
    /\ evState' = [evState EXCEPT ![e] = "open"]
    /\ UNCHANGED <<evLease, evAttempts, runVars, made, alerts, pc, passVars, execVars, envVars>>

(* Time: a lease passes its limit. With the Holds constants TRUE only the   *)
(* lease of a dead holder does.                                             *)
EventLeaseExpires(e) ==
    /\ evLease[e] = "fresh"
    /\ EventLeaseHolds => \A w \in Workers : ~Holds(w, e)
    /\ evLease' = [evLease EXCEPT ![e] = "stale"]
    /\ UNCHANGED <<evState, evAttempts, runVars, made, alerts, pc, passVars, execVars, envVars>>

RunLeaseMayExpire(r) == RunLeaseHolds => \A w \in Workers : ~Executes(w, r)

RunLeaseExpires(r) ==
    /\ runLease[r] = "fresh"
    /\ RunLeaseMayExpire(r)
    /\ runLease' = [runLease EXCEPT ![r] = "stale"]
    /\ UNCHANGED <<evVars, runStatus, runSteps, runAttempts, runEvent, made, alerts, pc,
                   passVars, execVars, envVars>>

-----------------------------------------------------------------------------
(* processPendingEvents: one pass over the outbox.                          *)
StartPass(w) ==
    /\ pc[w] = "idle"
    /\ pc' = [pc EXCEPT ![w] = "loop"]
    /\ UNCHANGED <<evVars, runVars, made, alerts, passVars, execVars, envVars>>

(* claimNextEvent's filter: unprocessed, unclaimed or past its lease, not   *)
(* deferred by this pass.                                                   *)
(* Mutant: a stale claim is never taken over. *)
ClaimableUnclaimed(w) == {e \in Events : evState[e] = "open" /\ evLease[e] = "none"
                                         /\ e \notin deferred[w]}

Claimable(w) == {e \in Events : /\ evState[e] = "open"
                                /\ evLease[e] # "fresh"
                                /\ e \notin deferred[w]}

(* Mutant: the claim sets attempts to 1 instead of incrementing it. *)
ClaimNextEventResets(w) ==
    /\ pc[w] = "loop"
    /\ \E e \in Claimable(w) :
        /\ \A f \in Claimable(w) : e <= f
        /\ evLease' = [evLease EXCEPT ![e] = "fresh"]
        /\ evAttempts' = [evAttempts EXCEPT ![e] = 1]
        /\ wEvent' = [wEvent EXCEPT ![w] = e]
        /\ wTries' = [wTries EXCEPT ![w] = 1]
        /\ todo' = [todo EXCEPT ![w] = RunsOf[e]]
    /\ waiting' = [waiting EXCEPT ![w] = FALSE]
    /\ sawEvent' = [sawEvent EXCEPT ![w] = TRUE]
    /\ pc' = [pc EXCEPT ![w] = "rules"]
    /\ UNCHANGED <<evState, runVars, made, alerts, deferred, execVars, envVars>>

ClaimNextEvent(w) ==
    /\ pc[w] = "loop"
    /\ \E e \in Claimable(w) :
        /\ \A f \in Claimable(w) : e <= f
        /\ evLease' = [evLease EXCEPT ![e] = "fresh"]
        /\ evAttempts' = [evAttempts EXCEPT ![e] = @ + 1]
        /\ wEvent' = [wEvent EXCEPT ![w] = e]
        /\ wTries' = [wTries EXCEPT ![w] = evAttempts[e] + 1]
        /\ todo' = [todo EXCEPT ![w] = RunsOf[e]]
    /\ waiting' = [waiting EXCEPT ![w] = FALSE]
    /\ sawEvent' = [sawEvent EXCEPT ![w] = TRUE]
    /\ pc' = [pc EXCEPT ![w] = "rules"]
    /\ UNCHANGED <<evState, runVars, made, alerts, deferred, execVars, envVars>>

(* Mutant: a pass never sweeps. *)
EndPassNoSweep(w) ==
    /\ pc[w] = "loop"
    /\ Claimable(w) = {}
    /\ pc' = [pc EXCEPT ![w] = "idle"]
    /\ deferred' = [deferred EXCEPT ![w] = {}]
    /\ sawEvent' = [sawEvent EXCEPT ![w] = FALSE]
    /\ UNCHANGED <<evVars, runVars, made, alerts, wEvent, wTries, todo, waiting, execVars, envVars>>

(* The outbox has nothing to claim: the pass ends, and sweeps when it saw   *)
(* no event at all (summary.events === 0).                                  *)
EndPass(w) ==
    /\ pc[w] = "loop"
    /\ Claimable(w) = {}
    /\ pc' = [pc EXCEPT ![w] = IF sawEvent[w] THEN "idle" ELSE "sweep"]
    /\ deferred' = [deferred EXCEPT ![w] = {}]
    /\ sawEvent' = [sawEvent EXCEPT ![w] = FALSE]
    /\ UNCHANGED <<evVars, runVars, made, alerts, wEvent, wTries, todo, waiting, execVars, envVars>>

(* processEvent, next matching rule: getOrCreateRun upserts by idem_key.    *)
GetOrCreateRun(w) ==
    /\ pc[w] = "rules"
    /\ \E r \in todo[w] :
        /\ wRun' = [wRun EXCEPT ![w] = r]
        /\ todo' = [todo EXCEPT ![w] = @ \ {r}]
        /\ runStatus' = [runStatus EXCEPT ![r] = IF @ = "none" THEN "pending" ELSE @]
        /\ runEvent' = [runEvent EXCEPT ![r] = IF runStatus[r] = "none" THEN wEvent[w] ELSE @]
    /\ pc' = [pc EXCEPT ![w] = "claim"]
    /\ UNCHANGED <<evVars, runLease, runSteps, runAttempts, made, alerts, wEvent, wTries,
                   waiting, deferred, sawEvent, wAttempt, snap, cur, envVars>>

(* Mutant: a running run is taken over whatever the age of its lease. *)
CanClaimRunLeased(r, from) == runStatus[r] \in from \/ runStatus[r] = "running"

(* claimRun's filter and update, shared by processEvent and rerunRun.       *)
CanClaimRun(r, from) ==
    runStatus[r] \in from \/ (runStatus[r] = "running" /\ runLease[r] = "stale")

(* Mutant: the worker starts from fresh step records, not from the run's. *)
TakeRunAfresh(w, r) ==
    /\ runStatus' = [runStatus EXCEPT ![r] = "running"]
    /\ runLease' = [runLease EXCEPT ![r] = "fresh"]
    /\ runAttempts' = [runAttempts EXCEPT ![r] = @ + 1]
    /\ wAttempt' = [wAttempt EXCEPT ![w] = runAttempts[r] + 1]
    /\ snap' = [snap EXCEPT ![w] = NoSteps]
    /\ UNCHANGED <<runSteps, runEvent>>

(* Mutant: the claim returns the run as it was before the update. *)
TakeRunBefore(w, r) ==
    /\ runStatus' = [runStatus EXCEPT ![r] = "running"]
    /\ runLease' = [runLease EXCEPT ![r] = "fresh"]
    /\ runAttempts' = [runAttempts EXCEPT ![r] = @ + 1]
    /\ wAttempt' = [wAttempt EXCEPT ![w] = runAttempts[r]]
    /\ snap' = [snap EXCEPT ![w] = runSteps[r]]
    /\ UNCHANGED <<runSteps, runEvent>>

TakeRun(w, r) ==
    /\ runStatus' = [runStatus EXCEPT ![r] = "running"]
    /\ runLease' = [runLease EXCEPT ![r] = "fresh"]
    /\ runAttempts' = [runAttempts EXCEPT ![r] = @ + 1]
    /\ wAttempt' = [wAttempt EXCEPT ![w] = runAttempts[r] + 1]
    /\ snap' = [snap EXCEPT ![w] = runSteps[r]]
    /\ UNCHANGED <<runSteps, runEvent>>

(* The loop of executeRunSteps goes to the first step not yet done.         *)
Unfinished(f) == {s \in Steps : ~Finished(f[s])}

NextStep(w, f) ==
    IF Unfinished(f) = {}
    THEN pc' = [pc EXCEPT ![w] = "finish"] /\ UNCHANGED cur
    ELSE /\ pc' = [pc EXCEPT ![w] = "lookup"]
         /\ \E s \in Unfinished(f) : /\ \A t \in Unfinished(f) : s <= t
                                     /\ cur' = [cur EXCEPT ![w] = s]

ClaimRun(w) ==
    /\ pc[w] = "claim"
    /\ CanClaimRun(wRun[w], {"pending"})
    /\ TakeRun(w, wRun[w])
    /\ NextStep(w, runSteps[wRun[w]])
    /\ UNCHANGED <<evVars, made, alerts, passVars, wRun, envVars>>

ClaimRunMisses(w) ==
    /\ pc[w] = "claim"
    /\ ~CanClaimRun(wRun[w], {"pending"})
    /\ pc' = [pc EXCEPT ![w] = "check"]
    /\ UNCHANGED <<evVars, runVars, made, alerts, passVars, execVars, envVars>>

(* isRunLeased: a run another worker still leases makes the event wait.     *)
IsRunLeased(w) ==
    /\ pc[w] = "check"
    /\ waiting' = [waiting EXCEPT ![w] = @ \/ runStatus[wRun[w]] = "running"]
    /\ wRun' = [wRun EXCEPT ![w] = NoRun]
    /\ pc' = [pc EXCEPT ![w] = "rules"]
    /\ UNCHANGED <<evVars, runVars, made, alerts, wEvent, wTries, todo, deferred, sawEvent,
                   wAttempt, snap, cur, envVars>>

(* claimRun asks claimed_at < now - lease, isRunLeased asks claimed_at >    *)
(* now - lease with the same now: at exactly the limit the run is neither   *)
(* taken over nor waited for, and from then on it is stale.                 *)
LeaseAtItsLimit(w) ==
    /\ pc[w] = "check"
    /\ runStatus[wRun[w]] = "running" /\ runLease[wRun[w]] = "fresh"
    /\ RunLeaseMayExpire(wRun[w])
    /\ limitHits < MaxLimitHits
    /\ limitHits' = limitHits + 1
    /\ runLease' = [runLease EXCEPT ![wRun[w]] = "stale"]
    /\ wRun' = [wRun EXCEPT ![w] = NoRun]
    /\ pc' = [pc EXCEPT ![w] = "rules"]
    /\ UNCHANGED <<evVars, runStatus, runSteps, runAttempts, runEvent, made, alerts, passVars,
                   wAttempt, snap, cur, crashes, errors, reruns>>

-----------------------------------------------------------------------------
(* executeRunSteps. A step body looks for the object of its run            *)
(* (findAutoVoucher and the like, by origin.run_id) and creates it when     *)
(* there is none: two database calls.                                       *)
StepOutcome(w, status) ==
    /\ snap' = [snap EXCEPT ![w][cur[w]] = status]
    /\ pc' = [pc EXCEPT ![w] = "record"]

(* Mutant: the body creates without looking for its object first. *)
LookupStepBlind(w) ==
    /\ pc[w] = "lookup"
    /\ \/ StepOutcome(w, "skipped")
       \/ StepOutcome(w, "failed")
       \/ pc' = [pc EXCEPT ![w] = "create"] /\ UNCHANGED snap
    /\ UNCHANGED <<evVars, runVars, made, alerts, passVars, wRun, wAttempt, cur, envVars>>

LookupStep(w) ==
    /\ pc[w] = "lookup"
    /\ \/ StepOutcome(w, "skipped")                       \* nothing to do
       \/ StepOutcome(w, "failed")                        \* a check throws
       \/ made[wRun[w]][cur[w]] > 0 /\ StepOutcome(w, "done")
       \/ /\ made[wRun[w]][cur[w]] = 0
          /\ pc' = [pc EXCEPT ![w] = "create"]
          /\ UNCHANGED snap
    /\ UNCHANGED <<evVars, runVars, made, alerts, passVars, wRun, wAttempt, cur, envVars>>

CreateStep(w) ==
    /\ pc[w] = "create"
    /\ \/ StepOutcome(w, "done") /\ made' = [made EXCEPT ![wRun[w]][cur[w]] = @ + 1]
       \/ StepOutcome(w, "failed") /\ made' = [made EXCEPT ![wRun[w]][cur[w]] = @ + 1]
       \/ StepOutcome(w, "failed") /\ UNCHANGED made
    /\ UNCHANGED <<evVars, runVars, alerts, passVars, wRun, wAttempt, cur, envVars>>

(* updateOne({_id}, {steps: records}): by _id only, without the lease.      *)
RecordStep(w) ==
    /\ pc[w] = "record"
    /\ runSteps' = [runSteps EXCEPT ![wRun[w]] = snap[w]]
    /\ IF snap[w][cur[w]] = "failed"
       THEN pc' = [pc EXCEPT ![w] = "finish"] /\ UNCHANGED cur
       ELSE NextStep(w, snap[w])
    /\ UNCHANGED <<evVars, runStatus, runLease, runAttempts, runEvent, made, alerts, passVars,
                   wRun, wAttempt, snap, envVars>>

(* After the run: back to processEvent's rule loop, or out of rerunRun.     *)
LeaveRun(w) ==
    /\ wRun' = [wRun EXCEPT ![w] = NoRun]
    /\ wAttempt' = [wAttempt EXCEPT ![w] = 0]
    /\ pc' = [pc EXCEPT ![w] = IF Rerunning(w) THEN "idle" ELSE "rules"]

FinishRun(w) ==
    /\ pc[w] = "finish"
    /\ runSteps' = [runSteps EXCEPT ![wRun[w]] = snap[w]]
    /\ runLease' = [runLease EXCEPT ![wRun[w]] = "none"]
    /\ snap' = [snap EXCEPT ![w] = NoSteps]
    /\ cur' = [cur EXCEPT ![w] = 1]
    /\ IF Unfinished(snap[w]) = {}
       THEN /\ runStatus' = [runStatus EXCEPT ![wRun[w]] = "done"]
            /\ LeaveRun(w)
       ELSE /\ runStatus' = [runStatus EXCEPT ![wRun[w]] = "failed"]
            /\ pc' = [pc EXCEPT ![w] = "alert"]
            /\ UNCHANGED <<wRun, wAttempt>>
    /\ UNCHANGED <<evVars, runAttempts, runEvent, made, alerts, passVars, envVars>>

(* raiseAlert upserts by dedupe_key (runFailureAlertKey: run and attempt)   *)
(* and swallows its own errors: the alert may be lost.                      *)
AlertIsLost ==
    /\ errors < MaxErrors
    /\ errors' = errors + 1
    /\ UNCHANGED alerts

RaiseRunAlert(r, attempt) ==
    \/ /\ runAlerts' = [runAlerts EXCEPT ![r] = @ \cup {attempt}]
       /\ UNCHANGED <<eventAlerts, errors>>
    \/ AlertIsLost

RaiseRunFailureAlert(w) ==
    /\ pc[w] = "alert"
    /\ RaiseRunAlert(wRun[w], wAttempt[w])
    /\ LeaveRun(w)
    /\ UNCHANGED <<evVars, runVars, made, passVars, snap, cur, crashes, reruns, limitHits>>

-----------------------------------------------------------------------------
(* The end of one event in processPendingEvents.                            *)
DropEvent(w) ==
    /\ pc' = [pc EXCEPT ![w] = "loop"]
    /\ wEvent' = [wEvent EXCEPT ![w] = NoEvent]
    /\ wTries' = [wTries EXCEPT ![w] = 0]
    /\ todo' = [todo EXCEPT ![w] = {}]
    /\ waiting' = [waiting EXCEPT ![w] = FALSE]

(* Mutant: the event is processed although it found a leased run. *)
SettleEventAtOnce(w) ==
    /\ pc[w] = "rules"
    /\ todo[w] = {}
    /\ evLease' = [evLease EXCEPT ![wEvent[w]] = "none"]
    /\ evState' = [evState EXCEPT ![wEvent[w]] = "processed"]
    /\ DropEvent(w)
    /\ UNCHANGED <<evAttempts, deferred, runVars, made, alerts, sawEvent, execVars, envVars>>

(* A run is still leased elsewhere: release the event and give the attempt  *)
(* back. Otherwise the event is processed. Both by _id only.                *)
SettleEvent(w) ==
    /\ pc[w] = "rules"
    /\ todo[w] = {}
    /\ evLease' = [evLease EXCEPT ![wEvent[w]] = "none"]
    /\ \/ /\ waiting[w]
          /\ evAttempts' = [evAttempts EXCEPT ![wEvent[w]] = @ - 1]
          /\ deferred' = [deferred EXCEPT ![w] = @ \cup {wEvent[w]}]
          /\ UNCHANGED evState
       \/ /\ ~waiting[w]
          /\ evState' = [evState EXCEPT ![wEvent[w]] = "processed"]
          /\ UNCHANGED <<evAttempts, deferred>>
    /\ DropEvent(w)
    /\ UNCHANGED <<runVars, made, alerts, sawEvent, execVars, envVars>>

(* An exception out of a call of processEvent or of the settling update     *)
(* (those of a step body are a failed step, those of raiseAlert are lost).  *)
DbError(w) ==
    /\ pc[w] \in {"rules", "claim", "check", "record", "finish"}
    /\ ~Rerunning(w)
    /\ errors < MaxErrors
    /\ errors' = errors + 1
    /\ pc' = [pc EXCEPT ![w] = "release"]
    /\ wRun' = [wRun EXCEPT ![w] = NoRun]
    /\ wAttempt' = [wAttempt EXCEPT ![w] = 0]
    /\ snap' = [snap EXCEPT ![w] = NoSteps]
    /\ cur' = [cur EXCEPT ![w] = 1]
    /\ UNCHANGED <<evVars, runVars, made, alerts, passVars, crashes, reruns, limitHits>>

GivesUp(w) == wTries[w] >= MaxAttempts

ReleaseEventAfterError(w) ==
    /\ pc[w] = "release"
    /\ evLease' = [evLease EXCEPT ![wEvent[w]] = "none"]
    /\ \/ /\ GivesUp(w)
          /\ evState' = [evState EXCEPT ![wEvent[w]] = IF @ = "open" THEN "abandoned" ELSE @]
          /\ pc' = [pc EXCEPT ![w] = "giveup"]
          /\ UNCHANGED <<wEvent, wTries, todo, waiting>>
       \/ ~GivesUp(w) /\ DropEvent(w) /\ UNCHANGED evState
    /\ UNCHANGED <<evAttempts, runVars, made, alerts, deferred, sawEvent, execVars, envVars>>

RaiseEventAlert(w) ==
    /\ pc[w] = "giveup"
    /\ \/ /\ eventAlerts' = eventAlerts \cup {wEvent[w]}
          /\ UNCHANGED <<runAlerts, errors>>
       \/ AlertIsLost
    /\ DropEvent(w)
    /\ UNCHANGED <<evVars, runVars, made, deferred, sawEvent, execVars, crashes, reruns, limitHits>>

-----------------------------------------------------------------------------
(* sweepStaleRuns: a run past its lease is marked failed, unless the event  *)
(* that created it is still unprocessed and will take it over.              *)
Sweepable == {r \in Runs : /\ runStatus[r] = "running" /\ runLease[r] = "stale"
                           /\ evState[runEvent[r]] # "open"}

SweepStaleRun(w) ==
    /\ pc[w] = "sweep"
    /\ \E r \in Sweepable :
        /\ runStatus' = [runStatus EXCEPT ![r] = "failed"]
        /\ runLease' = [runLease EXCEPT ![r] = "none"]
        /\ wRun' = [wRun EXCEPT ![w] = r]
        /\ wAttempt' = [wAttempt EXCEPT ![w] = runAttempts[r]]
    /\ pc' = [pc EXCEPT ![w] = "sweepAlert"]
    /\ UNCHANGED <<evVars, runSteps, runAttempts, runEvent, made, alerts, passVars, snap, cur, envVars>>

RaiseSweepAlert(w) ==
    /\ pc[w] = "sweepAlert"
    /\ RaiseRunAlert(wRun[w], wAttempt[w])
    /\ wRun' = [wRun EXCEPT ![w] = NoRun]
    /\ wAttempt' = [wAttempt EXCEPT ![w] = 0]
    /\ pc' = [pc EXCEPT ![w] = "sweep"]
    /\ UNCHANGED <<evVars, runVars, made, passVars, snap, cur, crashes, reruns, limitHits>>

EndSweep(w) ==
    /\ pc[w] = "sweep"
    /\ Sweepable = {}
    /\ pc' = [pc EXCEPT ![w] = "idle"]
    /\ UNCHANGED <<evVars, runVars, made, alerts, passVars, execVars, envVars>>

-----------------------------------------------------------------------------
(* rerunRun, on request of a user: the unfinished steps of a failed run, or *)
(* of one whose worker is past its lease. Any other run is refused.         *)
RerunRun(w, r) ==
    /\ pc[w] = "idle"
    /\ reruns < MaxReruns
    /\ CanClaimRun(r, {"failed"})
    /\ reruns' = reruns + 1
    /\ wRun' = [wRun EXCEPT ![w] = r]
    /\ TakeRun(w, r)
    /\ NextStep(w, runSteps[r])
    /\ UNCHANGED <<evVars, made, alerts, passVars, crashes, errors, limitHits>>

(* The process dies (or an error escapes processPendingEvents / rerunRun)   *)
(* and the worker starts over; its leases stay in the database.             *)
Crash(w) ==
    /\ pc[w] # "idle"
    /\ crashes < MaxCrashes
    /\ crashes' = crashes + 1
    /\ pc' = [pc EXCEPT ![w] = "idle"]
    /\ wEvent' = [wEvent EXCEPT ![w] = NoEvent]
    /\ wTries' = [wTries EXCEPT ![w] = 0]
    /\ todo' = [todo EXCEPT ![w] = {}]
    /\ waiting' = [waiting EXCEPT ![w] = FALSE]
    /\ deferred' = [deferred EXCEPT ![w] = {}]
    /\ sawEvent' = [sawEvent EXCEPT ![w] = FALSE]
    /\ wRun' = [wRun EXCEPT ![w] = NoRun]
    /\ wAttempt' = [wAttempt EXCEPT ![w] = 0]
    /\ snap' = [snap EXCEPT ![w] = NoSteps]
    /\ cur' = [cur EXCEPT ![w] = 1]
    /\ UNCHANGED <<evVars, runVars, made, alerts, errors, reruns, limitHits>>

-----------------------------------------------------------------------------
WorkerStep(w) ==
    \/ StartPass(w) \/ ClaimNextEvent(w) \/ EndPass(w)
    \/ GetOrCreateRun(w) \/ ClaimRun(w) \/ ClaimRunMisses(w)
    \/ IsRunLeased(w) \/ LeaseAtItsLimit(w)
    \/ LookupStep(w) \/ CreateStep(w) \/ RecordStep(w) \/ FinishRun(w)
    \/ RaiseRunFailureAlert(w) \/ SettleEvent(w)
    \/ ReleaseEventAfterError(w) \/ RaiseEventAlert(w)
    \/ SweepStaleRun(w) \/ RaiseSweepAlert(w) \/ EndSweep(w)

Next ==
    \/ \E e \in Events : Emit(e) \/ EventLeaseExpires(e)
    \/ \E r \in Runs : RunLeaseExpires(r)
    \/ \E w \in Workers : \/ WorkerStep(w) \/ DbError(w) \/ Crash(w)
                          \/ \E r \in Runs : RerunRun(w, r)

Spec == Init /\ [][Next]_vars

(* The automation loop (every 5 s) and the kicks keep every worker passing; *)
(* time passes every lease. Users, crashes and errors owe nothing.          *)
Fairness ==
    /\ \A w \in Workers : WF_vars(WorkerStep(w))
    /\ \A e \in Events : WF_vars(EventLeaseExpires(e))
    /\ \A r \in Runs : WF_vars(RunLeaseExpires(r))

FairSpec == Spec /\ Fairness

-----------------------------------------------------------------------------
(* Every variable has its type. evAttempts is an integer here; that it      *)
(* never goes below the number of holders is AttemptsCoverHolders.          *)
EventTypes ==
    /\ evState \in [Events -> {"absent", "open", "processed", "abandoned"}]
    /\ evLease \in [Events -> {"none", "fresh", "stale"}]
    /\ evAttempts \in [Events -> Int]

RunTypes ==
    /\ runStatus \in [Runs -> {"none", "pending", "running", "done", "failed"}]
    /\ runLease \in [Runs -> {"none", "fresh", "stale"}]
    /\ runSteps \in [Runs -> [Steps -> StepStatus]]
    /\ runAttempts \in [Runs -> Nat]
    /\ runEvent \in [Runs -> Events \cup {NoEvent}]

OutcomeTypes ==
    /\ made \in [Runs -> [Steps -> Nat]]
    /\ runAlerts \in [Runs -> SUBSET Nat]
    /\ eventAlerts \subseteq Events

PassTypes ==
    /\ wEvent \in [Workers -> Events \cup {NoEvent}]
    /\ wTries \in [Workers -> Int]
    /\ todo \in [Workers -> SUBSET Runs]
    /\ waiting \in [Workers -> BOOLEAN]
    /\ deferred \in [Workers -> SUBSET Events]
    /\ sawEvent \in [Workers -> BOOLEAN]

ExecTypes ==
    /\ pc \in [Workers -> PC]
    /\ wRun \in [Workers -> Runs \cup {NoRun}]
    /\ wAttempt \in [Workers -> Nat]
    /\ snap \in [Workers -> [Steps -> StepStatus]]
    /\ cur \in [Workers -> Steps]

EnvTypes == crashes \in Nat /\ errors \in Nat /\ reruns \in Nat /\ limitHits \in Nat

TypeOK == EventTypes /\ RunTypes /\ OutcomeTypes /\ PassTypes /\ ExecTypes /\ EnvTypes

(* While no live worker outlasts its run lease, a run is executed by one    *)
(* worker at a time: claimRun hands it over only after the holder is gone.  *)
OneExecutor ==
    RunLeaseHolds =>
        \A v, w \in Workers : \A r \in Runs : Executes(v, r) /\ Executes(w, r) => v = w

(* No step creates its object twice, however often events are redelivered,  *)
(* runs are rerun or taken over, and workers die between creating and       *)
(* recording (the header's "khong xu ly trung", no double processing).      *)
StepMadeOnce ==
    RunLeaseHolds => \A r \in Runs : \A s \in Steps : made[r][s] <= 1

(* An interrupted run is not dropped with its event: once the event is      *)
(* processed, each run it matched has ended (unless a user reruns it, or it *)
(* was met at exactly its lease limit). A worker that finds a run leased    *)
(* elsewhere leaves the event open for the takeover.                        *)
ProcessedMeansFinished ==
    reruns = 0 /\ limitHits = 0 =>
        \A e \in Events : evState[e] = "processed" =>
            \A r \in RunsOf[e] : runStatus[r] \in {"done", "failed"}

(* attempts counts every holder that has not given its attempt back, so the *)
(* waiting branch ($inc -1) never erases the attempt of another holder.     *)
AttemptsCoverHolders ==
    \A e \in Events : evAttempts[e] >= Cardinality({w \in Workers : Holds(w, e)})

(* Absent crashes and lost alert writes, a failed run has the alert of its  *)
(* last attempt, or a worker about to write it.                             *)
FailureAlerted ==
    crashes = 0 /\ errors = 0 =>
        \A r \in Runs : runStatus[r] = "failed" =>
            \/ runAttempts[r] \in runAlerts[r]
            \/ \E w \in Workers : /\ pc[w] \in {"alert", "sweepAlert"}
                                  /\ wRun[w] = r /\ wAttempt[w] = runAttempts[r]

(* A done run stays done and a recorded step stays recorded: a takeover or  *)
(* a rerun never undoes progress.                                           *)
ProgressIsKept ==
    [][RunLeaseHolds => \A r \in Runs :
        /\ runStatus[r] = "done" => runStatus'[r] = "done"
        /\ \A s \in Steps : Finished(runSteps[r][s]) => runSteps'[r][s] = runSteps[r][s]]_vars

(* Every event of the outbox is eventually processed or given up.           *)
EventHandled == \A e \in Events : evState[e] = "open" ~> evState[e] # "open"

(* A run that was started ends, as done or as failed, whoever dies.         *)
RunSettles == \A r \in Runs : runStatus[r] = "running" ~> runStatus[r] \in {"done", "failed"}

-----------------------------------------------------------------------------
(* Refinement: seen through the database alone, each run keeps RunContract. *)
Leading(f) == Cardinality({s \in Steps : \A t \in 1..s : Finished(f[t])})

Contract == INSTANCE RunContract WITH
    outcome <- [r \in Runs |-> CASE runStatus[r] \in {"none", "pending"} -> "new"
                                  [] runStatus[r] = "running" -> "open"
                                  [] OTHER -> runStatus[r]],
    progress <- [r \in Runs |-> Leading(runSteps[r])],
    created <- made

(* The engine implements RunContract as long as no live worker outlasts its *)
(* run lease (checked with RunLeaseHolds = TRUE).                           *)
KeepsContract == Contract!Spec
=============================================================================
