---------------------- MODULE RecurringPaymentsProofs ----------------------
(***************************************************************************)
(* Proofs about RecurringPayments. What the engine is about to create was  *)
(* not there when it looked (NewInHand), it carries one event at a time,   *)
(* and the period of an event never changes, so a period keeps one draft,  *)
(* whatever the task emits twice and wherever the engine dies.             *)
(***************************************************************************)
EXTENDS RecurringPayments, TLAPS

RuleTyped == rule \in RuleSet /\ today \in Nat /\ rule.from <= today /\ today <= MaxDay[rule.cadence]
TaskTyped ==
    /\ tick \in {"due", "read", "emit", "done", "failed"}
    /\ missed \in 0..MaxMissed
EngineTyped ==
    /\ step.at \in {"idle", "look", "create", "stamp", "record"}
    /\ step = [at |-> step.at, event |-> step.event]
PlannedLater == \A e \in events : e.planned >= rule.from
NewInHand == step.at = "create" => Copies(step.event.period) = {}

Inv == RuleTyped /\ TaskTyped /\ EngineTyped /\ PlannedLater /\ NewInHand /\ OneDraft

-----------------------------------------------------------------------------
(* The day a period is due is not before the day it is looked for.          *)
LEMMA DivBounds == ASSUME NEW d \in Nat, NEW m \in Nat \ {0}
                   PROVE  /\ d \div m \in Nat
                          /\ d < (d \div m) * m + m
  OBVIOUS

LEMMA Distribute == ASSUME NEW q \in Nat, NEW k \in Nat, NEW m \in Nat
                    PROVE  (q + (k + 1)) * m = q * m + k * m + m
  OBVIOUS

LEMMA DueIsNotPast ==
    ASSUME RecurringAssumption, NEW r \in RuleSet, NEW d \in Nat, r.from <= d 
    PROVE  NextDue(r, d) >= d /\ NextDue(r, d) \in Int
<1> DEFINE here == DateOf(Month(d), r.day)
           after == DateOf(Month(d) + StepMonths(r.cadence), r.day)
           week == d + (((r.day % WeekDays) - (d % WeekDays) + WeekDays) % WeekDays)
<1>1. r \in [cadence : Cadences, day : 1..MonthDays, from : Nat] /\ MonthDays \in Nat \ {0} /\ WeekDays \in Nat \ {0}
  BY DEF RecurringAssumption
<1>2. week >= d /\ week \in Int
  BY <1>1
<1>3. after >= d /\ after \in Int /\ here \in Int
  <2>1. Month(d) \in Nat /\ d < Month(d) * MonthDays + MonthDays
    BY <1>1, DivBounds DEF Month
  <2>2. StepMonths(r.cadence) \in Nat \ {0}
    BY DEF StepMonths
  <2>3. PICK k \in Nat : StepMonths(r.cadence) = k + 1
    <3>1. StepMonths(r.cadence) - 1 \in Nat /\ StepMonths(r.cadence) = (StepMonths(r.cadence) - 1) + 1
      BY <2>2
    <3> QED BY <3>1
  <2>4. (Month(d) + (k + 1)) * MonthDays = Month(d) * MonthDays + k * MonthDays + MonthDays
    BY <1>1, <2>1, Distribute
  <2>5. k * MonthDays \in Nat /\ Month(d) * MonthDays \in Nat
    BY <1>1, <2>1
  <2> QED BY <1>1, <2>1, <2>3, <2>4, <2>5 DEF DateOf
<1>4. NextDue(r, d) = IF r.cadence = "weekly" THEN week ELSE IF here >= d THEN here ELSE after
  BY <1>1 DEF NextDue
<1> HIDE DEF here, after, week
<1> QED BY <1>2, <1>3, <1>4

-----------------------------------------------------------------------------
LEMMA InvInit == ASSUME RecurringAssumption, Init PROVE Inv
BY DEF RecurringAssumption, Init, Inv, RuleTyped, TaskTyped, EngineTyped, PlannedLater, NewInHand, OneDraft, Idle

LEMMA TaskStep ==
    ASSUME RecurringAssumption, Inv, ReadRules \/ LookForEvent \/ Emit \/ TaskFails \/ NextDay PROVE Inv'
<1> USE DEF Inv
<1>1. RuleTyped' /\ TaskTyped'
  BY DEF RecurringAssumption, RuleTyped, TaskTyped, ReadRules, LookForEvent, Emit, TaskFails, NextDay
<1>2. PlannedLater'
  <2>1. CASE Emit
    <3>1. Due >= rule.from
      <4>1. rule \in RuleSet /\ today \in Nat /\ rule.from <= today /\ rule.from \in Nat
        BY DEF RuleTyped, RecurringAssumption
      <4>2. Due >= today /\ Due \in Int
        BY <4>1, DueIsNotPast DEF Due
      <4> QED BY <4>1, <4>2
    <3> QED BY <2>1, <3>1 DEF Emit, PlannedLater
  <2>2. CASE ReadRules \/ LookForEvent \/ TaskFails \/ NextDay
    BY <2>2 DEF ReadRules, LookForEvent, TaskFails, NextDay, PlannedLater
  <2> QED BY <2>1, <2>2
<1>3. UNCHANGED <<step, drafts>>
  BY DEF ReadRules, LookForEvent, Emit, TaskFails, NextDay
<1> QED BY <1>1, <1>2, <1>3 DEF EngineTyped, NewInHand, OneDraft, Copies

LEMMA EngineStep == ASSUME RecurringAssumption, Inv, Engine \/ Crash \/ DeleteDraft PROVE Inv'
<1> USE DEF Inv
<1>1. RuleTyped' /\ TaskTyped'
  BY DEF RuleTyped, TaskTyped, Engine, Take, Look, Create, Stamp, Record, Crash, DeleteDraft
<1>2. PlannedLater'
  BY DEF PlannedLater, Engine, Take, Look, Create, Stamp, Record, Settle, Crash, DeleteDraft
<1> SUFFICES EngineTyped' /\ NewInHand' /\ OneDraft'
  BY <1>1, <1>2
<1>3. ASSUME NEW e \in events, Take(e) PROVE EngineTyped' /\ NewInHand' /\ OneDraft'
  BY <1>3 DEF Take, EngineTyped, NewInHand, OneDraft
<1>4. CASE Look
  BY <1>4 DEF Look, Settle, Idle, At, Drafted, EngineTyped, NewInHand, OneDraft, Copies
<1>5. CASE Create
  <2>1. step'.at = "stamp"
    BY <1>5 DEF Create, At
  <2>2. Copies(step.event.period) = {}
    BY <1>5 DEF Create, NewInHand
  <2>3. OneDraft'
    BY <1>5, <2>2 DEF Create, OneDraft, Copies
  <2>4. step' = [at |-> step'.at, event |-> step'.event]
    BY <1>5 DEF Create, At, EngineTyped
  <2> QED BY <2>1, <2>3, <2>4 DEF EngineTyped, NewInHand
<1>6. CASE Stamp \/ Record
  BY <1>6 DEF Stamp, Record, Settle, Idle, At, EngineTyped, NewInHand, OneDraft
<1>7. CASE Crash
  BY <1>7 DEF Crash, Idle, EngineTyped, NewInHand, OneDraft
<1>8. CASE DeleteDraft
  BY <1>8 DEF DeleteDraft, EngineTyped, NewInHand, OneDraft, Copies
<1> QED BY <1>3, <1>4, <1>5, <1>6, <1>7, <1>8 DEF Engine

LEMMA InvHolds == ASSUME RecurringAssumption PROVE Spec => []Inv
<1>1. Init => Inv
  BY InvInit
<1>2. Inv /\ [Next]_vars => Inv'
  <2>1. Inv /\ UNCHANGED vars => Inv'
    BY DEF vars, Inv, RuleTyped, TaskTyped, EngineTyped, PlannedLater, NewInHand, OneDraft, Copies
  <2> QED BY <2>1, TaskStep, EngineStep DEF Next
<1> QED BY <1>1, <1>2, PTL DEF Spec

(* The task, the engine and the planned days keep their ranges, for every   *)
(* set of rules and any calendar.                                           *)
THEOREM TypeCorrect == ASSUME RecurringAssumption PROVE Spec => []TypeOK
<1>1. Inv => TypeOK
  BY DEF Inv, RuleTyped, TaskTyped, EngineTyped, PlannedLater, TypeOK, RecurringAssumption
<1> QED BY <1>1, InvHolds, PTL

(* A period has at most one draft, for every set of rules, any number of    *)
(* crashes, missed days and deletions.                                      *)
THEOREM OneDraftHolds == ASSUME RecurringAssumption PROVE Spec => []OneDraft
<1>1. Inv => OneDraft
  BY DEF Inv
<1> QED BY <1>1, InvHolds, PTL
=============================================================================
