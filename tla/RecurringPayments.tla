------------------------ MODULE RecurringPayments ------------------------
(***************************************************************************)
(* Recurring expenses (apps/api/src/domain/recurring/index.ts, rule R5 in  *)
(* domain/automation/rules/r5-recurring.ts, the job window of              *)
(* jobs/index.ts).                                                         *)
(*                                                                         *)
(* Once a day the task `recurring` looks at every rule and emits a         *)
(* schedule event for the next period within the look-ahead; the           *)
(* automation engine carries each event out by creating the draft voucher  *)
(* of that period. The task may die half way or not run at all, the engine *)
(* may die between any two writes and repeat the event, the chief          *)
(* accountant's seat may be empty, and the draft may be deleted.           *)
(*                                                                         *)
(* A date is a number of days; a month has MonthDays of them. That an      *)
(* event is carried out by one executor at a time is shown of the engine   *)
(* (AutomationEngine!OneExecutor) and taken over here.                     *)
(***************************************************************************)
EXTENDS Integers, FiniteSets

CONSTANTS
    MonthDays, WeekDays,    \* length of a month and of a week
    LookaheadDays,          \* LOOKAHEAD_DAYS
    RuleSet,                \* the recurring rules there may be
    MaxDay,                 \* bound: MaxDay[cadence], the last day
    MaxMissed,              \* bound: days in a row without a complete tick
    MaxCrashes,             \* bound: engine crashes
    MaxDeletions            \* bound: drafts deleted by a user

Cadences == {"weekly", "monthly", "quarterly", "semi_annual", "annual"}

RecurringAssumption ==
    /\ MonthDays \in Nat \ {0} /\ WeekDays \in Nat \ {0} /\ LookaheadDays \in Nat
    /\ RuleSet \subseteq [cadence : Cadences, day : 1..MonthDays, from : Nat]
    /\ MaxDay \in [Cadences -> Nat] /\ \A r \in RuleSet : r.from <= MaxDay[r.cadence]
    /\ MaxMissed \in Nat /\ MaxCrashes \in Nat /\ MaxDeletions \in Nat

VARIABLES
    rule,       \* the recurring rule
    lastRun,    \* last_run_period
    today,      \* the day
    tick,       \* the task's stage today
    seen,       \* last_run_period as the task read it
    events,     \* the schedule events not processed yet
    step,       \* where the engine is in createRecurringDraft, for which event
    drafts,     \* the drafts there are
    missed,     \* days in a row without a complete tick
    announced,  \* ghost: the periods an event was ever emitted for
    outage,     \* ghost: a day went by without a complete tick
    crashesLeft, deletionsLeft

vars == <<rule, lastRun, today, tick, seen, events, step, drafts,
          missed, announced, outage, crashesLeft, deletionsLeft>>

NoPeriod == <<"none", 0>>
NoEvent == [period |-> NoPeriod, planned |-> 0]
Idle == [at |-> "idle", event |-> NoEvent]

-----------------------------------------------------------------------------
(* Calendar.                                                                *)
Month(d) == d \div MonthDays
DateOf(month, day) == month * MonthDays + day - 1
StepMonths(cadence) ==
    CASE cadence = "annual" -> 12 [] cadence = "semi_annual" -> 6
      [] cadence = "quarterly" -> 3 [] OTHER -> 1

(* periodOf: the label a period is stamped with. A half year or a quarter   *)
(* is one of the calendar year.                                             *)
PeriodOf(cadence, d) ==
    IF cadence = "weekly" THEN <<"week", d \div WeekDays>>
                          ELSE <<cadence, Month(d) \div StepMonths(cadence)>>

NextDueStrict(r, day) ==
    LET here == DateOf(Month(day), r.day)
    IN  IF r.cadence = "weekly"
          THEN day + (((r.day % WeekDays) - (day % WeekDays) + WeekDays) % WeekDays)
          ELSE IF here > day THEN here
               ELSE DateOf(Month(day) + StepMonths(r.cadence), r.day)

(* nextDue: the first due date at or after `day`. The day of the period in  *)
(* the month of `day`, whichever month that is, else in the month one step  *)
(* further on.                                                              *)
NextDue(r, day) ==
    LET start == IF r.from > day THEN r.from ELSE day
        here == DateOf(Month(start), r.day)
    IN  IF r.cadence = "weekly"
          THEN start + (((r.day % WeekDays) - (start % WeekDays) + WeekDays) % WeekDays)
          ELSE IF here >= day THEN here
               ELSE DateOf(Month(start) + StepMonths(r.cadence), r.day)

-----------------------------------------------------------------------------
Init ==
    /\ rule \in RuleSet
    /\ lastRun = NoPeriod
    /\ today = rule.from
    /\ tick = "due"
    /\ seen = NoPeriod
    /\ events = {}
    /\ step = Idle
    /\ drafts = {}
    /\ missed = 0
    /\ announced = {}
    /\ outage = FALSE
    /\ crashesLeft = MaxCrashes
    /\ deletionsLeft = MaxDeletions

(* The task of the day (claimJob gives a day's window to one run of it):    *)
(* the rules are read,                                                      *)
ReadRules ==
    /\ tick = "due"
    /\ seen' = lastRun
    /\ tick' = "read"
    /\ UNCHANGED <<rule, lastRun, today, events, step, drafts, missed,
                   announced, outage, crashesLeft, deletionsLeft>>

Due == NextDue(rule, today)
DuePeriod == PeriodOf(rule.cadence, Due)
Waiting(period) == \E e \in events : e.period = period

(* then, per rule, an event is emitted unless the period is stamped or an   *)
(* event for it is still to be processed.                                   *)
Wanted == Due <= today + LookaheadDays /\ seen # DuePeriod

LookForEvent ==
    /\ tick = "read"
    /\ tick' = IF Wanted /\ ~Waiting(DuePeriod) THEN "emit" ELSE "done"
    /\ missed' = IF tick' = "done" THEN 0 ELSE missed
    /\ UNCHANGED <<rule, lastRun, today, seen, events, step, drafts,
                   announced, outage, crashesLeft, deletionsLeft>>

Emit ==
    /\ tick = "emit"
    /\ events' = events \cup {[period |-> DuePeriod, planned |-> Due]}
    /\ announced' = announced \cup {DuePeriod}
    /\ tick' = "done"
    /\ missed' = 0
    /\ UNCHANGED <<outage, rule, lastRun, today, seen, step, drafts,
                   crashesLeft, deletionsLeft>>

(* The task dies, or the write of the event fails (emitDomainEvent only     *)
(* logs): the window of the day is used up.                                 *)
TaskFails ==
    /\ tick \in {"read", "emit"}
    /\ missed < MaxMissed
    /\ tick' = "failed"
    /\ UNCHANGED <<rule, lastRun, today, seen, events, step, drafts, missed,
                   announced, outage, crashesLeft, deletionsLeft>>

(* The next day. The task may not have run at all.                          *)
NextDay ==
    /\ today < MaxDay[rule.cadence]
    /\ tick \in {"due", "done", "failed"} /\ step = Idle
    /\ tick # "done" => missed < MaxMissed
    /\ missed' = IF tick = "done" THEN 0 ELSE missed + 1
    /\ outage' = (outage \/ tick # "done")
    /\ today' = today + 1
    /\ tick' = "due"
    /\ seen' = NoPeriod
    /\ UNCHANGED <<rule, lastRun, events, step, drafts, announced,
                   crashesLeft, deletionsLeft>>

-----------------------------------------------------------------------------
(* createRecurringDraft, carried out by the engine for one event.           *)
At(stage) == [step EXCEPT !.at = stage]
Settle == events' = events \ {step.event} /\ step' = Idle

(* The engine claims the event.                                             *)
Take(e) ==
    /\ step = Idle
    /\ step' = [at |-> "look", event |-> e]
    /\ UNCHANGED <<rule, lastRun, today, tick, seen, events, drafts, missed,
                   announced, outage, crashesLeft, deletionsLeft>>

(* A draft of the period exists: nothing is made. No chief accountant who   *)
(* could be its author: the run fails and is not repeated.                  *)
Copies(period) == {d \in drafts : d.period = period}
DraftedByRun(period) == lastRun = period
Drafted(period) == Copies(period) # {}

Look ==
    /\ step.at = "look"
    /\ \/ Settle
       \/ /\ ~Drafted(step.event.period)
          /\ step' = At("create")
          /\ events' = events
    /\ UNCHANGED <<rule, lastRun, today, tick, seen, drafts, missed,
                   announced, outage, crashesLeft, deletionsLeft>>

Create ==
    /\ step.at = "create"
    /\ drafts' = drafts \cup {[period |-> step.event.period, planned |-> step.event.planned,
                               copy |-> Cardinality(Copies(step.event.period)) + 1]}
    /\ step' = At("stamp")
    /\ UNCHANGED <<rule, lastRun, today, tick, seen, events, missed, announced, outage,
                   crashesLeft, deletionsLeft>>

(* last_run_period is set, then the engine records the step as done.        *)
Stamp ==
    /\ step.at = "stamp"
    /\ lastRun' = step.event.period
    /\ step' = At("record")
    /\ UNCHANGED <<rule, today, tick, seen, events, drafts, missed, announced, outage,
                   crashesLeft, deletionsLeft>>

Record ==
    /\ step.at = "record"
    /\ Settle
    /\ UNCHANGED <<rule, lastRun, today, tick, seen, drafts, missed, announced, outage,
                   crashesLeft, deletionsLeft>>

(* The engine dies; the event's lease ends and it is taken again.           *)
Crash ==
    /\ step # Idle
    /\ crashesLeft > 0
    /\ crashesLeft' = crashesLeft - 1
    /\ step' = Idle
    /\ UNCHANGED <<rule, lastRun, today, tick, seen, events, drafts, missed,
                   announced, outage, deletionsLeft>>

-----------------------------------------------------------------------------
(* A user deletes a draft.                                                  *)
DeleteDraft ==
    /\ deletionsLeft > 0
    /\ deletionsLeft' = deletionsLeft - 1
    /\ \E d \in drafts : drafts' = drafts \ {d}
    /\ UNCHANGED <<rule, lastRun, today, tick, seen, events, step, missed,
                   announced, outage, crashesLeft>>

Engine == (\E e \in events : Take(e)) \/ Look \/ Create \/ Stamp \/ Record

Next == \/ ReadRules \/ LookForEvent \/ Emit \/ TaskFails \/ NextDay
        \/ Engine \/ Crash \/ DeleteDraft

Spec == Init /\ [][Next]_vars

-----------------------------------------------------------------------------
(* The task and the engine are at a step they have, and no event is planned *)
(* for a day before the rule began.                                         *)
TypeOK ==
    /\ rule \in RuleSet
    /\ today \in 0..MaxDay[rule.cadence]
    /\ tick \in {"due", "read", "emit", "done", "failed"}
    /\ step.at \in {"idle", "look", "create", "stamp", "record"}
    /\ missed \in 0..MaxMissed
    /\ \A e \in events : e.planned >= rule.from

(* A period has at most one draft, through engine crashes between the draft *)
(* and its stamp, through a task that read the rule before the stamp, and   *)
(* through events emitted twice for one period.                             *)
OneDraft == \A d, e \in drafts : d.period = e.period => d = e

(* No period is forgotten: of every week, month, quarter, half year or year *)
(* that is over, and that began under the rule, an event was emitted,       *)
(* although the task may have failed for MaxMissed days in a row.           *)
Over == {PeriodOf(rule.cadence, d) : d \in rule.from..(today - 1)}
            \ {PeriodOf(rule.cadence, today)}
Broken ==    \* began before the rule, or its first days were missed
    {PeriodOf(rule.cadence, d) : d \in 0..(IF outage THEN rule.from ELSE rule.from - 1)}

NoPeriodForgotten ==
    ~outage \/ rule.cadence \in {"weekly", "monthly"} => Over \ Broken \subseteq announced
=============================================================================
