------------------------------ MODULE MCOffice ------------------------------
(* PartnerSettle, PartnerMerge, RecurringPayments, DocumentFiles and        *)
(* CashForecast for TLC. They share no state, so a behaviour is a scene of  *)
(* one of them.                                                             *)
EXTENDS PartnerSettle, DocumentFiles, MCCashForecast, TLC

CONSTANTS r1, r2, x1, x2, Scenes, MaxUpsets, MaxMissed, MaxDeletions

VARIABLES
    scene,
    there, active, touched, ref, hand, job, late, blind, upsets,
    rule, lastRun, day, tick, seen, events, step, drafts, missed, announced, outage, halted, deletionsLeft

merge == <<there, active, touched, ref, hand, job, late, blind, upsets>>
recurring == <<rule, lastRun, day, tick, seen, events, step, drafts, missed, announced, outage, halted, deletionsLeft>>

-----------------------------------------------------------------------------
(* Two partners and two requests to merge or delete them.                   *)
M == INSTANCE PartnerMerge WITH
        Partners <- {x1, x2}, Kinds <- <<"voucher", "debt">>, Refs <- {"v", "d"},
        KindOf <- [r \in {"v", "d"} |-> IF r = "v" THEN "voucher" ELSE "debt"],
        Jobs <- {r1, r2}, MaxRounds <- 2

-----------------------------------------------------------------------------
(* Rules of the 1st and of the last day of a month, from the start of a     *)
(* period or within one; weekly and quarterly rules.                        *)
RuleOf(cadence, dayOf, from) == [cadence |-> cadence, day |-> dayOf, from |-> from]
SomeRules == {RuleOf("monthly", 1, 0), RuleOf("monthly", 4, 2), RuleOf("weekly", 1, 0),
              RuleOf("quarterly", 3, 0)}
LastDayOf == [weekly |-> 6, monthly |-> 8, quarterly |-> 13, semi_annual |-> 0, annual |-> 0]

R == INSTANCE RecurringPayments WITH
        MonthDays <- 4, WeekDays <- 3, LookaheadDays <- 3, RuleSet <- SomeRules,
        MaxDay <- LastDayOf, today <- day, crashesLeft <- halted

ASSUME OfficeAssumption ==
    /\ PartnerSettleAssumption /\ FilesAssumption
    /\ M!PartnerMergeAssumption /\ R!RecurringAssumption

-----------------------------------------------------------------------------
(* What is not in the scene stands still at one of its initial states.      *)
OfficeInit ==
    /\ scene \in Scenes
    /\ Init /\ M!Init /\ R!Init /\ FilesInit /\ ForecastInit
    /\ scene # "merge" => ref = [r \in {"v", "d"} |-> "none"]
    /\ scene # "recurring" => rule = RuleOf("monthly", 1, 0)
    /\ scene # "files" => owner = "document"
    /\ scene # "forecast" => book = CHOOSE c \in Cases : c.loan = None

OfficeNext ==
    \/ scene = "settle" /\ Next /\ UNCHANGED <<scene, merge, recurring, filesVars, forecastVars>>
    \/ scene = "merge" /\ M!Next /\ UNCHANGED <<scene, vars, recurring, filesVars, forecastVars>>
    \/ scene = "recurring" /\ R!Next /\ UNCHANGED <<scene, vars, merge, filesVars, forecastVars>>
    \/ scene = "files" /\ FilesNext /\ UNCHANGED <<scene, vars, merge, recurring, forecastVars>>
    \/ scene = "forecast" /\ ForecastNext /\ UNCHANGED <<scene, vars, merge, recurring, filesVars>>

OfficeSpec == OfficeInit /\ [][OfficeNext]_<<scene, vars, merge, recurring, filesVars, forecastVars>>

Symmetry == Permutations({r1, r2}) \cup Permutations({x1, x2})

(* PartnerMerge: what names a partner names one that exists.                *)
NoDangling == M!NoDangling
(* RecurringPayments: a period has at most one draft.                       *)
OneDraft == R!OneDraft
(* RecurringPayments: every period that is over had an event.               *)
NoPeriodForgotten == R!NoPeriodForgotten
=============================================================================
