---------------------------- MODULE LoanSchedule ----------------------------
(***************************************************************************)
(* The repayment schedule of a bank loan                                   *)
(* (apps/api/src/domain/loan-schedule/index.ts) and what the cash-flow     *)
(* forecast leaves of it (netInstallments, domain/reports/cashflow.ts).    *)
(*                                                                         *)
(* A date is a number of days from the first of month 0; the months have   *)
(* the lengths of MonthLen, so that a month's last day differs. Interest   *)
(* is simple, principal * rate * days over Basis (365 * 100 in the code).  *)
(***************************************************************************)
EXTENDS Integers, Sequences, SequencesExt

CONSTANTS
    MonthLen,   \* the lengths of the months, from month 0 on
    Basis       \* the denominator of simpleInterest

ASSUME ScheduleAssumption ==
    /\ MonthLen \in Seq(Nat \ {0})
    /\ Basis \in Nat \ {0}

Frequencies == {"monthly", "quarterly", "semiannual", "maturity"}
Methods == {"interest_only", "equal_principal"}
Loans == [principal : Nat, rate : Nat, start : Nat, maturity : Nat,
          frequency : Frequencies, method : Methods]
Row == [due : Nat, principal : Int, interest : Nat]

(* FREQ_MONTHS *)
FreqMonths ==
    [f \in Frequencies |->
        CASE f = "monthly" -> 1 [] f = "quarterly" -> 3 [] f = "semiannual" -> 6 [] f = "maturity" -> 0]

AtLeast0(n) == IF n > 0 THEN n ELSE 0
SmallerOf(a, b) == IF a < b THEN a ELSE b

-----------------------------------------------------------------------------
FirstDay[m \in 0..Len(MonthLen)] == IF m = 0 THEN 0 ELSE FirstDay[m - 1] + MonthLen[m]
MonthOf[d \in Nat] ==
    CHOOSE m \in 0..(Len(MonthLen) - 1) : FirstDay[m] <= d /\ d < FirstDay[m + 1]

(* addMonths: the same day so many months later, or that month's last.      *)
AddMonths[d \in Nat, months \in Nat] ==
    LET m == MonthOf[d] + months
    IN  FirstDay[m] + SmallerOf(d - FirstDay[MonthOf[d]], MonthLen[m + 1] - 1)

(* simpleInterest, rounded half up.                                         *)
SimpleInterest(principal, rate, days) ==
    IF principal <= 0 \/ rate <= 0 \/ days <= 0 THEN 0
    ELSE ((principal * rate * days) + (Basis \div 2)) \div Basis

(* duesOf: each due date is one step after the one before, and the last is  *)
(* the maturity.                                                            *)
DuesFrom[due \in Nat, step \in Nat, maturity \in Nat] ==
    IF due >= maturity THEN <<maturity>>
    ELSE <<due>> \o DuesFrom[AddMonths[due, step], step, maturity]

Dues(loan) ==
    LET step == FreqMonths[loan.frequency]
    IN  IF step = 0 \/ loan.start >= loan.maturity THEN <<loan.maturity>>
        ELSE DuesFrom[AddMonths[loan.start, step], step, loan.maturity]

(* rowsFor: in every period the share of the principal, in the last one     *)
(* what is left of it; interest on what was left before.                    *)
RowsFrom[dues \in Seq(Nat), prev \in Nat, left \in Nat, share \in Nat, rate \in Nat] ==
    IF dues = <<>> THEN <<>>
    ELSE LET part == IF Len(dues) = 1 THEN left ELSE share
             row == [due |-> Head(dues), principal |-> part,
                     interest |-> SimpleInterest(left, rate, AtLeast0(Head(dues) - prev))]
         IN  <<row>> \o RowsFrom[Tail(dues), Head(dues), left - part, share, rate]

Share(loan, principal, periods) ==
    IF loan.method = "equal_principal" THEN principal \div periods ELSE 0

Rows(loan, dues, prev, principal) ==
    RowsFrom[dues, prev, principal, Share(loan, principal, Len(dues)), loan.rate]

(* How many periods of the original schedule `repaid` covers in full.       *)
Covered[rows \in Seq(Row), repaid \in Int] ==
    IF rows = <<>> \/ Head(rows).principal > repaid THEN 0
    ELSE 1 + Covered[Tail(rows), repaid - Head(rows).principal]

(* buildRemainingSchedule: what is still owed once `repaid` of the          *)
(* principal is paid back; with equal shares, over the periods it does not  *)
(* cover.                                                                   *)
Remaining[loan \in Loans, repaid \in Nat] ==
    LET dues == Dues(loan)
        outstanding == AtLeast0(loan.principal - repaid)
        paid == IF loan.method = "equal_principal" /\ repaid > 0
                  THEN Covered[Rows(loan, dues, loan.start, loan.principal), repaid]
                  ELSE 0
    IN  IF outstanding = 0 THEN <<>>
        ELSE Rows(loan, SubSeq(dues, paid + 1, Len(dues)),
                  IF paid = 0 THEN loan.start ELSE dues[paid], outstanding)

-----------------------------------------------------------------------------
PrincipalIn[rows \in Seq(Row)] ==
    IF rows = <<>> THEN 0 ELSE Head(rows).principal + PrincipalIn[Tail(rows)]

Total(row) == row.principal + row.interest
TotalIn[rows \in Seq(Row)] ==
    IF rows = <<>> THEN 0 ELSE Total(Head(rows)) + TotalIn[Tail(rows)]

(* netInstallments: planned repayments are taken off the rows in order,     *)
(* off a row's interest before its principal; an empty row is left out.     *)
Net[rows \in Seq(Row), planned \in Int] ==
    IF rows = <<>> \/ planned <= 0 THEN rows
    ELSE LET row == Head(rows)
             take == SmallerOf(planned, Total(row))
             ofInterest == SmallerOf(take, row.interest)
             left == [row EXCEPT !.interest = @ - ofInterest,
                                 !.principal = @ - (take - ofInterest)]
             rest == Net[Tail(rows), planned - take]
         IN  IF Total(left) > 0 THEN <<left>> \o rest ELSE rest
=============================================================================
