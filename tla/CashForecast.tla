---------------------------- MODULE CashForecast ----------------------------
(***************************************************************************)
(* The cash-flow forecast (apps/api/src/domain/reports/cashflow.ts,        *)
(* domain/ledger/planned.ts) over vouchers that are submitted, approved,   *)
(* returned and paid while the days go by.                                 *)
(*                                                                         *)
(* A case is a few vouchers and at most one running loan. The forecast is  *)
(* a function of the state: the ledger up to today, the vouchers that wait *)
(* for money, and the loan's instalments to come. Amounts are signed. How  *)
(* a payment is written, and that it is written once, is CashLedger.       *)
(***************************************************************************)
EXTENDS LoanSchedule, FiniteSetsExt

CONSTANTS
    Companies, None,
    Cases,          \* [vouchers |-> a sequence, loan |-> a loan or None, borrower |-> a company]
    Horizon,        \* the days a forecast looks at
    PayDays,        \* the days that may be entered as paid_at
    MaxDay          \* bound

(* kind; company; target, the other company of a transfer; amount; the      *)
(* planned date; repays, the principal it repays of the loan of the case.   *)
Vouchers ==
    [kind : {"spend", "income", "internal"}, company : Companies, target : Companies \cup {None},
     amount : Nat \ {0}, planned : Nat, repays : Nat, settles : BOOLEAN]

ASSUME ForecastAssumption ==
    /\ None \notin Companies /\ IsFiniteSet(Companies)
    /\ \A c \in Cases :
          /\ c.vouchers \in Seq(Vouchers)
          /\ c.loan \in Loans \cup {None} /\ c.borrower \in Companies
    /\ Horizon \in Nat \ {0} /\ PayDays \subseteq Nat /\ MaxDay \in Nat

VARIABLES
    book,       \* the case
    today,
    status,     \* of each voucher
    paidOn,     \* execution.paid_at, or None
    received    \* the transfers whose receipt rule R1 has executed

forecastVars == <<book, today, status, paidOn, received>>

Ids == DOMAIN book.vouchers
Voucher(v) == book.vouchers[v]

Statuses == {"draft", "pending", "approved", "processing", "paid", "changes_requested", "cancelled"}
Pipeline == {"pending", "approved", "processing"}

Sum(S, f(_)) == MapThenSumSet(f, S)

-----------------------------------------------------------------------------
(* entriesForPayment, and the receipt R1 makes for a spend with a target:   *)
(* what company c gets of voucher v.                                        *)
Booked(v, c) ==
    LET d == Voucher(v)
    IN  (IF c # d.company THEN 0 ELSE IF d.kind = "income" THEN d.amount ELSE -d.amount)
          + (IF c = d.target /\ (d.kind = "internal" \/ v \in received) THEN d.amount ELSE 0)

(* openingRows: the ledger up to the end of the first day.                  *)
Opening(c) == Sum({v \in Ids : paidOn[v] # None /\ paidOn[v] <= today}, LAMBDA v : Booked(v, c))

LastDay == today + Horizon - 1

PipelineWithPaid == {v \in Ids : status[v] \in Pipeline \cup {"paid"} /\ Voucher(v).planned <= LastDay}

(* loadPipelineDocs *)
PipelineDocs == {v \in Ids : status[v] \in Pipeline /\ Voucher(v).planned <= LastDay}

(* plannedFlowsOf: what company c expects of voucher v. Only a voucher of   *)
(* kind internal has two legs; one that is late is due today.               *)
Planned(v, c) ==
    LET d == Voucher(v)
    IN  (IF c # d.company THEN 0 ELSE IF d.kind = "income" THEN d.amount ELSE -d.amount)
          + (IF c = d.target /\ d.kind = "internal" THEN d.amount ELSE 0)

(* loadLoanSettlements, executedSum; plannedRepaymentsByLoan.               *)
Repaid == Sum({v \in Ids : status[v] = "paid"}, LAMBDA v : Voucher(v).repays)
PlannedRepayments == Sum({v \in PipelineDocs : Voucher(v).settles}, LAMBDA v : Voucher(v).amount)

(* cashflowForecast: the instalments of the loan in the window, less the    *)
(* repayments already planned.                                              *)
InWindow(rows) == SelectSeq(rows, LAMBDA r : today <= r.due /\ r.due <= LastDay)
Upcoming == IF book.loan = None THEN <<>> ELSE InWindow(Remaining[book.loan, Repaid])

InstalmentsNettedFirst ==
    IF book.loan = None THEN <<>> ELSE InWindow(Net[Remaining[book.loan, Repaid], PlannedRepayments])

Instalments == Net[Upcoming, PlannedRepayments]

(* buildForecastSeries: the closing balance of company c on the last day.   *)
EndClosing(c) ==
    Opening(c) + Sum(PipelineDocs, LAMBDA v : Planned(v, c))
      - (IF c = book.borrower THEN TotalIn[Instalments] ELSE 0)

-----------------------------------------------------------------------------
ForecastInit ==
    /\ book \in Cases
    /\ today = 0
    /\ status = [v \in DOMAIN book.vouchers |-> "draft"]
    /\ paidOn = [v \in DOMAIN book.vouchers |-> None]
    /\ received = {}

(* TRANSITIONS (workflow/state-machine.ts), the approval levels in one.     *)
Transitions == [action : {"submit"}, from : {"draft", "changes_requested"}, to : {"pending"}]
    \cup [action : {"approve"}, from : {"pending"}, to : {"approved"}]
    \cup [action : {"request_changes"}, from : {"pending", "processing"}, to : {"changes_requested"}]
    \cup [action : {"queue_payment"}, from : {"approved"}, to : {"processing"}]
    \cup [action : {"cancel"}, from : {"draft", "changes_requested", "approved"}, to : {"cancelled"}]

Transition(v) ==
    /\ \E t \in Transitions :
          /\ status[v] = t.from
          /\ status' = [status EXCEPT ![v] = t.to]
    /\ UNCHANGED <<book, today, paidOn, received>>

(* pay: all of it, with any day entered as the day of payment.              *)
Pay(v, day) ==
    /\ status[v] \in {"approved", "processing"}
    /\ status' = [status EXCEPT ![v] = "paid"]
    /\ paidOn' = [paidOn EXCEPT ![v] = day]
    /\ UNCHANGED <<book, today, received>>

(* R1: the receipt of a transfer made with a spend voucher.                 *)
Receive(v) ==
    /\ Voucher(v).kind = "spend" /\ Voucher(v).target # None
    /\ status[v] = "paid" /\ v \notin received
    /\ received' = received \cup {v}
    /\ UNCHANGED <<book, today, status, paidOn>>

NextDay ==
    /\ today < MaxDay
    /\ today' = today + 1
    /\ UNCHANGED <<book, status, paidOn, received>>

ForecastNext ==
    \/ \E v \in Ids : Transition(v) \/ Receive(v)
    \/ \E v \in Ids, day \in PayDays : Pay(v, day)
    \/ NextDay

ForecastSpec == ForecastInit /\ [][ForecastNext]_forecastVars

-----------------------------------------------------------------------------
(* Every voucher of the case has a status of the workflow and was paid on a *)
(* day that may be entered.                                                 *)
ForecastTypeOK ==
    /\ book \in Cases
    /\ today \in 0..MaxDay
    /\ status \in [Ids -> Statuses]
    /\ paidOn \in [Ids -> PayDays \cup {None}]
    /\ received \subseteq Ids

(* "Nguyên tắc không đếm trùng" (cashflow.ts): no payment is counted twice  *)
(* or not at all. Paying a voucher today or late, one that was expected     *)
(* within the window, changes nobody's projected balance. The repayment of  *)
(* principal is included when the loan bears no interest and the window     *)
(* holds all that is left of it; a transfer made with a spend voucher is    *)
(* not, nor a payment dated in the future (see the README).                 *)
WholeLoanInWindow ==
    LET rows == Remaining[book.loan, Repaid]
    IN  book.loan.rate = 0 /\ Len(Upcoming) = Len(rows)
PlainPayment(v) ==
    /\ status'[v] = "paid" /\ v \in PipelineDocs /\ paidOn'[v] <= today
    /\ Voucher(v).kind # "spend" \/ Voucher(v).target = None
    /\ Voucher(v).settles =>
          Voucher(v).amount = Voucher(v).repays /\ WholeLoanInWindow /\ WholeLoanInWindow'
PaidAsPlanned ==
    [][\A v \in Ids : PlainPayment(v) => \A c \in Companies : EndClosing(c)' = EndClosing(c)]_forecastVars

(* The remaining schedule repays exactly what is owed, at increasing dates  *)
(* up to the maturity, and planned repayments leave exactly the rest of the *)
(* instalments in the window, in whole and never less than nothing.         *)
LoanFlowsAddUp ==
    book.loan # None =>
        LET rows == Remaining[book.loan, Repaid]
        IN  /\ PrincipalIn[rows] = AtLeast0(book.loan.principal - Repaid)
            /\ \A i \in 1..Len(rows) :
                  /\ rows[i].principal >= 0 /\ rows[i].interest >= 0
                  /\ rows[i].due > (IF i = 1 THEN book.loan.start ELSE rows[i - 1].due)
            /\ rows # <<>> => Last(rows).due = book.loan.maturity
            /\ TotalIn[Instalments] = AtLeast0(TotalIn[Upcoming] - PlannedRepayments)
            /\ \A i \in 1..Len(Instalments) :
                  Instalments[i].principal >= 0 /\ Instalments[i].interest >= 0
=============================================================================
