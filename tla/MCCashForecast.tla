--------------------------- MODULE MCCashForecast ---------------------------
(* Cases of CashForecast for TLC.                                           *)
EXTENDS CashForecast

(* Companies A and B, and a loan of A of 7 that bears nothing or a tenth a   *)
(* day: due from next month on, or overdue before the last day.             *)
YearOfMonths == <<4, 3, 4, 4, 3, 4, 4, 3, 4, 4, 4, 3>>
VoucherOf(kind, company, target, amount, planned) ==
    [kind |-> kind, company |-> company, target |-> target, amount |-> amount,
     planned |-> planned, repays |-> 0, settles |-> FALSE]
Repayment(amount, planned, repays) ==
    [VoucherOf("spend", "A", None, amount, planned) EXCEPT !.repays = repays, !.settles = TRUE]
LoanFrom(start, maturity, frequency, method, rate) ==
    [start |-> start, maturity |-> maturity, frequency |-> frequency, method |-> method,
     rate |-> rate, principal |-> 7]
LoansOfA ==
    {LoanFrom(3, 16, f, m, rate) : f \in {"monthly", "quarterly", "maturity"}, m \in Methods, rate \in {0, 10}}
        \cup {LoanFrom(0, 12, "monthly", m, 10) : m \in Methods}
CaseOf(vouchers, loan) == [vouchers |-> vouchers, loan |-> loan, borrower |-> "A"]
SomeCases ==
    {CaseOf(<<VoucherOf("spend", "A", None, 2, 1), VoucherOf("income", "B", None, 3, 4),
              VoucherOf("internal", "A", "B", 1, 0)>>, None),
     CaseOf(<<VoucherOf("spend", "A", "B", 2, 1), VoucherOf("internal", "B", "A", 1, 9)>>, None)}
        \cup {CaseOf(<<Repayment(2, 1, 2), Repayment(4, 5, 3)>>, l) : l \in LoansOfA}
=============================================================================
