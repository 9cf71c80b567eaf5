--------------------------- MODULE LoanAutomation ---------------------------
(***************************************************************************)
(* What the automation rules do with the loan of one voucher: R2 (an       *)
(* income that borrows), R3 (a spend paid from a loan, with its receipt)   *)
(* and R6 (the voucher is cancelled or rejected), in                       *)
(* automation/{rules,actions,policy,locks}, against the people who edit,   *)
(* submit, decide, pay and delete that voucher meanwhile.                  *)
(*                                                                         *)
(* An event of the voucher queues a run; AutomationEngine models how a run *)
(* is claimed, here a worker simply has it (busy). A step of a run is what *)
(* it reads, which leaves in plan what it will write, and the write. A     *)
(* crash drops the plan and leaves the run to be taken over at the same    *)
(* step, after others; an error ends it as failed, which alerts.           *)
(***************************************************************************)
EXTENDS Integers, Sequences, FiniteSets, SequencesExt, FiniteSetsExt

CONSTANTS
    Loans,          \* the loans the rules can create
    Kept,           \* the loan the creator may choose instead
    Sums,           \* amounts of the voucher
    CreateAt,       \* parameter r2_create_at: "save" or "approve"
    Workers,        \* processes that run rules at the same time
    MaxRuns, MaxCrashes     \* bounds: events of the voucher, crashes

ASSUME LoanAutomationAssumption ==
    /\ Kept \notin Loans /\ Sums \subseteq Nat \ {0}
    /\ CreateAt \in {"save", "approve"}
    /\ Workers \in Nat \ {0} /\ MaxRuns \in Nat /\ MaxCrashes \in Nat

VARIABLES
    source,     \* the voucher: kind, status, loan choice, amount, amount paid
    receipt,    \* the disbursement receipt R3 makes: status, amount
    loan,       \* status and principal of each loan
    links,      \* active links to loans, from the voucher or its receipt
    runs,       \* the runs of the rules, in the order of their events
    alerted,    \* loans of which source_cancelled_with_money was raised
    desk,       \* what a person is about to write: a payment or a deletion
    hasty,      \* history: the voucher was deleted while a rule ran
    revived,    \* history: loans revived and not brought up to date since
    crashes

vars == <<source, receipt, loan, links, runs, alerted, desk, hasty, revived, crashes>>
AllLoans == Loans \cup {Kept}

-----------------------------------------------------------------------------
(* The statuses and decisions of policy.ts                                  *)
PreApproval == {"draft", "pending", "rejected"}
Approved == {"approved", "paid"}
FinalCancel == {"cancelled", "rejected"}
Linkable == {"pending", "active"}

DraftMayFollowEdits(status) == status = "draft"
MayFollowEdits(status) == status \in PreApproval
MayRevive(status) == status \in PreApproval \ {"rejected"}
MayCreate(event, status) ==
    \/ status \in Approved
    \/ /\ CreateAt = "save"
       /\ event \in {"created", "updated", "submitted"}
       /\ status \in PreApproval \ {"rejected"}

There == source.status # "gone"
MadeAndOpen == {l \in Loans : loan[l].status \in Linkable}
Made == {l \in Loans : loan[l].status # "absent"}   \* automationLoansOfSource
MoneyMoved(l) == loan[l].status = "active"

From(x) == {k \in links : k.from = x}
OnLoan(l, rel) == {k \in links : k.to = l /\ k.rel = rel}
Total(L) == MapThenSumSet(LAMBDA k : k.amount, L)

AmountOf(x) == IF x = "source" THEN source.amount ELSE receipt.amount
ExistsDoc(x) == IF x = "source" THEN There ELSE receipt.status # "none"

-----------------------------------------------------------------------------
NoPlan == [act |-> "none"]
NewRun(rule, event, step) ==
    [rule |-> rule, event |-> event, step |-> step, plan |-> NoPlan, loan |-> "none",
     busy |-> FALSE, crashed |-> FALSE]

(* DEFAULT_AUTOMATION_RULES: the event and the condition of each rule       *)
RunsOf(kind, mode, event) ==
    CASE event \in {"cancelled", "rejected"} ->
            IF mode = "none" THEN <<>> ELSE <<NewRun("R6", event, "cancel_unpaid")>>
      [] kind = "income" -> <<NewRun("R2", event, "create_loan")>>
      [] event = "approved" /\ mode = "new" -> <<NewRun("R3", event, "create_loan")>>
      [] OTHER -> <<>>

Init ==
    /\ source \in [kind : {"income"}, status : {"draft"}, mode : {"none", "new", "existing"}, amount : Sums, paid : {0}]
                  \cup [kind : {"spend"}, status : {"pending"}, mode : {"new"}, amount : Sums, paid : {0}]
    /\ receipt = [status |-> "none", amount |-> 0]
    /\ \E status \in Linkable, a \in Sums :
          loan = [l \in AllLoans |-> IF l = Kept THEN [status |-> status, amount |-> a]
                                     ELSE [status |-> "absent", amount |-> 0]]
    /\ links = {} /\ alerted = {} /\ desk = NoPlan /\ hasty = FALSE /\ revived = {} /\ crashes = 0
    /\ runs = RunsOf(source.kind, source.mode, "created")

-----------------------------------------------------------------------------
(* People: each write of the voucher emits its event.                       *)
Emit(events) ==
    LET new == FoldLeft(LAMBDA q, e : q \o RunsOf(source.kind, source'.mode, e), <<>>, events)
    IN  /\ Len(runs) + Len(new) <= MaxRuns
        /\ runs' = runs \o new

Edit ==
    /\ source.kind = "income" /\ source.status \in {"draft", "rejected"}
    /\ \E mode \in {"none", "new", "existing"}, a \in Sums :
          /\ <<mode, a>> # <<source.mode, source.amount>>
          /\ Total(From("source")) <= a
          /\ source' = [source EXCEPT !.mode = mode, !.amount = a]
    /\ Emit(<<"updated">>)
    /\ UNCHANGED <<receipt, loan, links, alerted, desk, hasty, revived, crashes>>

Move(from, to, events) ==
    /\ source.status \in from
    /\ source' = [source EXCEPT !.status = to]
    /\ Emit(events)
    /\ UNCHANGED <<receipt, loan, links, alerted, desk, hasty, revived, crashes>>

Submit == Move({"draft", "rejected"}, "pending", <<"submitted">>)
Reject == Move({"pending"}, "rejected", <<"rejected">>)
Cancel == Move({"draft"} \cup (IF source.kind = "spend" THEN {"approved"} ELSE {}), "cancelled", <<"cancelled">>)

(* The last approval; an income is paid by it.                              *)
Approve ==
    /\ source.status = "pending"
    /\ source' = [source EXCEPT !.status = IF source.kind = "income" THEN "paid" ELSE "approved",
                                !.paid = IF source.kind = "income" THEN source.amount ELSE 0]
    /\ Emit(IF source.kind = "income" THEN <<"approved", "paid">> ELSE <<"approved">>)
    /\ UNCHANGED <<receipt, loan, links, alerted, desk, hasty, revived, crashes>>

(* amountLockedByAutomation: a run of R3 that was started fixes the amount; *)
(* the payment is written after that was read.                              *)
Ended(i) == runs[i].step \in {"done", "failed"}
Started(i) == runs[i].busy \/ runs[i].crashed \/ Ended(i)
AmountLocked == \E i \in DOMAIN runs : runs[i].rule = "R3" /\ Started(i)

CheckPayment ==
    /\ desk = NoPlan /\ source.kind = "spend" /\ source.status = "approved"
    /\ \E a \in {x \in Sums : x <= source.amount} :
          /\ AmountLocked => a = source.amount
          /\ desk' = [act |-> "pay", amount |-> a]
    /\ UNCHANGED <<source, receipt, loan, links, runs, alerted, hasty, revived, crashes>>

CommitPayment ==
    /\ desk.act = "pay"
    /\ source' = IF source.status = "approved"
                   THEN [source EXCEPT !.status = "paid", !.paid = desk.amount] ELSE source
    /\ desk' = NoPlan
    /\ UNCHANGED <<receipt, loan, links, runs, alerted, hasty, revived, crashes>>

-----------------------------------------------------------------------------
(* The runs. A worker takes the oldest event that is due; a crashed run     *)
(* waits for its lease and others may go ahead of it.                       *)
Start(i) ==
    /\ ~runs[i].busy /\ ~Ended(i)
    /\ Cardinality({j \in DOMAIN runs : runs[j].busy}) < Workers
    /\ \A j \in 1..(i - 1) : Ended(j) \/ runs[j].busy \/ runs[j].crashed
    /\ runs' = [runs EXCEPT ![i].busy = TRUE]
    /\ hasty' = (hasty \/ desk.act = "remove")
    /\ UNCHANGED <<source, receipt, loan, links, alerted, desk, revived, crashes>>

Crash(i) ==
    /\ runs[i].busy /\ crashes < MaxCrashes
    /\ runs' = [runs EXCEPT ![i].busy = FALSE, ![i].crashed = TRUE, ![i].plan = NoPlan]
    /\ crashes' = crashes + 1
    /\ UNCHANGED <<source, receipt, loan, links, alerted, desk, hasty, revived>>

At(i, rule, step) == runs[i].busy /\ runs[i].rule = rule /\ runs[i].step = step /\ runs[i].plan = NoPlan
Planned(i, act) == runs[i].busy /\ runs[i].plan.act = act
Plan(i, p) == runs' = [runs EXCEPT ![i].plan = p]
To(i, step) == runs' = [runs EXCEPT ![i].step = step, ![i].plan = NoPlan, ![i].busy = step \notin {"done", "failed"}]
ToWith(i, step, l) ==
    runs' = [runs EXCEPT ![i].step = step, ![i].plan = NoPlan, ![i].loan = l,
                         ![i].busy = step \notin {"done", "failed"}]
Fail(i) == To(i, "failed")



(* R2, create_loan. Not borrowing any more: releaseAutoLoanOf takes loans   *)
(* without money away. Else findAutoLoanFor gives one made for the voucher. *)
Waiting == {l \in Made : loan[l].status = "pending"}
CancelLoans(L) == loan' = [l \in AllLoans |-> IF l \in L THEN [loan[l] EXCEPT !.status = "cancelled"] ELSE loan[l]]

CreateLoanR2(i) ==
    /\ At(i, "R2", "create_loan")
    /\ IF There /\ source.mode # "new"
         THEN /\ links' = {k \in links : ~(k.from = "source" /\ k.to \in Waiting)}
              /\ CancelLoans(Waiting)
              /\ To(i, "activate_loan")
         ELSE /\ UNCHANGED <<loan, links>>
              /\ CASE ~There -> To(i, "activate_loan")
                   [] There /\ Made = {} ->
                        IF MayCreate(runs[i].event, source.status)
                          THEN Plan(i, [act |-> "create", amount |-> source.amount])
                          ELSE To(i, "activate_loan")
                   [] OTHER -> \E l \in Made :
                        CASE loan[l].status = "cancelled" /\ MayRevive(source.status) ->
                                Plan(i, [act |-> "revive", loan |-> l])
                          [] loan[l].status = "pending" /\ MayFollowEdits(source.status) ->
                                Plan(i, [act |-> "sync", loan |-> l, amount |-> source.amount])
                          [] OTHER -> ToWith(i, "activate_loan", l)
    /\ UNCHANGED <<source, receipt, alerted, desk, hasty, revived, crashes>>

CreateLoanR3(i) ==
    /\ At(i, "R3", "create_loan")
    /\ CASE ~There -> To(i, "create_voucher")
         [] There /\ Made # {} -> \E l \in Made : Plan(i, [act |-> "fund", loan |-> l, amount |-> loan[l].amount])
         [] OTHER -> IF source.status \in Approved
                       THEN Plan(i, [act |-> "create", amount |-> source.amount]) ELSE Fail(i)
    /\ UNCHANGED <<source, receipt, loan, links, alerted, desk, hasty, revived, crashes>>

(* createAutoLoan: nothing in the database refuses a second one.            *)
WriteLoan(i) ==
    /\ Planned(i, "create")
    /\ \E l \in Loans \ Made : LET a == runs[i].plan.amount
       IN  /\ loan' = [loan EXCEPT ![l] = [status |-> "pending", amount |-> a]]
           /\ IF runs[i].rule = "R2" THEN ToWith(i, "activate_loan", l)
              ELSE Plan(i, [act |-> "fund", loan |-> l, amount |-> a])
    /\ UNCHANGED <<source, receipt, links, alerted, desk, hasty, revived, crashes>>

(* reviveLoan, syncAutoLoan: guarded by the status they rely on             *)
ReviveLoan(i) ==
    /\ Planned(i, "revive")
    /\ LET l == runs[i].plan.loan
       IN  /\ loan' = IF loan[l].status = "cancelled" THEN [loan EXCEPT ![l].status = "pending"] ELSE loan
           /\ revived' = revived \cup {l}
           /\ ToWith(i, "activate_loan", l)
    /\ UNCHANGED <<source, receipt, links, alerted, desk, hasty, crashes>>

SyncLoan(i) ==
    /\ Planned(i, "sync")
    /\ LET l == runs[i].plan.loan
       IN  /\ loan' = IF loan[l].status = "pending" THEN [loan EXCEPT ![l].amount = runs[i].plan.amount] ELSE loan
           /\ revived' = revived \ {l}
           /\ ToWith(i, "activate_loan", l)
    /\ UNCHANGED <<source, receipt, links, alerted, desk, hasty, crashes>>

-----------------------------------------------------------------------------
(* createLink with its capacity: of the voucher, and of the loan for the    *)
(* relation. A voucher that is cancelled or rejected may still be linked,   *)
(* and what it reserves is not counted.                                     *)
Holds(k) == IF k.from = "source" THEN source.status \notin FinalCancel ELSE receipt.status # "cancelled"
Reserving(L) == {k \in L : Holds(k)}
Fits(x, l, rel, a) ==
    /\ ExistsDoc(x)
    /\ Total(From(x)) + a <= AmountOf(x)
    /\ Total(Reserving(OnLoan(l, rel))) + a <= loan[l].amount

Link(x, l, rel, a) == [from |-> x, to |-> l, rel |-> rel, amount |-> a]
Same(x, l, rel) == {k \in links : k.from = x /\ k.to = l /\ k.rel = rel}

FundLink(i) ==
    /\ Planned(i, "fund")
    /\ LET p == runs[i].plan
       IN  CASE Same("source", p.loan, "funded_by") # {} -> ToWith(i, "create_voucher", p.loan) /\ UNCHANGED links
             [] OTHER -> IF Fits("source", p.loan, "funded_by", p.amount)
                           THEN /\ links' = links \cup {Link("source", p.loan, "funded_by", p.amount)}
                                /\ ToWith(i, "create_voucher", p.loan)
                           ELSE Fail(i) /\ UNCHANGED links
    /\ UNCHANGED <<source, receipt, loan, alerted, desk, hasty, revived, crashes>>

(* R2, link: which loan, what has to go first, what has to be made          *)
LinkR2(i) ==
    /\ At(i, "R2", "link")
    /\ \E target \in CASE ~There \/ source.mode = "none" -> {"none"}
                       [] There /\ source.mode = "existing" -> {Kept}
                       [] OTHER -> IF runs[i].loan # "none" THEN {runs[i].loan}
                                   ELSE IF Made # {} THEN Made ELSE {"none"} :
          LET a == source.amount
              others == {k \in From("source") : k.to # target /\ (k.to \in Loans \/ source.mode = "existing")}
              stale == {k \in From("source") : k.to = target /\ k.amount # a}
          IN  IF ~There THEN To(i, "done") /\ UNCHANGED links
              ELSE IF source.mode = "existing" /\ loan[Kept].status \notin Linkable
                THEN Fail(i) /\ UNCHANGED links
              ELSE IF target = "none" \/ loan[target].status \notin Linkable
                THEN links' = links \ others /\ To(i, "done")
              ELSE /\ links' = links \ (others \cup stale)
                   /\ IF \E k \in links \ stale : k.from = "source" /\ k.to = target
                        THEN To(i, "done")
                        ELSE Plan(i, [act |-> "link", loan |-> target, amount |-> a])
    /\ UNCHANGED <<source, receipt, loan, alerted, desk, hasty, revived, crashes>>

(* A loan that was just made and cannot be linked is cancelled again.       *)
WriteLink(i) ==
    /\ Planned(i, "link")
    /\ LET p == runs[i].plan
       IN  IF Same("source", p.loan, "disbursement") # {}
             THEN To(i, "done") /\ UNCHANGED <<loan, links>>
           ELSE IF Fits("source", p.loan, "disbursement", p.amount)
             THEN /\ links' = links \cup {Link("source", p.loan, "disbursement", p.amount)}
                  /\ To(i, "done") /\ UNCHANGED loan
           ELSE /\ CancelLoans({runs[i].loan} \cap {p.loan} \cap Waiting)
                /\ Fail(i) /\ UNCHANGED links
    /\ UNCHANGED <<source, receipt, alerted, desk, hasty, revived, crashes>>

(* R2, activate_loan: a paid income disburses the loans it is linked to and *)
(* the one the run made, with what was paid.                                *)
ActivateR2(i) ==
    /\ At(i, "R2", "activate_loan")
    /\ LET L == {k.to : k \in From("source")} \cup ({runs[i].loan} \cap Loans)
       IN  loan' = IF There /\ source.status = "paid"
                     THEN [l \in AllLoans |-> IF l \in L /\ loan[l].status = "pending"
                                                THEN [status |-> "active", amount |-> source.paid] ELSE loan[l]]
                     ELSE loan
    /\ To(i, "link")
    /\ UNCHANGED <<source, receipt, links, alerted, desk, hasty, revived, crashes>>

-----------------------------------------------------------------------------
(* R3: the receipt of the loan, its links, its payment, the disbursement.   *)
(* None of these steps looks at the status of the spend again.              *)
LoanOfRun(i) == IF runs[i].loan # "none" THEN {runs[i].loan} ELSE Made

CreateVoucher(i) ==
    /\ At(i, "R3", "create_voucher")
    /\ IF ~There \/ receipt.status # "none" THEN To(i, "link") /\ UNCHANGED receipt
       ELSE IF LoanOfRun(i) = {} THEN Fail(i) /\ UNCHANGED receipt
       ELSE \E l \in LoanOfRun(i) :
              /\ receipt' = [status |-> "approved", amount |-> loan[l].amount]
              /\ To(i, "link")
    /\ UNCHANGED <<source, loan, links, alerted, desk, hasty, revived, crashes>>

LinkR3(i) ==
    /\ At(i, "R3", "link")
    /\ IF ~There \/ receipt.status = "none" THEN To(i, "execute_voucher") /\ UNCHANGED links
       ELSE \E l \in LoanOfRun(i) :
              IF Same("receipt", l, "disbursement") # {} THEN To(i, "execute_voucher") /\ UNCHANGED links
              ELSE IF Fits("receipt", l, "disbursement", loan[l].amount)
                THEN /\ links' = links \cup {Link("receipt", l, "disbursement", loan[l].amount)}
                     /\ To(i, "execute_voucher")
              ELSE Fail(i) /\ UNCHANGED links
    /\ UNCHANGED <<source, receipt, loan, alerted, desk, hasty, revived, crashes>>

ExecuteVoucher(i) ==
    /\ At(i, "R3", "execute_voucher")
    /\ IF ~There \/ receipt.status \in {"none", "paid"} THEN To(i, "activate_loan") /\ UNCHANGED receipt
       ELSE IF receipt.status = "approved"
         THEN receipt' = [receipt EXCEPT !.status = "paid"] /\ To(i, "activate_loan")
       ELSE Fail(i) /\ UNCHANGED receipt
    /\ UNCHANGED <<source, loan, links, alerted, desk, hasty, revived, crashes>>

ActivateR3(i) ==
    /\ At(i, "R3", "activate_loan")
    /\ LET L == {k.to : k \in From("receipt")}
       IN  IF ~There \/ receipt.status # "paid" THEN To(i, "done") /\ UNCHANGED loan
           ELSE /\ loan' = [l \in AllLoans |-> IF l \in L /\ loan[l].status = "pending"
                                                 THEN [status |-> "active", amount |-> receipt.amount] ELSE loan[l]]
                /\ IF \E l \in L : loan[l].status \notin Linkable THEN Fail(i) ELSE To(i, "done")
    /\ UNCHANGED <<source, receipt, links, alerted, desk, hasty, revived, crashes>>

-----------------------------------------------------------------------------
(* R6: decideOnSourceFinal for every loan of the voucher: one it made and   *)
(* that has no money is cancelled, one that was chosen by hand is unlinked. *)
ReleaseAll ==
    /\ CancelLoans(Made)
    /\ links' = {k \in links : ~(k.from = "source" /\ k.to = Kept)}
Release ==
    /\ CancelLoans(Waiting)
    /\ links' = {k \in links : ~(k.from = "source" /\ k.to = Kept)}

CancelUnpaid(i) ==
    /\ At(i, "R6", "cancel_unpaid")
    /\ IF There /\ source.status \in FinalCancel
         THEN Release /\ Plan(i, [act |-> "receipt"])
         ELSE To(i, "alert") /\ UNCHANGED <<loan, links>>
    /\ UNCHANGED <<source, receipt, alerted, desk, hasty, revived, crashes>>

(* The receipt is known by its link "generated", made with the other one.   *)
CancelReceipt(i) ==
    /\ Planned(i, "receipt")
    /\ receipt' = IF receipt.status = "approved" /\ From("receipt") # {}
                    THEN [receipt EXCEPT !.status = "cancelled"] ELSE receipt
    /\ To(i, "alert")
    /\ UNCHANGED <<source, loan, links, alerted, desk, hasty, revived, crashes>>

Alert(i) ==
    /\ At(i, "R6", "alert")
    /\ alerted' = IF There /\ source.status \in FinalCancel
                    THEN alerted \cup {l \in Made : MoneyMoved(l)} ELSE alerted
    /\ To(i, "done")
    /\ UNCHANGED <<source, receipt, loan, links, desk, hasty, revived, crashes>>

-----------------------------------------------------------------------------
(* POST /documents/:id/delete: the loans the voucher disbursed wait again,  *)
(* then its loans are released as by R6, then its links and itself go.      *)
StartDelete ==
    /\ desk = NoPlan /\ There
    /\ desk' = [act |-> "revert",
                loans |-> IF source.status = "paid"
                            THEN {k.to : k \in {x \in From("source") : x.rel = "disbursement" /\ MoneyMoved(x.to)}}
                            ELSE {}]
    /\ UNCHANGED <<source, receipt, loan, links, runs, alerted, hasty, revived, crashes>>

RevertLoans ==
    /\ desk.act = "revert"
    /\ loan' = [l \in AllLoans |-> IF l \in desk.loans /\ MoneyMoved(l) THEN [loan[l] EXCEPT !.status = "pending"] ELSE loan[l]]
    /\ desk' = [act |-> "release"]
    /\ UNCHANGED <<source, receipt, links, runs, alerted, hasty, revived, crashes>>

RuleUnderWay == \E i \in DOMAIN runs : ~Ended(i)

ReleaseLoans ==
    /\ desk.act = "release"
    /\ Release
    /\ desk' = [act |-> "remove"]
    /\ hasty' = RuleUnderWay
    /\ UNCHANGED <<source, receipt, runs, alerted, revived, crashes>>

RemoveSource ==
    /\ desk.act = "remove"
    /\ links' = links \ From("source")
    /\ source' = [source EXCEPT !.status = "gone"]
    /\ desk' = NoPlan
    /\ hasty' = (hasty \/ RuleUnderWay)
    /\ UNCHANGED <<receipt, loan, runs, alerted, revived, crashes>>

-----------------------------------------------------------------------------
Next ==
    \/ Edit \/ Submit \/ Reject \/ Cancel \/ Approve
    \/ CheckPayment \/ CommitPayment
    \/ StartDelete \/ RevertLoans \/ ReleaseLoans \/ RemoveSource
    \/ \E i \in DOMAIN runs :
          \/ Start(i) \/ Crash(i)
          \/ CreateLoanR2(i) \/ WriteLoan(i) \/ ReviveLoan(i) \/ SyncLoan(i)
          \/ ActivateR2(i) \/ LinkR2(i) \/ WriteLink(i)
          \/ CreateLoanR3(i) \/ FundLink(i) \/ CreateVoucher(i) \/ LinkR3(i)
          \/ ExecuteVoucher(i) \/ ActivateR3(i)
          \/ CancelUnpaid(i) \/ CancelReceipt(i) \/ Alert(i)

Spec == Init /\ [][Next]_vars

-----------------------------------------------------------------------------
(* Every run, loan, link and voucher has a value the code can write, and a  *)
(* link always goes to a loan that exists.                                  *)
TypeOK ==
    /\ source.kind \in {"income", "spend"}
    /\ source.status \in {"draft", "pending", "rejected", "approved", "paid", "cancelled", "gone"}
    /\ receipt.status \in {"none", "approved", "paid", "cancelled"}
    /\ \A l \in AllLoans : loan[l].status \in {"absent", "pending", "active", "cancelled"} /\ loan[l].amount \in Nat
    /\ \A k \in links : loan[k.to].status # "absent"
    /\ \A i \in DOMAIN runs : runs[i].loan \in Loans \cup {"none"}

(* The rules have caught up with the voucher: no run is due, none failed    *)
(* (a failed one has raised an alert and waits for a person).               *)
Quiet == desk = NoPlan /\ \A i \in DOMAIN runs : runs[i].step = "done"

(* One voucher never borrows twice: whatever the edits, the decisions, the  *)
(* crashes and the runs taken over after them, the rules make at most one   *)
(* loan for it. Nothing in the database refuses a second; only the search   *)
(* of findAutoLoanFor by the step that creates does.                        *)
OneLoan == Cardinality({l \in Loans : loan[l].status # "absent"}) <= 1

(* When the rules have caught up, the loan says what the voucher says: of a *)
(* cancelled or rejected voucher it is cancelled or its money was alerted;  *)
(* a deleted voucher leaves none waiting (unless a rule ran while it was    *)
(* being deleted); an income that borrows has one loan of its amount,       *)
(* waiting before the payment and active after it, linked with that amount  *)
(* and nothing else; one that uses a chosen loan is linked to that alone.   *)
(* Two cases are left out: a voucher edited after it was rejected, and the  *)
(* principal of a loan that was revived (see the README).                   *)
LoanFollowsVoucher ==
    Quiet =>
        CASE source.status \in FinalCancel ->
                runs # <<>> /\ Last(runs).rule = "R6" =>
                    \A l \in Made : loan[l].status = "cancelled" \/ l \in alerted
          [] source.status = "gone" -> hasty \/ Waiting = {}
          [] There /\ source.kind = "income" /\ source.mode = "new" ->
                \E l \in Made :
                    /\ loan[l].status = IF source.status = "paid" THEN "active" ELSE "pending"
                    /\ (source.status # "paid" /\ l \in revived) \/ loan[l].amount = source.amount
                    /\ From("source") = {Link("source", l, "disbursement", source.amount)}
          [] There /\ source.mode = "existing" ->
                /\ Waiting = {}
                /\ From("source") = {Link("source", Kept, "disbursement", source.amount)}
          [] OTHER -> TRUE

(* The receipt R3 paid in never belongs to a loan that is cancelled, though *)
(* R3 makes loan, receipt and payment in five steps without looking at the  *)
(* spend again while R6 cancels what has no money yet.                      *)
NoMoneyInCancelled ==
    Quiet /\ ~hasty =>
        \A k \in links : k.from = "receipt" /\ receipt.status = "paid" => loan[k.to].status # "cancelled"
=============================================================================
